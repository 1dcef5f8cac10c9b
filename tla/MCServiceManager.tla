-------------------------- MODULE MCServiceManager --------------------------
(* Instances of ServiceManager.  A name is a sequence of characters.        *)
EXTENDS ServiceManager

At == "@"

Letters == {"a", "b", "c", At}

\* Names one of which is a part of the other, with the separator in some: the services
\* a and a@b on the domains b@c and c, where a on b@c and a@b on c have the same key.
AnyServices == {<<"a">>, <<"a", At, "b">>}
AnyDomains  == {<<"c">>, <<"b", At, "c">>}
=============================================================================
