---------------------------- MODULE MCAdvertiser ----------------------------
(* Instances of Advertiser.                                                 *)
EXTENDS Advertiser

Lengths == [w \in {"tm", "ls", "", "ship", "meter", "long"} |->
    CASE w \in {"tm", "ls"} -> 2 [] w = "" -> 0 [] w = "ship" -> 4 [] w = "meter" -> 5 [] w = "long" -> 45]

Ad(protocol, name) == [protocol |-> protocol, name |-> name]

\* tm_long has 48 characters: a valid name, but not with another prefix before it.
TmMeter == <<"tm", "meter">>
LsMeter == <<"ls", "meter">>
TmLong  == <<"tm", "long">>

\* One or two entries; the second one has the prefix of the other protocol or is bad in
\* each way an entry can be.
AllRequests ==
    {<<>>, <<Ad("SHIP", TmMeter), Ad("SLAP", LsMeter)>>, <<Ad("SHIP", TmMeter), Ad("SLAP", TmMeter)>>}
    \cup {<<Ad("SHIP", TmMeter), bad>> :
            bad \in {Ad("nil", <<"">>), Ad("other", TmMeter), Ad("SHIP", <<"">>), Ad("SHIP", <<"meter", "">>),
                     Ad("SHIP", TmLong), Ad("SLAP", <<"meter">>)}}

Absent == [kind |-> "absent", value |-> 0]
Home == [scheme |-> "https", parses |-> TRUE, host |-> "domain", path |-> "/", lat |-> Absent, long |-> Absent,
         freq |-> [kind |-> "absent", minus |-> FALSE, first |-> -1],
         radius |-> [kind |-> "absent", minus |-> FALSE, first |-> -1]]

Good == [chain |-> "main", privateKey |-> "good", storageURL |-> "http", advertisableURI |-> Home]

\* A good one, one with a key that Init refuses, and each argument at fault.
AllConfigurations ==
    {Good} \cup {[Good EXCEPT !.privateKey = k] : k \in {"short", "text", "blank"}}
    \cup {[Good EXCEPT !.chain = "blank"]}
    \cup {[Good EXCEPT !.storageURL = u] : u \in {"malformed", "other", "blank"}}
    \cup {[Good EXCEPT !.advertisableURI.scheme = u] : u \in {"other", "blank"}}
    \cup {[Good EXCEPT !.advertisableURI.host = "localhost"]}

\* What the README and the tests of the advertiser ask for.
DocumentedRequests ==
    {<<Ad("SHIP", <<"meter">>)>>, <<Ad("SHIP", <<"tm", "ship">>), Ad("SHIP", TmMeter)>>, <<Ad("SLAP", TmMeter)>>}

\* Outputs of other software: a token with the own key and a name of full length, one of
\* another host without a signature, and a script that is no token.
Made(protocol, key, name) ==
    [fields |-> 5, identifier |-> protocol, identityKey |-> key, domain |-> Home, name |-> name,
     signer |-> key, derived |-> key]

Others ==
    << <<Made("SHIP", OwnKey, TmLong), [Made("SLAP", OtherKey, LsMeter) EXCEPT !.fields = 4],
         [Made("SHIP", OwnKey, TmMeter) EXCEPT !.fields = 0]>> >>
=============================================================================
