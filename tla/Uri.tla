-------------------------------- MODULE Uri --------------------------------
(***************************************************************************)
(* Which URIs may be advertised (pkg/utils/validation.go).                  *)
(*                                                                          *)
(* A URI is what the checks tell apart: its scheme, what net/url makes of    *)
(* the rest, and for JS8 Call what the four parameters of its query hold.    *)
(* Degrees are whole numbers here.                                          *)
(***************************************************************************)
EXTENDS Integers

HTTPSSchemes == {"https", "https+bsvauth", "https+bsvauth+smf",
                 "https+bsvauth+scrypt-offchain", "https+rtt"}

\* "blank" is white space or nothing at all.
Schemes == HTTPSSchemes \cup {"wss", "js8c+bsvauth+smf", "other", "blank"}

\* A number as ParseFloat reads it, if it does.
Coordinate == [kind : {"absent", "text", "NaN", "number"}, value : Int]

\* Text with a number in it, or none (-1); the number has no sign of its own.
Quantity == [kind : {"absent", "text"}, minus : BOOLEAN, first : Nat \cup {-1}]

URI == [scheme : Schemes, parses : BOOLEAN, host : {"domain", "localhost", "none"},
        path : {"", "/", "other"}, lat : Coordinate, long : Coordinate,
        freq : Quantity, radius : Quantity]

-----------------------------------------------------------------------------
\* The path must be the root; an empty host passes.
ValidateCustomHTTPSURI(u) ==
    u.parses /\ u.host # "localhost" /\ u.path \in {"/", ""}

\* Any path is accepted.
ValidateWSSURI(u) == u.parses /\ u.host # "localhost"

\* Fault: only the larger bound is compared.
BelowOnly(c, bound) ==
    /\ c.kind \in {"NaN", "number"}
    /\ ~(c.kind = "number" /\ c.value > bound)


\* Refused when it is below or above the bound: NaN is neither.
ValidCoordinate(c, bound) ==
    /\ c.kind \in {"NaN", "number"}
    /\ ~(c.kind = "number" /\ (c.value < -bound \/ c.value > bound))

\* The first number anywhere in the text, which must not start with a minus.
ValidQuantity(q) == q.kind = "text" /\ ~q.minus /\ q.first > 0

\* parses: the URI has a query and the query parses.
ValidateJS8CallURI(u) ==
    /\ u.parses
    /\ ValidCoordinate(u.lat, 90) /\ ValidCoordinate(u.long, 180)
    /\ ValidQuantity(u.freq) /\ ValidQuantity(u.radius)

IsAdvertisableURI(u) ==
    \/ u.scheme \in HTTPSSchemes /\ ValidateCustomHTTPSURI(u)
    \/ u.scheme = "wss" /\ ValidateWSSURI(u)
    \/ u.scheme = "js8c+bsvauth+smf" /\ ValidateJS8CallURI(u)
=============================================================================
