-------------------------- MODULE MCDiscoveryIndex --------------------------
(* Instances of DiscoveryIndex.                                             *)
EXTENDS DiscoveryIndex, TLC

CONSTANTS o1, o2, x1, x2

Number(n) == [kind |-> "number", value |-> n]
NotANumber == [kind |-> "NaN", value |-> 0]
Amount(n) == [kind |-> "text", minus |-> FALSE, first |-> n]

Web == [scheme |-> "https", parses |-> TRUE, host |-> "domain", path |-> "/",
        lat |-> [kind |-> "absent", value |-> 0], long |-> [kind |-> "absent", value |-> 0],
        freq |-> [kind |-> "absent", minus |-> FALSE, first |-> -1],
        radius |-> [kind |-> "absent", minus |-> FALSE, first |-> -1]]
Radio == [Web EXCEPT !.scheme = "js8c+bsvauth+smf", !.lat = Number(90), !.long = Number(-180),
                     !.freq = Amount(7), !.radius = Amount(1)]

\* The URIs that pass, one way each, and a near miss for every test of them.
GoodUris ==
    {[Web EXCEPT !.scheme = "https+rtt", !.path = ""], [Web EXCEPT !.host = "none"],
     [Web EXCEPT !.scheme = "wss", !.path = "other"], Radio,
     [Radio EXCEPT !.lat = NotANumber], [Radio EXCEPT !.lat = Number(-90), !.long = Number(180)]}

BadUris ==
    {[Web EXCEPT !.scheme = "blank"], [Web EXCEPT !.scheme = "other"], [Web EXCEPT !.parses = FALSE],
     [Web EXCEPT !.host = "localhost"], [Web EXCEPT !.path = "other"],
     [Web EXCEPT !.scheme = "wss", !.host = "localhost"],
     [Radio EXCEPT !.parses = FALSE], [Radio EXCEPT !.lat = Number(91)],
     [Radio EXCEPT !.lat = Number(-91)], [Radio EXCEPT !.long = Number(181)],
     [Radio EXCEPT !.long = Number(-181)], [Radio EXCEPT !.long = [kind |-> "text", value |-> 0]],
     [Radio EXCEPT !.freq = Amount(0)], [Radio EXCEPT !.radius.minus = TRUE],
     [Radio EXCEPT !.radius = Amount(-1)]}

Ship == [decodes |-> TRUE, fields |-> 5, identifier |-> "SHIP", uri |-> Web,
         name |-> "tm_", key |-> TRUE, signature |-> "right", derived |-> TRUE]
Slap == [Ship EXCEPT !.identifier = "SLAP", !.name = "ls_"]

\* A near miss for every other test the code makes.
NearMisses ==
    {[Ship EXCEPT !.decodes = FALSE], [Ship EXCEPT !.fields = 3], [Ship EXCEPT !.fields = 6],
     [Ship EXCEPT !.identifier = "other"], [Ship EXCEPT !.identifier = "SLAP"],
     [Ship EXCEPT !.name = "invalid"], [Slap EXCEPT !.name = "tm_"],
     [Ship EXCEPT !.key = FALSE], [Slap EXCEPT !.signature = "unreadable"],
     [Ship EXCEPT !.signature = "wrong"]}

WithUris(uris) == {[Ship EXCEPT !.uri = u] : u \in uris}

Unlinked == [Slap EXCEPT !.derived = FALSE]

\* The two protocols next to each other and next to a bad token, and every good URI and
\* near miss next to a bad one.
AllScripts ==
    {(o1 :> a) @@ (o2 :> Slap) : a \in {Ship, Unlinked}}
    \cup {(o1 :> a) @@ (o2 :> Unlinked) : a \in NearMisses \cup WithUris(GoodUris \cup BadUris)}

FewScripts == {(o1 :> a) @@ (o2 :> Slap) : a \in {Ship, Slap}}

RadioScripts == {(o1 :> a) @@ (o2 :> Slap) : a \in WithUris(GoodUris)}

TwoTxs == (o1 :> x1) @@ (o2 :> x2)   \* x2 spends what x1 made and makes another
OneTx  == (o1 :> x1) @@ (o2 :> x1)   \* x2 only spends
=============================================================================
