--------------------------- MODULE DiscoveryIndex ---------------------------
(***************************************************************************)
(* From a transaction to a findable advertisement.  The topic managers say  *)
(* which outputs of a transaction are SHIP or SLAP tokens                   *)
(* (pkg/shared/admittance.go); the overlay engine, which is not part of the  *)
(* repository, keeps the outputs each topic holds and notifies the lookup   *)
(* services of what was admitted, spent and evicted; each lookup service    *)
(* (pkg/shared/base_lookup_service.go) keeps one MongoDB collection.        *)
(*                                                                          *)
(* A notification is a call that waits to be made.  Calls about different   *)
(* outputs, and to different services, are made in any order.  A call may   *)
(* fail, in the storage or for a BEEF that does not hold its output.  A     *)
(* collection has no unique index: storing a record twice makes two records, *)
(* and a deletion removes one (DeleteOne).                                  *)
(***************************************************************************)
EXTENDS Admittance, FiniteSets

CONSTANTS
    Outputs,       (* transaction outputs                                   *)
    Txs,           (* transactions                                          *)
    TxOf,          (* the transaction of each output                        *)
    Scripts,       (* what the locking scripts of the outputs may be        *)
    OtherTopics,   (* topics of the engine that other code manages          *)
    InOrder,       (* is the engine done with the calls about an output     *)
                   (* before something else happens to it?                  *)
    Redelivery,    (* may a call whose answer was lost be made again?       *)
    MaxCopies      (* bound: records of one output in one collection        *)

Topics == {"tm_ship", "tm_slap"} \cup OtherTopics

ASSUME InputsOK ==
    /\ TxOf \in [Outputs -> Txs]
    /\ \A f \in Scripts : f \in [Outputs -> Token]
    /\ OtherTopics \cap {"tm_ship", "tm_slap", "none"} = {}
    /\ InOrder \in BOOLEAN /\ Redelivery \in BOOLEAN
    /\ MaxCopies \in Nat \ {0}

VARIABLES
    token,     (* the locking script of each output                         *)
    hosted,    (* engine: the unspent outputs each topic holds              *)
    spent,     (* the outputs that were spent                               *)
    notes,     (* engine: the calls of lookup services yet to be made       *)
    copies,    (* the records of each output in each collection             *)
    refused,   (* history: admitted outputs, sent with their transaction, that *)
               (* a lookup service failed to parse                          *)
    failed,    (* history: services and outputs a call ended in an error for *)
    repeated   (* history: admissions a service stored and will be told again *)

vars == <<token, hosted, spent, notes, copies, refused, failed, repeated>>

\* A call of OutputAdmittedByTopic, OutputSpent or OutputEvicted (which names no topic).
NoTopic == "none"

Note == {n \in [kind : {"admitted", "spent", "evicted"}, topic : Topics \cup {NoTopic},
                output : Outputs, service : Services] :
            n.kind = "evicted" <=> n.topic = NoTopic}

TypeOK ==
    /\ token \in [Outputs -> Token]
    /\ hosted \in [Topics -> SUBSET Outputs]
    /\ spent \in SUBSET Outputs
    /\ notes \in SUBSET Note
    /\ copies \in [Services -> [Outputs -> Nat]]
    /\ refused \in SUBSET Outputs
    /\ failed \in SUBSET (Services \X Outputs)
    /\ repeated \in SUBSET (Services \X Outputs)

Init ==
    /\ token \in Scripts
    /\ hosted = [t \in Topics |-> {}]
    /\ spent = {}
    /\ notes = {}
    /\ copies = [s \in Services |-> [o \in Outputs |-> 0]]
    /\ refused = {} /\ failed = {} /\ repeated = {}

-----------------------------------------------------------------------------
(* Admission (IdentifyAdmissibleOutputs).                                   *)

OutputsOf(x) == {o \in Outputs : TxOf[o] = x}

\* found: does the BEEF hold the transaction?  If not, nothing is admitted.
Admissible(s, x, found) ==
    IF found THEN {o \in OutputsOf(x) : ValidOutput(s, token[o])} ELSE {}

-----------------------------------------------------------------------------
(* The engine.  No topic manager of this repository retains a spent coin    *)
(* (CoinsToRetain is always empty).                                         *)

Pending(o) == {n \in notes : n.output = o}

Quiet(O) == InOrder => \A o \in O : Pending(o) = {}

Live(o) == {t \in Topics : o \in hosted[t]}

\* What each topic admits of a transaction.
Admits(x, found, other) ==
    [t \in Topics |->
        CASE t = "tm_ship" -> Admissible("ls_ship", x, found)
          [] t = "tm_slap" -> Admissible("ls_slap", x, found)
          [] OTHER -> other[t]]

\* Transaction x spends the outputs S and offers its own to every topic.
Submit(x, S, found, other) ==
    LET A   == Admits(x, found, other)
        New == OutputsOf(x)
    IN
    /\ \A o \in New : o \notin spent /\ Live(o) = {}
    /\ \A o \in S : Live(o) # {}
    /\ Quiet(New \cup S)
    /\ \A s \in Services, o \in New : copies[s][o] < MaxCopies
    /\ hosted' = [t \in Topics |-> (hosted[t] \ S) \cup A[t]]
    /\ spent' = spent \cup S
    /\ notes' = notes
         \cup {n \in Note : n.kind = "spent" /\ n.output \in S \cap hosted[n.topic]}
         \cup {n \in Note : n.kind = "admitted" /\ n.output \in A[n.topic]}
    /\ UNCHANGED <<token, copies, refused, failed, repeated>>

\* An unconfirmed transaction is dropped: its output leaves every topic and may be
\* submitted again later.
Evict(o) ==
    /\ Live(o) # {}
    /\ Quiet({o})
    /\ hosted' = [t \in Topics |-> hosted[t] \ {o}]
    /\ notes' = notes \cup {n \in Note : n.kind = "evicted" /\ n.output = o}
    /\ UNCHANGED <<token, spent, copies, refused, failed, repeated>>

-----------------------------------------------------------------------------
(* The lookup service.                                                      *)

\* What the BEEF of a call is: one that holds the output, one that cannot be read, or
\* one whose transaction has no output at the index.
Beefs == {"whole", "unreadable", "short"}

\* ParsePushDropOutput: "skip" stands for (nil, nil).
Parse(s, t, k, beef) ==
    IF t # Topic[s] THEN "skip"
    ELSE IF beef # "whole" \/ ~k.decodes \/ k.fields < 4 THEN "error"
    ELSE IF k.identifier # Identifier[s] THEN "skip"
    ELSE "store"

\* The call succeeds, or its answer is lost and it will be made again.
Answered(n) ==
    \/ notes' = notes \ {n} /\ UNCHANGED repeated
    \/ /\ Redelivery
       /\ n.kind = "admitted" => copies[n.service][n.output] < MaxCopies
       /\ repeated' = IF n.kind = "admitted" /\ copies' # copies
                       THEN repeated \cup {<<n.service, n.output>>} ELSE repeated
       /\ notes' = notes

\* Fault: an error of the storage is not returned.
FailsSilently(n) ==
    /\ copies' = copies
    /\ notes' = notes \ {n}
    /\ UNCHANGED <<failed, repeated>>


\* The call returns an error and the engine goes on without it.  (One that it makes
\* again later changes nothing yet.)
Fails(n) ==
    /\ copies' = copies
    /\ notes' = notes \ {n}
    /\ failed' = failed \cup {<<n.service, n.output>>}
    /\ UNCHANGED repeated

\* InsertOne
Stored(s, o) == [copies EXCEPT ![s][o] = @ + 1]

\* Fault: a deletion without a match is counted too.
DeletedUnmatched(s, o) == [copies EXCEPT ![s][o] = @ - 1]


\* DeleteOne: no effect without a matching record.
Deleted(s, o) == [copies EXCEPT ![s][o] = IF @ > 0 THEN @ - 1 ELSE 0]

OutputAdmittedByTopic(n) ==
    /\ n.kind = "admitted"
    /\ \E beef \in Beefs :
         LET v == Parse(n.service, n.topic, token[n.output], beef) IN
         \/ /\ v # "error"
            /\ copies' = IF v = "store" THEN Stored(n.service, n.output) ELSE copies
            /\ Answered(n)
            /\ UNCHANGED <<refused, failed>>
         \/ /\ v # "skip"
            /\ Fails(n)
            /\ refused' = IF v = "error" /\ beef = "whole" THEN refused \cup {n.output} ELSE refused
    /\ UNCHANGED <<token, hosted, spent>>

\* DeleteOne is tried.
Removes(n) ==
    \/ copies' = Deleted(n.service, n.output) /\ Answered(n) /\ UNCHANGED failed
    \/ Fails(n)

\* Fault: the topic test is inverted.
SpentElsewhere(n) ==
    /\ n.kind = "spent"
    /\ \/ n.topic # Topic[n.service] /\ Removes(n)
       \/ n.topic = Topic[n.service] /\ copies' = copies /\ Answered(n) /\ UNCHANGED failed
    /\ UNCHANGED <<token, hosted, spent, refused>>


OutputSpent(n) ==
    /\ n.kind = "spent"
    /\ \/ n.topic = Topic[n.service] /\ Removes(n)
       \/ n.topic # Topic[n.service] /\ copies' = copies /\ Answered(n) /\ UNCHANGED failed
    /\ UNCHANGED <<token, hosted, spent, refused>>

\* No topic is given and none is asked for.
OutputEvicted(n) ==
    /\ n.kind = "evicted"
    /\ Removes(n)
    /\ UNCHANGED <<token, hosted, spent, refused>>

Handle(n) == OutputAdmittedByTopic(n) \/ OutputSpent(n) \/ OutputEvicted(n)

-----------------------------------------------------------------------------
Next ==
    \/ \E x \in Txs, S \in SUBSET Outputs, found \in BOOLEAN :
         /\ S \cap OutputsOf(x) = {}
         /\ \E other \in [OtherTopics -> SUBSET OutputsOf(x)] : Submit(x, S, found, other)
    \/ \E o \in Outputs : Evict(o)
    \/ \E n \in notes : Handle(n)

Spec == Init /\ [][Next]_vars

-----------------------------------------------------------------------------
(* Properties                                                               *)

\* Once the engine is done with the calls about an output, a service has exactly
\* one record of it if its topic holds the output, and none otherwise: whatever
\* was admitted, spent, evicted and submitted again before, and however often the
\* deletions were repeated.  Only a call that said it failed and an admission that is
\* told twice can spoil it, and only for their own output and service.
SettledIndexIsExact ==
    \A s \in Services, o \in Outputs :
        Pending(o) = {} /\ <<s, o>> \notin repeated \cup failed =>
            copies[s][o] = IF o \in hosted[Topic[s]] THEN 1 ELSE 0

\* What a topic manager admits (five fields, validateOutput) its lookup service can
\* parse (at least four fields, ParsePushDropOutput): no admitted output that comes
\* with its transaction is answered with an error and so left out of the index.
AdmittedIsParsed == refused = {}

\* What BRC-101 asks of a URI, without the order of the checks: for the web, a host
\* that is not this one and for https no path; for radio, a place and two amounts.
OffBy(c, bound) == c.kind = "number" /\ c.value \notin -bound..bound

Advertised(u) ==
    IF u.scheme = "js8c+bsvauth+smf"
    THEN /\ {u.lat.kind, u.long.kind} \cap {"absent", "text"} = {}
         /\ ~OffBy(u.lat, 90) /\ ~OffBy(u.long, 180)
         /\ \A q \in {u.freq, u.radius} : ~q.minus /\ q.first >= 1
    ELSE /\ u.scheme \notin {"blank", "other"}
         /\ u.host # "localhost"
         /\ u.path = "other" => u.scheme = "wss"

\* An index only ever holds records of tokens of its own protocol, with an
\* advertisable URI, a valid name and a linked signature.  The lookup service
\* checks none of the last three: it relies on the topic it takes notes from.
Genuine(s, k) ==
    /\ k.identifier = Identifier[s] /\ k.name = NamePrefix[s]
    /\ k.uri.parses /\ Advertised(k.uri)
    /\ k.key /\ k.signature = "right" /\ k.derived

NoForeignRecords ==
    \A s \in Services, o \in Outputs : copies[s][o] > 0 => Genuine(s, token[o])

\* Redelivered calls never hide a live advertisement, and no advertisement is lost
\* without an error that says so.
LiveIsFindable ==
    \A s \in Services, o \in Outputs :
        o \in hosted[Topic[s]] /\ Pending(o) = {} /\ <<s, o>> \notin failed => copies[s][o] > 0

\* Whoever advertises by radio says where: a latitude from -90 to 90 and a longitude
\* from -180 to 180.
RadioIsLocated ==
    \A s \in Services, o \in Outputs :
        copies[s][o] > 0 /\ token[o].uri.scheme = "js8c+bsvauth+smf" =>
            /\ token[o].uri.lat.kind = "number" /\ token[o].uri.lat.value \in -90..90
            /\ token[o].uri.long.kind = "number" /\ token[o].uri.long.value \in -180..180

\* A spent output has no record once its notifications are handled without an error.
SpentRecordIsRemoved ==
    \A s \in Services, o \in Outputs :
        o \in spent /\ Pending(o) = {} /\ <<s, o>> \notin failed => copies[s][o] = 0
=============================================================================
