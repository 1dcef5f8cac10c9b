----------------------- MODULE DiscoveryIndex_proofs -----------------------
(***************************************************************************)
(* Proofs about DiscoveryIndex: for any outputs, tokens and other topics,    *)
(* and even if calls are reordered, repeated and fail, an index holds only   *)
(* genuine tokens of its protocol and never refuses what its topic admitted; *)
(* if the engine is done with its calls about an output before it goes on    *)
(* with it, every index is exact, up to the calls that failed and the        *)
(* admissions it was told twice, and what is live is findable.              *)
(***************************************************************************)
EXTENDS DiscoveryIndex, TLAPS

\* A service reads a note only if it is about its own topic; an eviction names none.
Concerns(s, n) == n.service = s /\ (n.kind = "evicted" \/ n.topic = Topic[s])

\* What a service is going to store, or has stored, was admitted by its topic.
AdmittedIsValid ==
    /\ \A n \in notes, s \in Services :
         n.kind = "admitted" /\ n.topic = Topic[s] => ValidOutput(s, token[n.output])
    /\ \A s \in Services, o \in Outputs : copies[s][o] > 0 => ValidOutput(s, token[o])
    /\ refused = {}

GenuineInv == TypeOK /\ AdmittedIsValid

LEMMA TopicFacts ==
    /\ \A s \in Services : Topic[s] \in Topics /\ Topic[s] \notin OtherTopics
    /\ NoTopic \notin Topics
    /\ Topic["ls_ship"] = "tm_ship" /\ Topic["ls_slap"] = "tm_slap"
BY InputsOK DEF Services, Topic, Topics, NoTopic

\* The topic managers admit valid outputs of the submitted transaction only.
LEMMA AdmitsFacts ==
    ASSUME NEW x \in Txs, NEW found \in BOOLEAN,
           NEW other \in [OtherTopics -> SUBSET OutputsOf(x)]
    PROVE  /\ Admits(x, found, other) \in [Topics -> SUBSET OutputsOf(x)]
           /\ \A s \in Services : \A o \in Admits(x, found, other)[Topic[s]] :
                 ValidOutput(s, token[o])
<1>1. \A s : Admissible(s, x, found) \subseteq OutputsOf(x)
  BY DEF Admissible
<1>2. \A s : \A o \in Admissible(s, x, found) : ValidOutput(s, token[o])
  BY DEF Admissible
<1> QED
  BY <1>1, <1>2, TopicFacts DEF Admits, Topics, Services, Topic

LEMMA CopiesType ==
    ASSUME TypeOK, NEW s \in Services, NEW o \in Outputs
    PROVE  /\ copies[s][o] \in Nat
           /\ Stored(s, o) \in [Services -> [Outputs -> Nat]]
           /\ Deleted(s, o) \in [Services -> [Outputs -> Nat]]
           /\ Stored(s, o)[s][o] = copies[s][o] + 1
           /\ Deleted(s, o)[s][o] = IF copies[s][o] > 0 THEN copies[s][o] - 1 ELSE 0
           /\ \A u \in Services, p \in Outputs : <<u, p>> # <<s, o>> =>
                 Stored(s, o)[u][p] = copies[u][p] /\ Deleted(s, o)[u][p] = copies[u][p]
BY DEF TypeOK, Stored, Deleted

LEMMA SubmitType ==
    ASSUME TypeOK, NEW x \in Txs, NEW S \in SUBSET Outputs, NEW found \in BOOLEAN,
           NEW other \in [OtherTopics -> SUBSET OutputsOf(x)], Submit(x, S, found, other)
    PROVE  TypeOK'
<1> DEFINE A == Admits(x, found, other)
<1>1. A \in [Topics -> SUBSET OutputsOf(x)]
  BY AdmitsFacts
<1>2. \A t \in Topics : A[t] \subseteq Outputs
  BY <1>1 DEF OutputsOf
<1>3. hosted' = [t \in Topics |-> (hosted[t] \ S) \cup A[t]]
  BY DEF Submit
<1> HIDE DEF A
<1>4. hosted' \in [Topics -> SUBSET Outputs]
  BY <1>2, <1>3 DEF TypeOK
<1>5. notes' \in SUBSET Note
  BY DEF Submit, TypeOK
<1> QED
  BY <1>4, <1>5 DEF Submit, TypeOK

\* What any call of a lookup service can change, whether it succeeds or fails.
LEMMA HandleEffect ==
    ASSUME NEW n \in notes, Handle(n)
    PROVE  /\ copies' \in {copies, Stored(n.service, n.output), Deleted(n.service, n.output)}
           /\ notes' \in {notes, notes \ {n}}
           /\ refused' \in {refused, refused \cup {n.output}}
           /\ repeated' \in {repeated, repeated \cup {<<n.service, n.output>>}}
           /\ failed' \in {failed, failed \cup {<<n.service, n.output>>}}
           /\ UNCHANGED <<token, hosted, spent>>
           /\ notes' = notes /\ n.kind = "admitted" /\ copies' # copies =>
                  repeated' = repeated \cup {<<n.service, n.output>>}
<1>1. CASE OutputAdmittedByTopic(n)
  BY <1>1 DEF OutputAdmittedByTopic, Answered, Fails
<1>2. CASE OutputSpent(n) \/ OutputEvicted(n)
  BY <1>2 DEF OutputSpent, OutputEvicted, Removes, Answered, Fails
<1> QED BY <1>1, <1>2 DEF Handle

\* What a call does when it does not fail.
LEMMA HandleSucceeds ==
    ASSUME NEW n \in notes, Handle(n), <<n.service, n.output>> \notin failed'
    PROVE  /\ n.kind = "admitted" =>
                \E beef \in Beefs :
                  LET v == Parse(n.service, n.topic, token[n.output], beef) IN
                  /\ v # "error"
                  /\ copies' = IF v = "store" THEN Stored(n.service, n.output) ELSE copies
           /\ n.kind = "spent" =>
                copies' = IF n.topic = Topic[n.service] THEN Deleted(n.service, n.output) ELSE copies
           /\ n.kind = "evicted" => copies' = Deleted(n.service, n.output)
<1>1. ~Fails(n)
  BY DEF Fails
<1>2. CASE OutputAdmittedByTopic(n)
  BY <1>1, <1>2 DEF OutputAdmittedByTopic
<1>3. CASE OutputSpent(n) \/ OutputEvicted(n)
  BY <1>1, <1>3 DEF OutputSpent, OutputEvicted, Removes
<1> QED BY <1>2, <1>3 DEF Handle

\* A call that does not concern a service leaves its records alone.
LEMMA HandleElsewhere ==
    ASSUME NEW n \in notes, Handle(n), n.kind # "evicted", n.topic # Topic[n.service]
    PROVE  copies' = copies
BY DEF Handle, OutputAdmittedByTopic, OutputSpent, OutputEvicted, Parse, Fails

LEMMA HandleType ==
    ASSUME TypeOK, NEW n \in notes, Handle(n)
    PROVE  TypeOK'
<1>1. n.service \in Services /\ n.output \in Outputs
  BY DEF TypeOK, Note
<1>2. copies' \in {copies, Stored(n.service, n.output), Deleted(n.service, n.output)}
  BY HandleEffect
<1>3. copies' \in [Services -> [Outputs -> Nat]]
  BY <1>1, <1>2, CopiesType DEF TypeOK
<1>4. notes' \subseteq notes /\ refused' \in SUBSET Outputs
  BY <1>1, HandleEffect DEF TypeOK
<1>5. /\ repeated' \in {repeated, repeated \cup {<<n.service, n.output>>}}
      /\ failed' \in {failed, failed \cup {<<n.service, n.output>>}}
  BY HandleEffect
<1>6. repeated' \in SUBSET (Services \X Outputs) /\ failed' \in SUBSET (Services \X Outputs)
  BY <1>1, <1>5 DEF TypeOK
<1> QED
  BY <1>3, <1>4, <1>6, HandleEffect DEF TypeOK

LEMMA GenuineInductive ==
    ASSUME GenuineInv, [Next]_vars
    PROVE  GenuineInv'
<1> USE DEF GenuineInv
<1>1. CASE UNCHANGED vars
  BY <1>1 DEF vars, TypeOK, AdmittedIsValid
<1>2. ASSUME NEW x \in Txs, NEW S \in SUBSET Outputs, NEW found \in BOOLEAN,
             NEW other \in [OtherTopics -> SUBSET OutputsOf(x)], Submit(x, S, found, other)
      PROVE  GenuineInv'
  <2> DEFINE A == Admits(x, found, other)
  <2>1. TypeOK'
    BY <1>2, SubmitType
  <2>2. \A s \in Services : \A o \in A[Topic[s]] : ValidOutput(s, token[o])
    BY AdmitsFacts
  <2>3. \A n \in notes' : n \in notes \/ n.kind = "spent" \/ n.output \in A[n.topic]
    BY <1>2 DEF Submit
  <2>4. UNCHANGED <<token, copies, refused>>
    BY <1>2 DEF Submit
  <2> HIDE DEF A
  <2>5. AdmittedIsValid'
    BY <2>2, <2>3, <2>4 DEF AdmittedIsValid
  <2> QED
    BY <2>1, <2>5
<1>3. ASSUME NEW o \in Outputs, Evict(o)
      PROVE  GenuineInv'
  <2>1. \A n \in notes' : n \in notes \/ n.kind = "evicted"
    BY <1>3 DEF Evict
  <2>2. TypeOK' /\ UNCHANGED <<token, copies, refused>>
    BY <1>3 DEF Evict, TypeOK
  <2> QED
    BY <2>1, <2>2 DEF AdmittedIsValid
<1>4. ASSUME NEW n \in notes, Handle(n)
      PROVE  GenuineInv'
  <2>1. TypeOK'
    BY <1>4, HandleType
  <2>2. n.service \in Services /\ n.output \in Outputs
    BY DEF TypeOK, Note
  <2>3. notes' \subseteq notes /\ token' = token
    BY <1>4, HandleEffect
  <2>4. CASE OutputAdmittedByTopic(n)
    <3>1. PICK beef \in Beefs :
            LET v == Parse(n.service, n.topic, token[n.output], beef) IN
            /\ copies' \in {copies, Stored(n.service, n.output)}
            /\ copies' # copies => v = "store"
            /\ refused' # refused => v = "error" /\ beef = "whole"
      BY <2>4 DEF OutputAdmittedByTopic, Fails
    <3> DEFINE v == Parse(n.service, n.topic, token[n.output], beef)
    <3>2. n.topic = Topic[n.service] => ValidOutput(n.service, token[n.output])
      BY <2>2, <2>4 DEF OutputAdmittedByTopic, AdmittedIsValid
    <3>3. v = "store" => ValidOutput(n.service, token[n.output])
      BY <3>2 DEF Parse
    <3>4. beef = "whole" => v # "error"
      BY <3>2 DEF Parse, ValidOutput
    <3> HIDE DEF v
    <3>5. refused' = {}
      BY <3>1, <3>4 DEF AdmittedIsValid, v
    <3>6. ASSUME NEW s \in Services, NEW o \in Outputs, copies'[s][o] > 0
          PROVE  copies[s][o] > 0 \/ ValidOutput(s, token[o])
      <4>1. CASE copies' = copies
        BY <3>6, <4>1
      <4>2. CASE copies' # copies /\ s = n.service /\ o = n.output
        BY <3>1, <3>3, <4>2 DEF v
      <4>3. CASE copies' # copies /\ <<s, o>> # <<n.service, n.output>>
        <5>1. copies' = Stored(n.service, n.output)
          BY <3>1, <4>3
        <5> QED BY <2>2, <3>6, <4>3, <5>1, CopiesType
      <4> QED
        BY <4>1, <4>2, <4>3
    <3> QED
      BY <2>1, <2>3, <3>5, <3>6 DEF AdmittedIsValid
  <2>5. CASE OutputSpent(n) \/ OutputEvicted(n)
    <3>1. refused' = refused /\ copies' \in {copies, Deleted(n.service, n.output)}
      BY <2>5 DEF OutputSpent, OutputEvicted, Removes, Fails
    <3>2. ASSUME NEW s \in Services, NEW o \in Outputs, copies'[s][o] > 0
          PROVE  copies[s][o] > 0
      <4>1. CASE <<s, o>> = <<n.service, n.output>>
        BY <2>2, <3>1, <3>2, <4>1, CopiesType
      <4>2. CASE <<s, o>> # <<n.service, n.output>>
        BY <2>2, <3>1, <3>2, <4>2, CopiesType
      <4> QED
        BY <4>1, <4>2
    <3> QED
      BY <2>1, <2>3, <3>1, <3>2 DEF AdmittedIsValid
  <2> QED
    BY <1>4, <2>4, <2>5 DEF Handle
<1> QED
  BY <1>1, <1>2, <1>3, <1>4 DEF Next

LEMMA GenuineHolds == Spec => []GenuineInv
<1>1. Init => GenuineInv
  BY InputsOK DEF Init, GenuineInv, TypeOK, AdmittedIsValid
<1> QED
  BY <1>1, GenuineInductive, PTL DEF Spec

THEOREM TypeCorrect == Spec => []TypeOK
BY GenuineHolds, PTL DEF GenuineInv

\* Every output a topic manager admits is one its lookup service can parse.
THEOREM AdmittedAlwaysParsed == Spec => []AdmittedIsParsed
<1>1. GenuineInv => AdmittedIsParsed
  BY DEF GenuineInv, AdmittedIsValid, AdmittedIsParsed
<1> QED
  BY <1>1, GenuineHolds, PTL

\* The checks of a URI, in their order, ask what is to be asked of it.
LEMMA AdvertisedUris ==
    ASSUME NEW u \in URI, IsAdvertisableURI(u)
    PROVE  u.parses /\ Advertised(u)
<1>1. CASE u.scheme = "js8c+bsvauth+smf"
  <2>1. ValidateJS8CallURI(u)
    BY <1>1 DEF IsAdvertisableURI, HTTPSSchemes
  <2>2. \A c \in {u.lat, u.long} : c \in Coordinate
    BY DEF URI
  <2>3. \A q \in {u.freq, u.radius} : q \in Quantity
    BY DEF URI
  <2>4. {u.lat.kind, u.long.kind} \cap {"absent", "text"} = {}
    BY <2>1 DEF ValidateJS8CallURI, ValidCoordinate
  <2>5. ~OffBy(u.lat, 90)
    BY <2>1, <2>2 DEF ValidateJS8CallURI, ValidCoordinate, OffBy, Coordinate
  <2>6. ~OffBy(u.long, 180)
    BY <2>1, <2>2 DEF ValidateJS8CallURI, ValidCoordinate, OffBy, Coordinate
  <2>7. \A q \in {u.freq, u.radius} : ~q.minus /\ q.first >= 1
    BY <2>1, <2>3 DEF ValidateJS8CallURI, ValidQuantity, Quantity
  <2> QED
    BY <1>1, <2>1, <2>4, <2>5, <2>6, <2>7 DEF Advertised, ValidateJS8CallURI
<1>2. CASE u.scheme # "js8c+bsvauth+smf"
  BY <1>2 DEF IsAdvertisableURI, HTTPSSchemes, ValidateCustomHTTPSURI, ValidateWSSURI, Advertised
<1> QED
  BY <1>1, <1>2

\* The index of a protocol holds only tokens of that protocol with an advertisable
\* URI, a valid name and a linked signature, in whatever order and however often the
\* notifications arrive.
THEOREM OnlyGenuineRecords == Spec => []NoForeignRecords
<1>1. GenuineInv => NoForeignRecords
  <2> SUFFICES ASSUME GenuineInv, NEW s \in Services, NEW o \in Outputs, copies[s][o] > 0
               PROVE  Genuine(s, token[o])
    BY DEF NoForeignRecords
  <2>1. ValidOutput(s, token[o]) /\ token[o] \in Token
    BY DEF GenuineInv, AdmittedIsValid, TypeOK
  <2>2. token[o].uri.parses /\ Advertised(token[o].uri)
    BY <2>1, AdvertisedUris DEF ValidOutput, Token
  <2> QED
    BY <2>1, <2>2 DEF Genuine, ValidOutput, IsTokenSignatureCorrectlyLinked
<1> QED
  BY <1>1, GenuineHolds, PTL

-----------------------------------------------------------------------------
(* An engine that keeps the order: exact indexes.                           *)

\* The calls still to come that matter to the record of o in service s.
PendingFor(s, o) == {n \in notes : n.output = o /\ Concerns(s, n)}

\* At most one call about o is still to come that matters to s, and it is the one
\* that makes the index agree with the topic again.
Exact(s, o) ==
    /\ copies[s][o] \in {0, 1}
    /\ PendingFor(s, o) = {} => copies[s][o] = IF o \in hosted[Topic[s]] THEN 1 ELSE 0
    /\ \A n \in PendingFor(s, o) :
         /\ n.kind = "admitted" => copies[s][o] = 0 /\ o \in hosted[Topic[s]]
         /\ n.kind = "spent" => o \notin hosted[Topic[s]]
         /\ n.kind = "evicted" => o \notin hosted[Topic[s]]
    /\ \A n, m \in PendingFor(s, o) : n = m

ExactInv ==
    GenuineInv /\ \A s \in Services, o \in Outputs :
                      <<s, o>> \notin repeated \cup failed => Exact(s, o)

\* Nothing that matters to s and o has changed.
LEMMA ExactFrame ==
    ASSUME NEW s \in Services, NEW o \in Outputs, Exact(s, o),
           PendingFor(s, o)' = PendingFor(s, o),
           copies'[s][o] = copies[s][o],
           o \in hosted'[Topic[s]] <=> o \in hosted[Topic[s]]
    PROVE  Exact(s, o)'
BY DEF Exact

LEMMA NoteEqual ==
    ASSUME NEW n \in Note, NEW m \in Note, n.kind = m.kind, n.topic = m.topic,
           n.output = m.output, n.service = m.service
    PROVE  n = m
BY DEF Note

\* A call that is made leaves the other calls about its output, none of which matters to
\* its service.
LEMMA HandledNote ==
    ASSUME TypeOK, NEW n \in notes, notes' = notes \ {n},
           NEW s \in Services, NEW o \in Outputs
    PROVE  PendingFor(s, o)' = PendingFor(s, o) \ {n}
BY DEF PendingFor, Concerns

LEMMA HandleExact ==
    ASSUME ExactInv, NEW n \in notes, Handle(n),
           NEW s \in Services, NEW o \in Outputs, <<s, o>> \notin (repeated \cup failed)'
    PROVE  Exact(s, o)'
<1>1. TypeOK /\ Exact(s, o)
  <2>1. repeated \subseteq repeated' /\ failed \subseteq failed'
    BY HandleEffect
  <2> QED
    BY <2>1 DEF ExactInv, GenuineInv
<1>2. n \in Note /\ n.service \in Services /\ n.output \in Outputs
  BY <1>1 DEF TypeOK, Note
<1>3. hosted' = hosted
  BY HandleEffect
<1>4. /\ notes' \in {notes, notes \ {n}}
      /\ notes' = notes /\ n.kind = "admitted" /\ copies' # copies =>
             repeated' = repeated \cup {<<n.service, n.output>>}
  BY HandleEffect
<1>5. PendingFor(s, o)' \in {PendingFor(s, o), PendingFor(s, o) \ {n}}
  <2>1. CASE notes' = notes
    BY <2>1 DEF PendingFor, Concerns
  <2>2. CASE notes' = notes \ {n}
    BY <1>1, <2>2, HandledNote
  <2> QED
    BY <1>4, <2>1, <2>2
<1>6. CASE n \notin PendingFor(s, o)
  <2>1. copies'[s][o] = copies[s][o]
    <3>1. CASE <<s, o>> # <<n.service, n.output>>
      <4>1. copies' \in {copies, Stored(n.service, n.output), Deleted(n.service, n.output)}
        BY HandleEffect
      <4>2. /\ Stored(n.service, n.output)[s][o] = copies[s][o]
            /\ Deleted(n.service, n.output)[s][o] = copies[s][o]
        BY <1>1, <1>2, <3>1, CopiesType
      <4> QED
        BY <4>1, <4>2
    <3>2. CASE s = n.service /\ o = n.output
      <4>1. n.kind # "evicted" /\ n.topic # Topic[s]
        BY <1>6, <3>2 DEF PendingFor, Concerns
      <4> QED
        BY <3>2, <4>1, HandleElsewhere
    <3> QED
      BY <3>1, <3>2
  <2>2. PendingFor(s, o)' = PendingFor(s, o)
    BY <1>5, <1>6
  <2> QED
    BY <1>1, <1>3, <2>1, <2>2, ExactFrame
<1>7. CASE n \in PendingFor(s, o)
  <2>1. s = n.service /\ o = n.output /\ (n.kind = "evicted" \/ n.topic = Topic[s])
    BY <1>7 DEF PendingFor, Concerns
  <2>2. copies[s][o] \in {0, 1} /\ \A m \in PendingFor(s, o) : m = n
    BY <1>1, <1>7 DEF Exact
  <2>3. CASE OutputAdmittedByTopic(n)
    <3>1. n.kind = "admitted" /\ n.topic = Topic[s]
      BY <2>1, <2>3 DEF OutputAdmittedByTopic
    <3>2. copies[s][o] = 0 /\ o \in hosted[Topic[s]]
      BY <1>1, <1>7, <3>1 DEF Exact
    <3>3. ValidOutput(s, token[o])
      BY <2>1, <3>1 DEF ExactInv, GenuineInv, AdmittedIsValid
    <3>4. copies' = Stored(s, o)
      <4>1. PICK beef \in Beefs :
              LET v == Parse(s, n.topic, token[o], beef) IN
              /\ v # "error"
              /\ copies' = IF v = "store" THEN Stored(s, o) ELSE copies
        BY <2>1, <3>1, HandleSucceeds
      <4>2. Parse(s, n.topic, token[o], beef) # "skip"
        BY <3>1, <3>3 DEF Parse, ValidOutput
      <4> QED BY <4>1, <4>2 DEF Parse
    <3>5. copies'[s][o] = 1
      BY <1>1, <3>2, <3>4, CopiesType
    <3>6. notes' = notes \ {n}
      BY <1>4, <2>1, <3>1, <3>2, <3>5
    <3>7. PendingFor(s, o)' = {}
      BY <1>1, <2>2, <3>6, HandledNote
    <3> QED
      BY <1>3, <3>2, <3>5, <3>7 DEF Exact
  <2>4. CASE OutputSpent(n) \/ OutputEvicted(n)
    <3>1. n.kind \in {"spent", "evicted"}
      BY <2>4 DEF OutputSpent, OutputEvicted
    <3>2. o \notin hosted[Topic[s]]
      BY <1>1, <1>7, <3>1 DEF Exact
    <3>3. copies' = Deleted(s, o)
      BY <2>1, <3>1, HandleSucceeds
    <3>4. copies'[s][o] = 0
      BY <1>1, <2>2, <3>3, CopiesType
    <3>5. \A m \in PendingFor(s, o)' : m = n
      BY <1>5, <2>2
    <3> QED
      BY <1>3, <3>1, <3>2, <3>4, <3>5 DEF Exact
  <2> QED
    BY <2>3, <2>4 DEF Handle
<1> QED
  BY <1>6, <1>7

LEMMA EvictExact ==
    ASSUME ExactInv, InOrder, NEW e \in Outputs, Evict(e),
           NEW s \in Services, NEW o \in Outputs, <<s, o>> \notin repeated \cup failed
    PROVE  Exact(s, o)'
<1>1. TypeOK /\ Exact(s, o) /\ Topic[s] \in Topics
  BY TopicFacts DEF ExactInv, GenuineInv
<1>2. /\ hosted' = [t \in Topics |-> hosted[t] \ {e}]
      /\ notes' = notes \cup {n \in Note : n.kind = "evicted" /\ n.output = e}
      /\ copies' = copies
  BY DEF Evict
<1>3. CASE o # e
  <2>1. PendingFor(s, o)' = PendingFor(s, o)
    BY <1>2, <1>3 DEF PendingFor, Concerns
  <2>2. o \in hosted'[Topic[s]] <=> o \in hosted[Topic[s]]
    BY <1>1, <1>2, <1>3
  <2> QED
    BY <1>1, <1>2, <2>1, <2>2, ExactFrame
<1>4. CASE o = e
  <2>1. PendingFor(s, o) = {}
    BY <1>4 DEF Evict, Quiet, Pending, PendingFor
  <2>2. \A n \in PendingFor(s, o)' :
          n \in Note /\ n.kind = "evicted" /\ n.output = o /\ n.service = s /\ n.topic = NoTopic
    BY <1>2, <1>4, <2>1 DEF PendingFor, Concerns, Note
  <2>3. \A n, m \in PendingFor(s, o)' : n = m
    BY <2>2, NoteEqual
  <2>4. PendingFor(s, o)' # {}
    <3> DEFINE n == [kind |-> "evicted", topic |-> NoTopic, output |-> o, service |-> s]
    <3>1. n \in Note
      BY DEF Note
    <3>2. n \in notes' /\ n.output = o /\ Concerns(s, n)
      BY <1>2, <1>4, <3>1 DEF Concerns
    <3> QED
      BY <3>2 DEF PendingFor
  <2>5. o \notin hosted'[Topic[s]]
    BY <1>1, <1>2, <1>4
  <2> QED
    BY <1>1, <1>2, <2>2, <2>3, <2>4, <2>5 DEF Exact
<1> QED
  BY <1>3, <1>4

LEMMA SubmitExact ==
    ASSUME ExactInv, InOrder, NEW x \in Txs, NEW S \in SUBSET Outputs, NEW found \in BOOLEAN,
           NEW other \in [OtherTopics -> SUBSET OutputsOf(x)],
           S \cap OutputsOf(x) = {}, Submit(x, S, found, other),
           NEW s \in Services, NEW o \in Outputs, <<s, o>> \notin repeated \cup failed
    PROVE  Exact(s, o)'
<1> DEFINE A == Admits(x, found, other)
           t == Topic[s]
<1>1. TypeOK /\ Exact(s, o) /\ t \in Topics /\ t # NoTopic
  BY TopicFacts DEF ExactInv, GenuineInv
<1>2. /\ hosted' = [u \in Topics |-> (hosted[u] \ S) \cup A[u]]
      /\ notes' = notes
           \cup {n \in Note : n.kind = "spent" /\ n.output \in S \cap hosted[n.topic]}
           \cup {n \in Note : n.kind = "admitted" /\ n.output \in A[n.topic]}
      /\ copies' = copies
  BY DEF Submit
<1>3. \A u \in Topics : A[u] \subseteq OutputsOf(x)
  BY AdmitsFacts
<1>4. \A p \in OutputsOf(x) \cup S : Pending(p) = {}
  BY DEF Submit, Quiet
<1>5. \A p \in OutputsOf(x) : \A u \in Topics : p \notin hosted[u]
  BY DEF Submit, Live
<1> HIDE DEF A, t
<1>6. \A n \in notes' : n \in Note
  BY <1>1, <1>2 DEF TypeOK
<1>7. ASSUME NEW n \in notes', n \notin notes
      PROVE  /\ n.topic \in Topics
             /\ \/ n.kind = "spent" /\ n.output \in S /\ n.output \in hosted[n.topic]
                \/ n.kind = "admitted" /\ n.output \in A[n.topic]
  <2>1. n \in Note /\ n.kind # "evicted"
    BY <1>2, <1>7
  <2>2. n.topic \in Topics
    BY <2>1 DEF Note
  <2> QED
    BY <1>2, <1>7, <2>2
<1>8. CASE o \notin OutputsOf(x) \cup S
  <2>1. PendingFor(s, o)' = PendingFor(s, o)
    <3>1. \A n \in notes' : n.output = o => n \in notes
      BY <1>3, <1>7, <1>8
    <3>2. notes \subseteq notes'
      BY <1>2
    <3> QED
      BY <3>1, <3>2 DEF PendingFor, Concerns
  <2>2. o \in hosted'[t] <=> o \in hosted[t]
    BY <1>1, <1>2, <1>3, <1>8
  <2> QED
    BY <1>1, <1>2, <2>1, <2>2, ExactFrame DEF t
<1>9. CASE o \in OutputsOf(x) \cup S
  <2>1. PendingFor(s, o) = {} /\ \A n \in notes : n.output # o
    BY <1>4, <1>9 DEF Pending, PendingFor
  <2>2. copies[s][o] = IF o \in hosted[t] THEN 1 ELSE 0
    BY <1>1, <2>1 DEF Exact, t
  <2>3. ASSUME NEW n \in PendingFor(s, o)'
        PROVE  /\ n \in notes' /\ n \notin notes /\ n \in Note
               /\ n.output = o /\ n.service = s /\ n.topic = t
    <3>1. n \in notes' /\ n.output = o /\ n.service = s /\ (n.kind = "evicted" \/ n.topic = t)
      BY DEF PendingFor, Concerns, t
    <3>2. n \notin notes
      BY <2>1, <3>1
    <3> QED
      BY <1>6, <1>7, <3>1, <3>2
  <2>4. CASE o \in S
    <3>1. o \notin OutputsOf(x) /\ o \notin A[t]
      BY <1>1, <1>3, <2>4
    <3>2. o \notin hosted'[t]
      BY <1>1, <1>2, <2>4, <3>1
    <3>3. \A n \in PendingFor(s, o)' : n.kind = "spent" /\ o \in hosted[t]
      BY <1>7, <2>3, <3>1
    <3>4. \A n, m \in PendingFor(s, o)' : n = m
      BY <2>3, <3>3, NoteEqual
    <3>5. o \in hosted[t] => PendingFor(s, o)' # {}
      <4> DEFINE n == [kind |-> "spent", topic |-> t, output |-> o, service |-> s]
      <4>1. n \in Note
        BY <1>1 DEF Note
      <4>2. o \in hosted[t] => n \in notes' /\ n.output = o /\ Concerns(s, n)
        BY <1>2, <2>4, <4>1 DEF Concerns, t
      <4> HIDE DEF n
      <4> QED
        BY <4>2 DEF PendingFor, Concerns
    <3> QED
      BY <1>2, <2>2, <3>2, <3>3, <3>4, <3>5 DEF Exact, t
  <2>5. CASE o \in OutputsOf(x)
    <3>1. o \notin S /\ o \notin hosted[t]
      BY <1>1, <1>5, <2>5
    <3>2. o \in hosted'[t] <=> o \in A[t]
      BY <1>1, <1>2, <3>1
    <3>3. \A n \in PendingFor(s, o)' : n.kind = "admitted" /\ o \in A[t]
      BY <1>7, <2>3, <3>1
    <3>4. \A n, m \in PendingFor(s, o)' : n = m
      BY <2>3, <3>3, NoteEqual
    <3>5. o \in A[t] => PendingFor(s, o)' # {}
      <4> DEFINE n == [kind |-> "admitted", topic |-> t, output |-> o, service |-> s]
      <4>1. n \in Note
        BY <1>1 DEF Note
      <4>2. o \in A[t] => n \in notes' /\ n.output = o /\ Concerns(s, n)
        BY <1>2, <2>5, <4>1 DEF Concerns, t
      <4> HIDE DEF n
      <4> QED
        BY <4>2 DEF PendingFor, Concerns
    <3> QED
      BY <1>2, <2>2, <3>1, <3>2, <3>3, <3>4, <3>5 DEF Exact, t
  <2> QED
    BY <1>9, <2>4, <2>5
<1> QED
  BY <1>8, <1>9

\* If the engine makes all its calls about an output before the next thing happens to
\* it, then whatever is submitted, spent, evicted and submitted again, and whatever is
\* repeated, a settled index has exactly one record of what its topic holds and none of
\* anything else, unless a call about that very output returned an error or its
\* admission was told twice.
THEOREM IndexIsExact ==
    ASSUME InOrder
    PROVE  Spec => []SettledIndexIsExact
<1>1. Init => ExactInv
  <2> SUFFICES ASSUME Init PROVE ExactInv
    OBVIOUS
  <2>1. GenuineInv
    BY InputsOK DEF Init, GenuineInv, TypeOK, AdmittedIsValid
  <2>2. \A s \in Services, o \in Outputs : Exact(s, o)
    BY TopicFacts DEF Init, Exact, PendingFor
  <2> QED
    BY <2>1, <2>2 DEF ExactInv
<1>2. ExactInv /\ [Next]_vars => ExactInv'
  <2> SUFFICES ASSUME ExactInv, [Next]_vars PROVE ExactInv'
    OBVIOUS
  <2>1. GenuineInv'
    BY GenuineInductive DEF ExactInv
  <2>2. ASSUME NEW s \in Services, NEW o \in Outputs, <<s, o>> \notin (repeated \cup failed)'
        PROVE  Exact(s, o)'
    <3>1. CASE UNCHANGED vars
      BY <2>2, <3>1 DEF ExactInv, vars, Exact, PendingFor, Concerns
    <3>2. ASSUME NEW x \in Txs, NEW S \in SUBSET Outputs, NEW found \in BOOLEAN,
                 NEW other \in [OtherTopics -> SUBSET OutputsOf(x)],
                 S \cap OutputsOf(x) = {}, Submit(x, S, found, other)
          PROVE  Exact(s, o)'
      <4>1. <<s, o>> \notin repeated \cup failed
        BY <2>2, <3>2 DEF Submit
      <4> QED
        BY <3>2, <4>1, SubmitExact
    <3>3. ASSUME NEW e \in Outputs, Evict(e)
          PROVE  Exact(s, o)'
      <4>1. <<s, o>> \notin repeated \cup failed
        BY <2>2, <3>3 DEF Evict
      <4> QED
        BY <3>3, <4>1, EvictExact
    <3>4. ASSUME NEW n \in notes, Handle(n)
          PROVE  Exact(s, o)'
      BY <2>2, <3>4, HandleExact
    <3> QED
      BY <3>1, <3>2, <3>3, <3>4 DEF Next
  <2> QED
    BY <2>1, <2>2 DEF ExactInv
<1>3. ExactInv => SettledIndexIsExact
  <2> SUFFICES ASSUME ExactInv, NEW s \in Services, NEW o \in Outputs, Pending(o) = {},
                      <<s, o>> \notin repeated \cup failed
               PROVE  copies[s][o] = IF o \in hosted[Topic[s]] THEN 1 ELSE 0
    BY DEF SettledIndexIsExact
  <2>1. PendingFor(s, o) = {}
    BY DEF Pending, PendingFor
  <2> QED
    BY <2>1 DEF ExactInv, Exact
<1> QED
  BY <1>1, <1>2, <1>3, PTL DEF Spec

-----------------------------------------------------------------------------
(* Live advertisements are found, whatever is told twice.                   *)

\* What its topic holds has a record in s or an admission that s is still to be told;
\* a deletion is only still to come for what the topic no longer holds.
Findable(s, o) ==
    /\ o \in hosted[Topic[s]] =>
         copies[s][o] > 0 \/ \E n \in PendingFor(s, o) : n.kind = "admitted"
    /\ \A n \in PendingFor(s, o) : n.kind # "admitted" => o \notin hosted[Topic[s]]

FindableInv ==
    GenuineInv /\ \A s \in Services, o \in Outputs : <<s, o>> \notin failed => Findable(s, o)

LEMMA HandleFindable ==
    ASSUME FindableInv, NEW n \in notes, Handle(n), NEW s \in Services, NEW o \in Outputs,
           <<s, o>> \notin failed'
    PROVE  Findable(s, o)'
<1>1. TypeOK /\ Findable(s, o) /\ copies[s][o] \in Nat
  BY HandleEffect DEF FindableInv, GenuineInv, TypeOK
<1>2. n \in Note /\ n.service \in Services /\ n.output \in Outputs
  BY <1>1 DEF TypeOK, Note
<1>3. hosted' = hosted /\ notes' \in {notes, notes \ {n}}
  BY HandleEffect
<1>4. PendingFor(s, o)' \in {PendingFor(s, o), PendingFor(s, o) \ {n}}
  <2>1. CASE notes' = notes
    BY <2>1 DEF PendingFor, Concerns
  <2>2. CASE notes' = notes \ {n}
    BY <1>1, <2>2, HandledNote
  <2> QED
    BY <1>3, <2>1, <2>2
<1>5. \A m \in PendingFor(s, o)' : m.kind # "admitted" => o \notin hosted'[Topic[s]]
  BY <1>1, <1>3, <1>4 DEF Findable
<1> SUFFICES ASSUME o \in hosted[Topic[s]]
             PROVE  copies'[s][o] > 0 \/ \E m \in PendingFor(s, o)' : m.kind = "admitted"
  BY <1>3, <1>5 DEF Findable
<1>6. CASE n \in PendingFor(s, o)
  <2>1. n.kind = "admitted"
    BY <1>1, <1>6 DEF Findable
  <2>2. s = n.service /\ o = n.output /\ n.topic = Topic[s]
    BY <1>6, <2>1 DEF PendingFor, Concerns
  <2>3. ValidOutput(s, token[o])
    BY <2>1, <2>2 DEF FindableInv, GenuineInv, AdmittedIsValid
  <2>4. copies' = Stored(s, o)
    <3>1. PICK beef \in Beefs :
            LET v == Parse(s, n.topic, token[o], beef) IN
            /\ v # "error"
            /\ copies' = IF v = "store" THEN Stored(s, o) ELSE copies
      BY <2>1, <2>2, HandleSucceeds
    <3>2. Parse(s, n.topic, token[o], beef) # "skip"
      BY <2>2, <2>3 DEF Parse, ValidOutput
    <3> QED BY <3>1, <3>2 DEF Parse
  <2> QED
    BY <1>1, <2>4, CopiesType
<1>7. CASE n \notin PendingFor(s, o)
  <2>1. PendingFor(s, o)' = PendingFor(s, o)
    BY <1>4, <1>7
  <2>2. CASE <<s, o>> # <<n.service, n.output>>
    <3>1. copies' \in {copies, Stored(n.service, n.output), Deleted(n.service, n.output)}
      BY HandleEffect
    <3>2. CASE copies' = copies
      BY <1>1, <2>1, <3>2 DEF Findable
    <3>3. CASE copies' \in {Stored(n.service, n.output), Deleted(n.service, n.output)}
      <4>1. /\ Stored(n.service, n.output)[s][o] = copies[s][o]
            /\ Deleted(n.service, n.output)[s][o] = copies[s][o]
        BY <1>1, <1>2, <2>2, CopiesType
      <4> QED
        BY <1>1, <2>1, <3>3, <4>1 DEF Findable
    <3> QED
      BY <3>1, <3>2, <3>3
  <2>3. CASE s = n.service /\ o = n.output
    <3>1. n.kind # "evicted" /\ n.topic # Topic[s]
      BY <1>7, <2>3 DEF PendingFor, Concerns
    <3>2. copies' = copies
      BY <2>3, <3>1, HandleElsewhere
    <3> QED
      BY <1>1, <2>1, <3>2 DEF Findable
  <2> QED
    BY <2>2, <2>3
<1> QED
  BY <1>6, <1>7

LEMMA EvictFindable ==
    ASSUME FindableInv, NEW e \in Outputs, Evict(e), NEW s \in Services, NEW o \in Outputs,
           <<s, o>> \notin failed
    PROVE  Findable(s, o)'
<1>1. TypeOK /\ Findable(s, o) /\ Topic[s] \in Topics
  BY TopicFacts DEF FindableInv, GenuineInv
<1>2. /\ hosted' = [t \in Topics |-> hosted[t] \ {e}]
      /\ notes' = notes \cup {n \in Note : n.kind = "evicted" /\ n.output = e}
      /\ copies' = copies
  BY DEF Evict
<1>3. CASE o # e
  <2>1. PendingFor(s, o)' = PendingFor(s, o)
    BY <1>2, <1>3 DEF PendingFor, Concerns
  <2>2. o \in hosted'[Topic[s]] <=> o \in hosted[Topic[s]]
    BY <1>1, <1>2, <1>3
  <2> QED
    BY <1>1, <1>2, <2>1, <2>2 DEF Findable
<1>4. CASE o = e
  BY <1>1, <1>2, <1>4 DEF Findable
<1> QED
  BY <1>3, <1>4

LEMMA SubmitFindable ==
    ASSUME FindableInv, InOrder, NEW x \in Txs, NEW S \in SUBSET Outputs, NEW found \in BOOLEAN,
           NEW other \in [OtherTopics -> SUBSET OutputsOf(x)],
           S \cap OutputsOf(x) = {}, Submit(x, S, found, other),
           NEW s \in Services, NEW o \in Outputs, <<s, o>> \notin failed
    PROVE  Findable(s, o)'
<1> DEFINE A == Admits(x, found, other)
           t == Topic[s]
<1>1. TypeOK /\ Findable(s, o) /\ t \in Topics /\ t # NoTopic
  BY TopicFacts DEF FindableInv, GenuineInv
<1>2. /\ hosted' = [u \in Topics |-> (hosted[u] \ S) \cup A[u]]
      /\ notes' = notes
           \cup {n \in Note : n.kind = "spent" /\ n.output \in S \cap hosted[n.topic]}
           \cup {n \in Note : n.kind = "admitted" /\ n.output \in A[n.topic]}
      /\ copies' = copies
  BY DEF Submit
<1>3. A[t] \subseteq OutputsOf(x)
  BY <1>1, AdmitsFacts
<1>4. \A p \in OutputsOf(x) \cup S : Pending(p) = {} /\ (p \in OutputsOf(x) => p \notin hosted[t])
  BY <1>1 DEF Submit, Quiet, Live
<1>5. o \in hosted'[t] <=> o \in hosted[t] \ S \/ o \in A[t]
  BY <1>1, <1>2
<1> HIDE DEF A, t
<1>6. ASSUME o \in A[t]
      PROVE  \E n \in PendingFor(s, o)' : n.kind = "admitted"
  <2> DEFINE n == [kind |-> "admitted", topic |-> t, output |-> o, service |-> s]
  <2>1. n \in Note
    BY <1>1 DEF Note
  <2>2. n.kind = "admitted" /\ n.topic = t /\ n.output = o /\ n.service = s
    OBVIOUS
  <2> HIDE DEF n
  <2>3. n \in notes' /\ Concerns(s, n)
    BY <1>2, <1>6, <2>1, <2>2 DEF Concerns, t
  <2> QED
    BY <2>2, <2>3 DEF PendingFor, Concerns
<1>7. ASSUME NEW n \in PendingFor(s, o)', n.kind # "admitted", o \in hosted'[t]
      PROVE  FALSE
  <2>1. n \in notes' /\ n.output = o /\ n.service = s /\ (n.kind = "evicted" \/ n.topic = t)
    BY DEF PendingFor, Concerns, t
  <2>2. CASE n \in notes
    <3>1. n \in PendingFor(s, o) /\ Pending(o) # {}
      BY <2>1, <2>2 DEF PendingFor, Pending, Concerns, t
    <3>2. o \notin hosted[t]
      BY <1>1, <1>7, <3>1 DEF Findable, t
    <3> QED
      BY <1>3, <1>4, <1>5, <1>7, <3>1, <3>2
  <2>3. CASE n \notin notes
    <3>1. n.kind = "spent" /\ o \in S
      BY <1>2, <1>7, <2>1, <2>3
    <3> QED
      BY <1>3, <1>5, <1>7, <3>1
  <2> QED
    BY <2>2, <2>3
<1>8. ASSUME o \in hosted[t] \ S
      PROVE  copies[s][o] > 0 \/ \E n \in PendingFor(s, o)' : n.kind = "admitted"
  <2>1. PendingFor(s, o) \subseteq PendingFor(s, o)'
    BY <1>2 DEF PendingFor, Concerns
  <2> QED
    BY <1>1, <1>8, <2>1 DEF Findable, t
<1> QED
  BY <1>2, <1>5, <1>6, <1>7, <1>8 DEF Findable, t

\* With such an engine: whatever is told twice, what a topic holds is found by its
\* lookup service as soon as no call about it is left to be made, unless one of them
\* returned an error.
THEOREM LiveAlwaysFindable ==
    ASSUME InOrder
    PROVE  Spec => []LiveIsFindable
<1>1. Init => FindableInv
  <2>1. Init => GenuineInv
    BY InputsOK DEF Init, GenuineInv, TypeOK, AdmittedIsValid
  <2>2. Init => \A s \in Services, o \in Outputs : Findable(s, o)
    BY TopicFacts DEF Init, Findable, PendingFor
  <2> QED
    BY <2>1, <2>2 DEF FindableInv
<1>2. FindableInv /\ [Next]_vars => FindableInv'
  <2> SUFFICES ASSUME FindableInv, [Next]_vars PROVE FindableInv'
    OBVIOUS
  <2>1. GenuineInv'
    BY GenuineInductive DEF FindableInv
  <2>2. CASE UNCHANGED vars
    BY <2>1, <2>2 DEF FindableInv, vars, Findable, PendingFor, Concerns
  <2>3. CASE Next
    <3> SUFFICES ASSUME NEW s \in Services, NEW o \in Outputs, <<s, o>> \notin failed'
                 PROVE  Findable(s, o)'
      BY <2>1 DEF FindableInv
    <3>1. ASSUME NEW x \in Txs, NEW S \in SUBSET Outputs, NEW found \in BOOLEAN,
                 NEW other \in [OtherTopics -> SUBSET OutputsOf(x)],
                 S \cap OutputsOf(x) = {}, Submit(x, S, found, other)
          PROVE  Findable(s, o)'
      <4>1. <<s, o>> \notin failed
        BY <3>1 DEF Submit
      <4> QED BY <3>1, <4>1, SubmitFindable
    <3>2. ASSUME NEW e \in Outputs, Evict(e)
          PROVE  Findable(s, o)'
      <4>1. <<s, o>> \notin failed
        BY <3>2 DEF Evict
      <4> QED BY <3>2, <4>1, EvictFindable
    <3>3. ASSUME NEW n \in notes, Handle(n)
          PROVE  Findable(s, o)'
      BY <3>3, HandleFindable
    <3> QED BY <2>3, <3>1, <3>2, <3>3 DEF Next
  <2> QED
    BY <2>2, <2>3
<1>3. FindableInv => LiveIsFindable
  BY DEF FindableInv, Findable, PendingFor, Pending, LiveIsFindable
<1> QED
  BY <1>1, <1>2, <1>3, PTL DEF Spec
=============================================================================
