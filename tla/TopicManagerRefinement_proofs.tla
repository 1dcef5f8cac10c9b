-------------------- MODULE TopicManagerRefinement_proofs --------------------
(***************************************************************************)
(* The message counts of the SHIP topic manager are exact, its getters      *)
(* answer with one state of the table, and it implements the atomic         *)
(* Subscriptions, for any number of goroutines.                             *)
(*                                                                          *)
(* CallInv says what the locals of a call hold at each label, CountInv ties  *)
(* the counts to the calls that are under way, and SnapInv the copies of a   *)
(* getter to the table.                                                     *)
(***************************************************************************)
EXTENDS TopicManagerRefinement, TopicManagerSafety_proofs, FiniteSetTheorems

\* A call c whose goroutine is at label l, when the table has the keys S.
CallOK(S, l, c) ==
    /\ l \notin {"unlock", "return"} => c.ret = "none"
    /\ l = "unlock" => (c.op = "Handle" <=> c.ret = "none")
    /\ l = "return" => c.ret # "none"
    /\ l \in {"invoke", "handling", "resumed", "runlock"} => c.op = "Handle"
    /\ c.op = "Unsubscribe" => c.handler = NoHandler
    /\ c.op = "Handle" /\ l \in {"rlock", "read"} => c.handler = NoHandler
    /\ c.op # "Get" \/ l = "rlock" => c.copies = {}
    /\ \/ c.op = "Handle" /\ l \in {"lock", "drain", "first", "second", "unlock", "invoke"}
       \/ l = "runlock" /\ c.live
       => c.topic \in S

CallInv == \A p \in Procs : CallOK(subscriptions, pc[p], call[p])

-----------------------------------------------------------------------------
(* One step of one goroutine.                                               *)

\* A record is never removed from the table.
LEMMA TableGrows ==
    ASSUME NEW p \in Procs, Start(p) \/ Acquire(p) \/ Proceed(p)
    PROVE  subscriptions \subseteq subscriptions'
<1> USE DEF manager, Finish, RUnlock
<1>1. CASE Start(p)
  BY <1>1 DEF Start, BeginSubscribe, BeginUnsubscribe, BeginCreate, BeginHandle, BeginClose,
              BeginGet, Reject, Begin
<1>2. CASE Acquire(p)
  BY <1>2 DEF Acquire, AnnounceLock, AcquireLock, AcquireRLock
<1>3. CASE Proceed(p)
  BY <1>3 DEF Proceed, Unlock, Return, SubscribeRecord, SubscribeHandler, UnsubscribeUnknown,
              UnsubscribeRecord, UnsubscribeHandler, CreateRecord, CloseRecord, CloseHandlers,
              HandleRead, HandleIgnore, HandleNoHandler, HandleAccept, CountLoad, CountStore,
              Invoke, HandlerReturns, GetRead, GetDone
<1> QED BY <1>1, <1>2, <1>3

(* A call that starts corresponds to a request of Subscriptions.             *)

\* The goroutine begins with locals that say what request q is, or that it is refused.
Begins(p, q) ==
    \E l \in {"lock", "rlock", "return"}, c \in Call :
        /\ Begin(p, l, c)
        /\ c.op = q.op /\ c.copies = {}
        /\ c.ret = Atomic!Refusal(q)
        /\ IF c.ret = "none"
           THEN /\ l = IF q.op \in {"Handle", "Get"} THEN "rlock" ELSE "lock"
                /\ c.topic = q.topic /\ c.handler = q.handler /\ c.want = q.want
           ELSE /\ l = "return"
                /\ c.topic = EmptyTopic /\ c.handler = NoHandler /\ c.want = {}

LEMMA AcceptedCall ==
    ASSUME NEW p \in Procs, NEW q \in Atomic!Requests, Atomic!Refusal(q) = "none",
           NEW l, l = IF q.op \in {"Handle", "Get"} THEN "rlock" ELSE "lock",
           NEW c \in Call, Begin(p, l, c),
           c.op = q.op, c.topic = q.topic, c.handler = q.handler, c.want = q.want,
           c.ret = "none", c.copies = {}
    PROVE  Begins(p, q)
BY DEF Begins

LEMMA RefusedCall ==
    ASSUME NEW p \in Procs, NEW q \in Atomic!Requests, NEW o \in Ops, o = q.op,
           NEW e \in Results \ {"none"}, e = Atomic!Refusal(q), Reject(p, o, e)
    PROVE  Begins(p, q)
<1>1. [NewCall(o, EmptyTopic, NoHandler) EXCEPT !.ret = e] \in Call
  BY NewCallType
<1>2. PICK c \in Call : c = [NewCall(o, EmptyTopic, NoHandler) EXCEPT !.ret = e]
  BY <1>1
<1>3. /\ c.op = o /\ c.topic = EmptyTopic /\ c.handler = NoHandler
      /\ c.want = {} /\ c.copies = {} /\ c.ret = e
  BY <1>2 DEF NewCall
<1>4. Begin(p, "return", c)
  BY <1>2 DEF Reject
<1> QED BY <1>3, <1>4 DEF Begins

LEMMA StartsWithRequest ==
    ASSUME NEW p \in Procs, Start(p)
    PROVE  \E q \in Atomic!Requests : Begins(p, q)
<1> DEFINE Q(o, t, h, w) == [op |-> o, topic |-> t, handler |-> h, want |-> w]
<1>0. ASSUME NEW o \in Ops \ {"None"}, NEW t \in Topics \cup {EmptyTopic},
             NEW h \in Handlers \cup {NoHandler},
             Q(o, t, h, {}) \in Atomic!Requests, Atomic!Refusal(Q(o, t, h, {})) = "none",
             Begin(p, IF o \in {"Handle", "Get"} THEN "rlock" ELSE "lock", NewCall(o, t, h))
      PROVE  \E q \in Atomic!Requests : Begins(p, q)
  <2>1. PICK c \in Call : c = NewCall(o, t, h)
    BY NewCallType
  <2>2. /\ c.op = o /\ c.topic = t /\ c.handler = h
        /\ c.want = {} /\ c.copies = {} /\ c.ret = "none"
    BY <2>1 DEF NewCall
  <2>3. Begins(p, Q(o, t, h, {}))
    BY <1>0, <2>1, <2>2, AcceptedCall
  <2> QED BY <1>0, <2>3
<1>1. ASSUME NEW o \in Ops \ {"None"}, NEW t \in Topics \cup {EmptyTopic},
             NEW h \in Handlers \cup {NoHandler}, NEW e \in Results \ {"none"},
             Q(o, t, h, {}) \in Atomic!Requests, Atomic!Refusal(Q(o, t, h, {})) = e,
             Reject(p, o, e)
      PROVE  \E q \in Atomic!Requests : Begins(p, q)
  BY <1>1, RefusedCall
<1>2. ASSUME NEW t \in Topics \cup {EmptyTopic}, NEW h \in Handlers \cup {NoHandler},
             BeginSubscribe(p, t, h)
      PROVE  \E q \in Atomic!Requests : Begins(p, q)
  <2>1. Q("Subscribe", t, h, {}) \in Atomic!Requests
    BY DEF Atomic!Requests
  <2>2. Atomic!Refusal(Q("Subscribe", t, h, {})) =
           IF t = EmptyTopic THEN "errTopicNameEmpty"
           ELSE IF h = NoHandler THEN "errMessageHandlerNil" ELSE "none"
    BY DEF Atomic!Refusal
  <2> HIDE DEF Q
  <2> QED BY <1>0, <1>1, <1>2, <2>1, <2>2 DEF BeginSubscribe, Ops, Results
<1>3. ASSUME NEW t \in Topics \cup {EmptyTopic}, NEW o \in {"Unsubscribe", "Create", "Handle"},
             \/ o = "Unsubscribe" /\ BeginUnsubscribe(p, t)
             \/ o = "Create" /\ BeginCreate(p, t)
             \/ o = "Handle" /\ BeginHandle(p, t)
      PROVE  \E q \in Atomic!Requests : Begins(p, q)
  <2>1. Q(o, t, NoHandler, {}) \in Atomic!Requests
    BY DEF Atomic!Requests
  <2>2. Atomic!Refusal(Q(o, t, NoHandler, {})) =
           IF t # EmptyTopic THEN "none"
           ELSE IF o = "Handle" THEN "errMessageTopicEmpty" ELSE "errTopicNameEmpty"
    BY DEF Atomic!Refusal
  <2> HIDE DEF Q
  <2> QED BY <1>0, <1>1, <1>3, <2>1, <2>2
          DEF BeginUnsubscribe, BeginCreate, BeginHandle, Ops, Results
<1>4. ASSUME BeginClose(p)
      PROVE  \E q \in Atomic!Requests : Begins(p, q)
  <2>1. Q("Close", EmptyTopic, NoHandler, {}) \in Atomic!Requests
    BY DEF Atomic!Requests, Atomic!NoRequest
  <2>2. Atomic!Refusal(Q("Close", EmptyTopic, NoHandler, {})) = "none"
    BY DEF Atomic!Refusal
  <2> HIDE DEF Q
  <2> QED BY <1>0, <1>4, <2>1, <2>2 DEF BeginClose, Ops
<1>5. ASSUME NEW w \in SUBSET Topics, BeginGet(p, w)
      PROVE  \E q \in Atomic!Requests : Begins(p, q)
  <2>1. Q("Get", EmptyTopic, NoHandler, w) \in Atomic!Requests
    BY DEF Atomic!Requests
  <2>2. Atomic!Refusal(Q("Get", EmptyTopic, NoHandler, w)) = "none"
    BY DEF Atomic!Refusal
  <2>3. [NewCall("Get", EmptyTopic, NoHandler) EXCEPT !.want = w] \in Call
    BY NewCallType DEF Ops
  <2>4. PICK c \in Call : c = [NewCall("Get", EmptyTopic, NoHandler) EXCEPT !.want = w]
    BY <2>3
  <2>5. /\ c.op = "Get" /\ c.topic = EmptyTopic /\ c.handler = NoHandler
        /\ c.want = w /\ c.copies = {} /\ c.ret = "none"
    BY <2>4 DEF NewCall
  <2>6. Begin(p, "rlock", c)
    BY <1>5, <2>4 DEF BeginGet
  <2>7. Begins(p, Q("Get", EmptyTopic, NoHandler, w))
    BY <2>1, <2>2, <2>5, <2>6, AcceptedCall
  <2> QED BY <2>1, <2>7
<1> HIDE DEF Q
<1> QED BY <1>2, <1>3, <1>4, <1>5 DEF Start

\* The fresh locals are as the label demands to which the call goes.
LEMMA CallStart ==
    ASSUME NEW p \in Procs, Start(p)
    PROVE  /\ UNCHANGED <<manager, mutex, delivered>>
           /\ \E l \in {"lock", "rlock", "return"}, c \in Call :
                /\ pc' = [pc EXCEPT ![p] = l] /\ call' = [call EXCEPT ![p] = c]
                /\ CallOK(subscriptions, l, c)
<1>1. PICK q \in Atomic!Requests : Begins(p, q)
  BY StartsWithRequest
<1>2. q.op \in {"Unsubscribe", "Handle"} => q.handler = NoHandler
  BY DEF Atomic!Requests, Atomic!NoRequest
<1>3. PICK l \in {"lock", "rlock", "return"}, c \in Call : Begins(p, q)!(l, c)
  BY <1>1 DEF Begins
<1> QED BY <1>2, <1>3 DEF Begin, GoTo, CallOK

-----------------------------------------------------------------------------
(* CallInv.                                                                 *)

\* Only the goroutine that moves has a new label and new locals.
LEMMA CallLocal ==
    ASSUME TypeInv, CallInv, NEW p \in Procs, subscriptions \subseteq subscriptions',
           NEW l, NEW c, pc' = [pc EXCEPT ![p] = l], call' = [call EXCEPT ![p] = c],
           CallOK(subscriptions', l, c)
    PROVE  CallInv'
<1>1. ASSUME NEW q \in Procs, q # p
      PROVE  CallOK(subscriptions, pc[q], call[q])'
  <2>1. pc'[q] = pc[q] /\ call'[q] = call[q]
    BY <1>1 DEF TypeInv, TypeOK
  <2> QED BY <2>1 DEF CallInv, CallOK
<1>2. CallOK(subscriptions, pc[p], call[p])'
  BY DEF TypeInv, TypeOK
<1> QED BY <1>1, <1>2 DEF CallInv

LEMMA CallStep ==
    ASSUME TypeInv, CallInv, NEW p \in Procs, Start(p) \/ Acquire(p) \/ Proceed(p)
    PROVE  CallInv'
<1> DEFINE l == pc'[p]
           c == call'[p]
<1>1. subscriptions \subseteq subscriptions'
  BY TableGrows
<1>2. CallOK(subscriptions, pc[p], call[p]) /\ call[p] \in Call
  BY DEF CallInv, TypeInv, TypeOK
<1>3. CASE Start(p)
  BY <1>3, CallStart, CallLocal DEF manager
<1>4. ASSUME call' = [call EXCEPT ![p] = c], pc' = [pc EXCEPT ![p] = l],
             CallOK(subscriptions', l, c)
      PROVE  CallInv'
  BY <1>1, <1>4, CallLocal
<1> USE DEF GoTo, Finish, RUnlock, At, TypeInv, TypeOK, CallOK, Call, manager
<1>5. CASE Acquire(p)
  BY <1>2, <1>4, <1>5 DEF Acquire, AnnounceLock, AcquireLock, AcquireRLock
<1>6. CASE Unlock(p) \/ Return(p)
  BY <1>2, <1>4, <1>6 DEF Unlock, Return, NewCall
<1>7. CASE SubscribeRecord(p) \/ SubscribeHandler(p)
  BY <1>2, <1>4, <1>7 DEF SubscribeRecord, SubscribeHandler
<1>8. CASE UnsubscribeUnknown(p) \/ UnsubscribeRecord(p) \/ UnsubscribeHandler(p)
  BY <1>2, <1>4, <1>8 DEF UnsubscribeUnknown, UnsubscribeRecord, UnsubscribeHandler
<1>9. CASE CreateRecord(p) \/ CloseRecord(p) \/ CloseHandlers(p)
  BY <1>2, <1>4, <1>9 DEF CreateRecord, CloseRecord, CloseHandlers
<1>10. CASE HandleRead(p)
  BY <1>2, <1>4, <1>10 DEF HandleRead
<1>11. CASE HandleAccept(p)
  BY <1>2, <1>4, <1>11 DEF HandleAccept
<1>16. CASE HandleIgnore(p)
  BY <1>2, <1>4, <1>16 DEF HandleIgnore
<1>17. CASE HandleNoHandler(p)
  BY <1>2, <1>4, <1>17 DEF HandleNoHandler
<1>12. CASE CountLoad(p)
  BY <1>2, <1>4, <1>12 DEF CountLoad
<1>18. CASE CountStore(p)
  BY <1>2, <1>4, <1>18 DEF CountStore
<1>13. CASE Invoke(p) \/ HandlerReturns(p)
  BY <1>2, <1>4, <1>13 DEF Invoke, HandlerReturns
<1>14. CASE GetRead(p)
  BY <1>2, <1>4, <1>14 DEF GetRead
<1>15. CASE GetDone(p)
  BY <1>2, <1>4, <1>15 DEF GetDone
<1> QED BY <1>3, <1>5, <1>6, <1>7, <1>8, <1>9, <1>10, <1>11, <1>12, <1>13, <1>14, <1>15,
           <1>16, <1>17, <1>18 DEF Proceed

-----------------------------------------------------------------------------
(* The counts, in records that the manager alone writes.                    *)

\* Between the load and the store of a count nobody else changes it, and a topic
\* without a record has no count.
CountInv ==
    /\ \A p \in Procs :
         At(p, "second", "Handle") => call[p].loaded = messageCount[call[p].topic]
    /\ \A t \in Topics \ subscriptions : messageCount[t] = 0

\* The call c at label l has been counted, and its handler not yet called.
Counted(l, c) == c.op = "Handle" /\ l \in {"unlock", "invoke"}

LEMMA Frame ==
    ASSUME TypeInv, NEW p \in Procs, Start(p) \/ Acquire(p) \/ Proceed(p),
           NEW q \in Procs, q # p
    PROVE  pc'[q] = pc[q] /\ call'[q] = call[q]
<1> USE DEF GoTo, Finish, RUnlock, TypeInv, TypeOK
<1>1. CASE Start(p)
  BY <1>1, CallStart
<1>2. CASE Acquire(p)
  BY <1>2 DEF Acquire, AnnounceLock, AcquireLock, AcquireRLock
<1>3. CASE Proceed(p)
  BY <1>3 DEF Proceed, Unlock, Return, SubscribeRecord, SubscribeHandler, UnsubscribeUnknown,
              UnsubscribeRecord, UnsubscribeHandler, CreateRecord, CloseRecord, CloseHandlers,
              HandleRead, HandleIgnore, HandleNoHandler, HandleAccept, CountLoad, CountStore,
              Invoke, HandlerReturns, GetRead, GetDone
<1> QED BY <1>1, <1>2, <1>3

\* What every step but CountStore and Invoke does about the counts: nothing.
QuietStep(p) ==
    /\ UNCHANGED <<messageCount, delivered>>
    /\ Counted(pc[p], call[p]) <=> Counted(pc'[p], call'[p])
    /\ Counted(pc[p], call[p]) => call'[p].topic = call[p].topic
    /\ At(p, "second", "Handle")' => call'[p].loaded = messageCount[call'[p].topic]

LEMMA OthersAreQuiet ==
    ASSUME TypeInv, CallInv, CountInv, NEW p \in Procs, Start(p) \/ Acquire(p) \/ Proceed(p),
           ~CountStore(p), ~Invoke(p)
    PROVE  QuietStep(p)
<1>1. call[p] \in Call /\ CallOK(subscriptions, pc[p], call[p])
  BY DEF TypeInv, TypeOK, CallInv
<1>2. CASE Start(p)
  <2>1. PICK l \in {"lock", "rlock", "return"}, c \in Call :
           /\ pc' = [pc EXCEPT ![p] = l] /\ call' = [call EXCEPT ![p] = c]
           /\ CallOK(subscriptions, l, c)
    BY <1>2, CallStart
  <2>2. pc'[p] = l /\ pc[p] \in {"idle", "handling"} /\ UNCHANGED <<messageCount, delivered>>
    BY <1>2, <2>1, CallStart, StartStep DEF TypeInv, TypeOK, Started, manager
  <2> QED BY <2>2 DEF QuietStep, Counted, At
<1> USE DEF GoTo, Finish, RUnlock, At, TypeInv, TypeOK, Call, manager, Counted, QuietStep
<1>3. CASE Acquire(p)
  BY <1>1, <1>3 DEF Acquire, AnnounceLock, AcquireLock, AcquireRLock
<1>4. CASE Unlock(p) \/ Return(p)
  BY <1>1, <1>4 DEF Unlock, Return, NewCall
<1>5. CASE SubscribeRecord(p)
  <2>1. messageCount' = messageCount
    BY <1>5 DEF SubscribeRecord, CountInv
  <2> QED BY <1>1, <1>5, <2>1 DEF SubscribeRecord
<1>6. CASE SubscribeHandler(p)
  BY <1>1, <1>6 DEF SubscribeHandler
<1>7. CASE UnsubscribeUnknown(p) \/ UnsubscribeRecord(p) \/ UnsubscribeHandler(p)
  BY <1>1, <1>7 DEF UnsubscribeUnknown, UnsubscribeRecord, UnsubscribeHandler
<1>8. CASE CreateRecord(p)
  <2>1. messageCount' = messageCount
    BY <1>8 DEF CreateRecord, CountInv
  <2> QED BY <1>1, <1>8, <2>1 DEF CreateRecord
<1>9. CASE CloseRecord(p) \/ CloseHandlers(p)
  BY <1>1, <1>9 DEF CloseRecord, CloseHandlers
<1>10. CASE HandleRead(p)
  BY <1>1, <1>10 DEF HandleRead
<1>11. CASE HandleIgnore(p) \/ HandleNoHandler(p) \/ HandleAccept(p)
  BY <1>1, <1>11 DEF HandleIgnore, HandleNoHandler, HandleAccept
<1>12. CASE CountLoad(p)
  BY <1>1, <1>12 DEF CountLoad
<1>13. CASE HandlerReturns(p)
  BY <1>1, <1>13 DEF HandlerReturns
<1>14. CASE GetRead(p)
  BY <1>1, <1>14 DEF GetRead
<1>15. CASE GetDone(p)
  BY <1>1, <1>15 DEF GetDone
<1> QED BY <1>2, <1>3, <1>4, <1>5, <1>6, <1>7, <1>8, <1>9, <1>10, <1>11, <1>12, <1>13, <1>14,
           <1>15 DEF Proceed

\* The one step that counts, and the one that delivers.
LEMMA CountStoreStep ==
    ASSUME TypeInv, CallInv, CountInv, NEW p \in Procs, CountStore(p)
    PROVE  LET t == call[p].topic
           IN  /\ t \in subscriptions
               /\ messageCount' = [messageCount EXCEPT ![t] = @ + 1]
               /\ UNCHANGED <<subscriptions, call, delivered>>
               /\ pc[p] = "second" /\ pc'[p] = "unlock" /\ call[p].op = "Handle"
BY DEF CountStore, CountInv, CallInv, CallOK, At, GoTo, TypeInv, TypeOK

LEMMA InvokeStep ==
    ASSUME TypeInv, CallInv, NEW p \in Procs, Invoke(p)
    PROVE  LET t == call[p].topic
           IN  /\ t \in Topics
               /\ delivered' = [delivered EXCEPT ![t] = @ + 1]
               /\ UNCHANGED <<subscriptions, call, messageCount>>
               /\ pc[p] = "invoke" /\ pc'[p] = "handling" /\ call[p].op = "Handle"
BY DEF Invoke, CallInv, CallOK, At, GoTo, TypeInv, TypeOK, manager

LEMMA CountKept ==
    ASSUME TypeInv, LockInv, CallInv, CountInv, NEW p \in Procs,
           Start(p) \/ Acquire(p) \/ Proceed(p)
    PROVE  CountInv'
<1>1. subscriptions \subseteq subscriptions' /\ subscriptions \subseteq Topics
  BY TableGrows DEF TypeInv, TypeOK
<1>2. ASSUME NEW q \in Procs, q # p, messageCount' = messageCount
      PROVE  At(q, "second", "Handle")' => call'[q].loaded = messageCount'[call'[q].topic]
  BY <1>2, Frame DEF CountInv, At
<1>3. CASE CountStore(p)
  <2>1. \A q \in Procs : q # p => pc[q] # "second"
    BY <1>3, CountStoreStep DEF LockInv
  <2>2. \A q \in Procs : pc'[q] # "second"
    BY <1>3, <2>1, Frame, CountStoreStep
  <2>3. \A t \in Topics \ subscriptions : messageCount'[t] = messageCount[t]
    BY <1>3, CountStoreStep DEF TypeInv, TypeOK
  <2> QED BY <1>3, <2>2, <2>3, CountStoreStep DEF CountInv, At
<1>4. CASE Invoke(p)
  BY <1>1, <1>2, <1>4, InvokeStep DEF CountInv, At
<1>5. CASE ~CountStore(p) /\ ~Invoke(p)
  BY <1>1, <1>2, <1>5, OthersAreQuiet DEF QuietStep, CountInv
<1> QED BY <1>3, <1>4, <1>5

LEMMA SameInFlight ==
    ASSUME TypeInv, NEW p \in Procs, NEW t \in Topics,
           \A q \in Procs \ {p} : pc'[q] = pc[q] /\ call'[q] = call[q]
    PROVE  /\ InFlight(t) \ {p} = InFlight(t)' \ {p}
           /\ p \in InFlight(t) <=> Counted(pc[p], call[p]) /\ call[p].topic = t
           /\ p \in InFlight(t)' <=> Counted(pc'[p], call'[p]) /\ call'[p].topic = t
           /\ IsFiniteSet(InFlight(t)) /\ Cardinality(InFlight(t)) \in Nat
<1>1. InFlight(t) \subseteq Procs
  BY DEF InFlight
<1>2. IsFiniteSet(InFlight(t)) /\ Cardinality(InFlight(t)) \in Nat
  BY <1>1, Finite, FS_Subset, FS_CardinalityType
<1> QED BY <1>2 DEF InFlight, Counted

LEMMA DeliveriesKept ==
    ASSUME TypeInv, CallInv, CountInv, CountMatchesDeliveries, NEW p \in Procs,
           Start(p) \/ Acquire(p) \/ Proceed(p)
    PROVE  CountMatchesDeliveries'
<1> SUFFICES ASSUME NEW t \in Topics
             PROVE  messageCount'[t] = delivered'[t] + Cardinality(InFlight(t)')
  BY DEF CountMatchesDeliveries
<1>1. messageCount[t] = delivered[t] + Cardinality(InFlight(t))
  BY DEF CountMatchesDeliveries
<1>2. \A q \in Procs \ {p} : pc'[q] = pc[q] /\ call'[q] = call[q]
  BY Frame
<1>3. messageCount[t] \in Nat /\ delivered[t] \in Nat
  BY DEF TypeInv, TypeOK
<1>4. CASE CountStore(p)
  <2>1. CASE t = call[p].topic
    <3>1. InFlight(t)' = InFlight(t) \cup {p} /\ p \notin InFlight(t)
      BY <1>2, <1>4, <2>1, CountStoreStep, SameInFlight DEF Counted
    <3>2. Cardinality(InFlight(t)') = Cardinality(InFlight(t)) + 1
      BY <1>2, <3>1, SameInFlight, FS_AddElement
    <3>3. messageCount'[t] = messageCount[t] + 1 /\ delivered'[t] = delivered[t]
      BY <1>4, <2>1, CountStoreStep DEF TypeInv, TypeOK
    <3>4. Cardinality(InFlight(t)) \in Nat
      BY <1>2, SameInFlight
    <3> QED BY <1>1, <1>3, <3>2, <3>3, <3>4
  <2>2. CASE t # call[p].topic
    <3>1. p \notin InFlight(t) /\ p \notin InFlight(t)'
      BY <1>2, <1>4, <2>2, CountStoreStep, SameInFlight
    <3>2. InFlight(t)' = InFlight(t)
      BY <1>2, <3>1, SameInFlight
    <3> QED BY <1>1, <1>4, <2>2, <3>2, CountStoreStep DEF TypeInv, TypeOK
  <2> QED BY <2>1, <2>2
<1>5. CASE Invoke(p)
  <2>1. CASE t = call[p].topic
    <3>1. InFlight(t)' = InFlight(t) \ {p} /\ p \in InFlight(t)
      BY <1>2, <1>5, <2>1, InvokeStep, SameInFlight DEF Counted
    <3>2. Cardinality(InFlight(t)') = Cardinality(InFlight(t)) - 1
      BY <1>2, <3>1, SameInFlight, FS_RemoveElement
    <3>3. messageCount'[t] = messageCount[t] /\ delivered'[t] = delivered[t] + 1
      BY <1>5, <2>1, InvokeStep DEF TypeInv, TypeOK
    <3>4. Cardinality(InFlight(t)) \in Nat
      BY <1>2, SameInFlight
    <3> QED BY <1>1, <1>3, <3>2, <3>3, <3>4
  <2>2. CASE t # call[p].topic
    <3>1. p \notin InFlight(t) /\ p \notin InFlight(t)'
      BY <1>2, <1>5, <2>2, InvokeStep, SameInFlight
    <3>2. InFlight(t)' = InFlight(t)
      BY <1>2, <3>1, SameInFlight
    <3> QED BY <1>1, <1>5, <2>2, <3>2, InvokeStep DEF TypeInv, TypeOK
  <2> QED BY <2>1, <2>2
<1>6. CASE ~CountStore(p) /\ ~Invoke(p)
  <2>1. QuietStep(p)
    BY <1>6, OthersAreQuiet
  <2>2. InFlight(t)' = InFlight(t)
    BY <1>2, <2>1, SameInFlight DEF QuietStep
  <2> QED BY <1>1, <2>1, <2>2 DEF QuietStep
<1> QED BY <1>4, <1>5, <1>6

CountingInv == TypeInv /\ LockInv /\ CallInv /\ CountInv /\ CountMatchesDeliveries

LEMMA CountingInvHolds == Spec => []CountingInv
<1>1. Init => CountingInv
  <2> SUFFICES ASSUME Init
               PROVE  CountingInv
    OBVIOUS
  <2>1. TypeInv
    BY NewCallType DEF Init, TypeInv, TypeOK, ArgsOK, Ops, Labels
  <2>2. LockInv /\ CallInv /\ CountInv
    BY Distinct DEF Init, LockInv, CallInv, CallOK, CountInv, NewCall, At
  <2>3. ASSUME NEW t \in Topics
        PROVE  messageCount[t] = delivered[t] + Cardinality(InFlight(t))
    <3>1. InFlight(t) = {}
      BY DEF Init, InFlight
    <3> QED BY <3>1, FS_EmptySet DEF Init
  <2> QED BY <2>1, <2>2, <2>3 DEF CountingInv, CountMatchesDeliveries
<1>2. CountingInv /\ [Next]_vars => CountingInv'
  <2> SUFFICES ASSUME CountingInv, [Next]_vars
               PROVE  CountingInv'
    OBVIOUS
  <2> USE DEF CountingInv
  <2>1. CASE UNCHANGED vars
    <3>1. TypeInv' /\ LockInv' /\ CallInv' /\ CountInv'
      BY <2>1 DEF vars, manager, mutex, TypeInv, TypeOK, ArgsOK, LockInv, CallInv, CountInv, At
    <3>2. \A t \in Topics : InFlight(t)' = InFlight(t)
      BY <2>1 DEF vars, InFlight
    <3> QED BY <2>1, <3>1, <3>2 DEF vars, manager, CountMatchesDeliveries
  <2>2. ASSUME NEW p \in Procs, Start(p) \/ Acquire(p) \/ Proceed(p)
        PROVE  CountingInv'
    <3>1. TypeInv'
      BY <2>2, StartType, LockType, WriteType, HandleType, GetType DEF Proceed
    <3> QED BY <2>2, <3>1, LockStep, CallStep, CountKept, DeliveriesKept
  <2> QED BY <2>1, <2>2 DEF Next
<1> QED BY <1>1, <1>2, PTL DEF Spec

\* For any number of goroutines, MessageCount is the number of handlers started and
\* about to be, while callers leave the records alone that they were given.
THEOREM CountsAreExact == Spec => []CountMatchesDeliveries
<1>1. CountingInv => CountMatchesDeliveries
  BY DEF CountingInv
<1> QED BY <1>1, CountingInvHolds, PTL

\* Under the same conditions: records stay, and a count moves up by one or not at all.
THEOREM HistoryAlwaysKept == Spec => HistoryIsKept
<1> DEFINE Kept == /\ subscriptions \subseteq subscriptions'
                   /\ \A t \in Topics : messageCount'[t] \in {messageCount[t], messageCount[t] + 1}
<1>1. CountingInv /\ [Next]_vars => [Kept]_vars
  <2> SUFFICES ASSUME CountingInv, Next
               PROVE  Kept
    OBVIOUS
  <2> USE DEF CountingInv
  <2>2. ASSUME NEW p \in Procs, Start(p) \/ Acquire(p) \/ Proceed(p)
        PROVE  Kept
    <3>1. subscriptions \subseteq subscriptions'
      BY <2>2, TableGrows
    <3>2. CASE CountStore(p)
      BY <3>1, <3>2, CountStoreStep DEF TypeInv, TypeOK
    <3>3. CASE ~CountStore(p)
      <4>1. UNCHANGED messageCount
        BY <2>2, <3>3, OthersAreQuiet, InvokeStep DEF QuietStep
      <4> QED BY <3>1, <4>1
    <3> QED BY <3>2, <3>3
  <2> QED BY <2>2 DEF Next
<1> QED BY <1>1, CountingInvHolds, PTL DEF Spec, HistoryIsKept

-----------------------------------------------------------------------------
(* What is called is a handler, even when callers write to the records they *)
(* were given: what a call has read under the read lock is its own.          *)

\* A message was accepted by call c at label l, and its handler is yet to be called.
Underway(l, c) == c.op = "Handle" /\ l \in {"lock", "drain", "first", "second", "unlock", "invoke"}

HandlerInv == \A p \in Procs : Underway(pc[p], call[p]) => call[p].handler \in Handlers

LEMMA HandlerKept ==
    ASSUME TypeInv, CallInv, HandlerInv, NEW p \in Procs, Start(p) \/ Acquire(p) \/ Proceed(p)
    PROVE  HandlerInv'
<1>1. ASSUME NEW q \in Procs, q # p, Underway(pc'[q], call'[q])
      PROVE  call'[q].handler \in Handlers
  BY <1>1, Frame DEF HandlerInv
<1>2. Underway(pc'[p], call'[p]) => call'[p].handler \in Handlers
  <2>1. /\ call[p] \in Call /\ CallOK(subscriptions, pc[p], call[p])
        /\ Underway(pc[p], call[p]) => call[p].handler \in Handlers
    BY DEF TypeInv, TypeOK, CallInv, HandlerInv
  <2>2. CASE Start(p)
    <3>1. PICK q \in Atomic!Requests : Begins(p, q)
      BY <2>2, StartsWithRequest
    <3>2. PICK l \in {"lock", "rlock", "return"}, c \in Call : Begins(p, q)!(l, c)
      BY <3>1 DEF Begins
    <3>3. pc'[p] = l /\ call'[p] = c
      BY <3>2 DEF Begin, GoTo, TypeInv, TypeOK
    <3> QED BY <3>2, <3>3 DEF Underway
  <2> USE DEF GoTo, Finish, RUnlock, At, TypeInv, TypeOK, Call, Underway
  <2>3. CASE Acquire(p)
    BY <2>1, <2>3 DEF Acquire, AnnounceLock, AcquireLock, AcquireRLock
  <2>4. CASE Unlock(p) \/ Return(p)
    BY <2>1, <2>4 DEF Unlock, Return, NewCall
  <2>5. CASE SubscribeRecord(p) \/ SubscribeHandler(p)
    BY <2>1, <2>5 DEF SubscribeRecord, SubscribeHandler
  <2>6. CASE UnsubscribeUnknown(p) \/ UnsubscribeRecord(p) \/ UnsubscribeHandler(p)
    BY <2>1, <2>6 DEF UnsubscribeUnknown, UnsubscribeRecord, UnsubscribeHandler
  <2>7. CASE CreateRecord(p) \/ CloseRecord(p) \/ CloseHandlers(p)
    BY <2>1, <2>7 DEF CreateRecord, CloseRecord, CloseHandlers
  <2>8. CASE HandleRead(p) \/ HandleIgnore(p) \/ HandleNoHandler(p)
    BY <2>1, <2>8 DEF HandleRead, HandleIgnore, HandleNoHandler
  <2>9. CASE HandleAccept(p)
    BY <2>1, <2>9 DEF HandleAccept
  <2>10. CASE CountLoad(p) \/ CountStore(p)
    BY <2>1, <2>10 DEF CountLoad, CountStore
  <2>11. CASE Invoke(p) \/ HandlerReturns(p)
    BY <2>1, <2>11 DEF Invoke, HandlerReturns
  <2>12. CASE GetRead(p) \/ GetDone(p)
    BY <2>1, <2>12 DEF GetRead, GetDone
  <2> QED BY <2>2, <2>3, <2>4, <2>5, <2>6, <2>7, <2>8, <2>9, <2>10, <2>11, <2>12 DEF Proceed
<1> QED BY <1>1, <1>2 DEF HandlerInv

\* For any number of goroutines and of writes from outside, no nil handler is called.
THEOREM NoNilHandlerIsCalled == AliasSpec => []OnlyHandlersAreCalled
<1> DEFINE Inv == TypeInv /\ CallInv /\ HandlerInv
<1>1. Init => Inv
  <2> SUFFICES ASSUME Init
               PROVE  Inv
    OBVIOUS
  <2>1. TypeInv
    BY NewCallType DEF Init, TypeInv, TypeOK, ArgsOK, Ops, Labels
  <2> QED BY <2>1 DEF Init, CallInv, CallOK, HandlerInv, Underway, NewCall
<1>2. Inv /\ [AliasNext]_vars => Inv'
  <2> SUFFICES ASSUME Inv, [AliasNext]_vars
               PROVE  Inv'
    OBVIOUS
  <2>1. CASE UNCHANGED vars
    BY <2>1 DEF vars, manager, mutex, TypeInv, TypeOK, ArgsOK, CallInv, HandlerInv
  <2>2. ASSUME NEW p \in Procs, Start(p) \/ Acquire(p) \/ Proceed(p)
        PROVE  Inv'
    <3>1. TypeInv'
      BY <2>2, StartType, LockType, WriteType, HandleType, GetType DEF Proceed
    <3> QED BY <2>2, <3>1, CallStep, HandlerKept
  <2>3. ASSUME NEW t \in Topics, AliasWrite(t)
        PROVE  Inv'
    <3>1. UNCHANGED <<subscriptions, handlers, mutex, pc, call, nested, delivered>>
      BY <2>3 DEF AliasWrite
    <3>2. CallInv' /\ HandlerInv'
      BY <3>1 DEF CallInv, HandlerInv
    <3>3. isActive' \in [Topics -> BOOLEAN] /\ messageCount' \in [Topics -> Nat]
      BY <2>3, MaxMessagesNat DEF AliasWrite, TypeInv, TypeOK
    <3>4. TypeInv'
      BY <3>1, <3>3 DEF TypeInv, TypeOK, ArgsOK, mutex
    <3> QED BY <3>2, <3>4
  <2> QED BY <2>1, <2>2, <2>3 DEF AliasNext, Next
<1>3. Inv => OnlyHandlersAreCalled
  BY DEF HandlerInv, Underway, OnlyHandlersAreCalled, At
<1> QED BY <1>1, <1>2, <1>3, PTL DEF AliasSpec

-----------------------------------------------------------------------------
(* The getters.                                                             *)

SnapInv ==
    /\ \A p \in Procs : At(p, "read", "Get") => call[p].todo \subseteq call[p].want \cap subscriptions
    /\ GettersAreSnapshots

Tables == <<subscriptions, isActive, messageCount>>

\* Nobody writes the tables while a getter or HandleTopicMessage reads them.
LEMMA ReadersFreeze ==
    ASSUME TypeInv, LockInv, NEW p \in Procs, Start(p) \/ Acquire(p) \/ Proceed(p),
           NEW q \in Procs, pc[q] = "read"
    PROVE  UNCHANGED Tables
<1>1. pc[p] \notin {"first", "second", "unlock"}
  BY DEF LockInv
<1> USE DEF Tables, manager, At, Finish, GoTo, RUnlock
<1>2. CASE Start(p)
  BY <1>2, CallStart
<1>3. CASE Acquire(p)
  BY <1>3 DEF Acquire, AnnounceLock, AcquireLock, AcquireRLock
<1>4. CASE Proceed(p)
  BY <1>1, <1>4 DEF Proceed, Unlock, Return, SubscribeRecord, SubscribeHandler, UnsubscribeUnknown,
              UnsubscribeRecord, UnsubscribeHandler, CreateRecord, CloseRecord, CloseHandlers,
              HandleRead, HandleIgnore, HandleNoHandler, HandleAccept, CountLoad, CountStore,
              Invoke, HandlerReturns, GetRead, GetDone
<1> QED BY <1>2, <1>3, <1>4

\* The label "read" is only reached from "rlock", or kept by a getter's loop.
LEMMA ReadEntered ==
    ASSUME TypeInv, NEW p \in Procs, Start(p) \/ Acquire(p) \/ Proceed(p), At(p, "read", "Get")'
    PROVE  AcquireRLock(p) \/ GetRead(p)
<1> USE DEF At, Finish, GoTo, RUnlock, TypeInv, TypeOK
<1>1. CASE Start(p)
  BY <1>1, CallStart
<1>2. CASE Acquire(p)
  BY <1>2 DEF Acquire, AnnounceLock, AcquireLock
<1>3. CASE Proceed(p)
  BY <1>3 DEF Proceed, Unlock, Return, SubscribeRecord, SubscribeHandler, UnsubscribeUnknown,
              UnsubscribeRecord, UnsubscribeHandler, CreateRecord, CloseRecord, CloseHandlers,
              HandleRead, HandleIgnore, HandleNoHandler, HandleAccept, CountLoad, CountStore,
              Invoke, HandlerReturns, GetDone
<1> QED BY <1>1, <1>2, <1>3

LEMMA SnapKept ==
    ASSUME TypeInv, LockInv, CallInv, SnapInv, NEW p \in Procs,
           Start(p) \/ Acquire(p) \/ Proceed(p)
    PROVE  SnapInv'
<1> DEFINE Snap(q) == At(q, "read", "Get") =>
             /\ call[q].todo \subseteq call[q].want \cap subscriptions
             /\ call[q].copies = {CopyOf(t) : t \in (call[q].want \cap subscriptions) \ call[q].todo}
<1>1. \A q \in Procs : Snap(q)
  BY DEF SnapInv, GettersAreSnapshots
<1>2. SUFFICES ASSUME NEW q \in Procs, At(q, "read", "Get")'
               PROVE  Snap(q)'
  BY DEF SnapInv, GettersAreSnapshots
<1>3. call[q] \in Call
  BY DEF TypeInv, TypeOK
<1>4. CASE q # p
  <2>1. pc'[q] = pc[q] /\ call'[q] = call[q]
    BY <1>4, Frame
  <2>2. UNCHANGED Tables
    BY <1>2, <2>1, ReadersFreeze DEF At
  <2>3. \A t \in Topics : CopyOf(t)' = CopyOf(t)
    BY <2>2 DEF CopyOf, Tables
  <2>4. call[q].want \subseteq Topics
    BY <1>3 DEF Call
  <2>5. Snap(q) /\ At(q, "read", "Get") /\ subscriptions' = subscriptions
    BY <1>1, <1>2, <2>1, <2>2 DEF At, Tables
  <2> QED BY <2>1, <2>3, <2>4, <2>5 DEF At
<1>5. CASE q = p /\ AcquireRLock(p)
  <2>1. CallOK(subscriptions, pc[p], call[p])
    BY DEF CallInv
  <2>2. /\ call'[p].copies = {} /\ UNCHANGED subscriptions
        /\ call'[p].want = call[p].want
        /\ call'[p].todo = call[p].want \cap subscriptions
    BY <1>3, <1>5, <2>1 DEF AcquireRLock, CallOK, Call, TypeInv, TypeOK, manager
  <2> QED BY <1>5, <2>2
<1>6. CASE q = p /\ GetRead(p)
  <2>1. PICK t \in call[p].todo :
           call' = [call EXCEPT ![p].copies = @ \cup {CopyOf(t)}, ![p].todo = @ \ {t}]
    BY <1>6 DEF GetRead
  <2>2. /\ call'[p].copies = call[p].copies \cup {CopyOf(t)}
        /\ call'[p].todo = call[p].todo \ {t}
        /\ call'[p].want = call[p].want
        /\ UNCHANGED Tables /\ At(p, "read", "Get")
    BY <1>3, <1>6, <2>1 DEF GetRead, Call, Tables, TypeInv, TypeOK, manager
  <2>3. call[p].want \subseteq Topics
    BY <1>3, <1>6 DEF Call
  <2>4. \A u \in Topics : CopyOf(u)' = CopyOf(u)
    BY <2>2 DEF CopyOf, Tables
  <2>5. /\ call[p].todo \subseteq call[p].want \cap subscriptions
        /\ call[p].copies = {CopyOf(u) : u \in (call[p].want \cap subscriptions) \ call[p].todo}
    BY <1>1, <2>2
  <2>6. call'[p].copies = {CopyOf(u) : u \in (call[p].want \cap subscriptions) \ (call[p].todo \ {t})}
    BY <2>1, <2>2, <2>5
  <2>7. call'[p].todo \subseteq call'[p].want \cap subscriptions'
    BY <2>2, <2>5 DEF Tables
  <2> QED BY <1>6, <2>2, <2>3, <2>4, <2>6, <2>7 DEF Tables
<1> QED BY <1>2, <1>4, <1>5, <1>6, ReadEntered

FullInv == TypeInv /\ SafetyInv /\ CallInv /\ CountInv /\ SnapInv

\* Everything that is known about the manager alone, without writers from outside.
LEMMA FullInvHolds == Spec => []FullInv
<1>1. Init => SnapInv
  BY DEF Init, SnapInv, GettersAreSnapshots, At
<1>2. CountingInv /\ SafetyInv /\ SnapInv /\ [Next]_vars => SnapInv'
  <2> SUFFICES ASSUME CountingInv, SafetyInv, SnapInv, [Next]_vars
               PROVE  SnapInv'
    OBVIOUS
  <2>1. CASE UNCHANGED vars
    BY <2>1 DEF vars, manager, SnapInv, GettersAreSnapshots, At, CopyOf
  <2>2. CASE Next
    BY <2>2, SnapKept DEF Next, CountingInv
  <2> QED BY <2>1, <2>2
<1>4. CountingInv /\ SafetyInv /\ SnapInv => FullInv
  BY DEF CountingInv, FullInv
<1> QED BY <1>1, <1>2, <1>4, Safety, CountingInvHolds, PTL DEF Spec

\* For any number of goroutines: what a getter has copied so far is the table as it is.
THEOREM GettersSeeOneState == Spec => []GettersAreSnapshots
<1>1. FullInv => GettersAreSnapshots
  BY DEF FullInv, SnapInv
<1> QED BY <1>1, FullInvHolds, PTL

-----------------------------------------------------------------------------
(* The refinement.  First, what a step shows of the goroutine that makes it. *)

Requested == [op : Ops, topic : Topics \cup {EmptyTopic}, handler : Handlers \cup {NoHandler},
              want : SUBSET Topics]
Answered  == [ret : Results, copies : SUBSET Copy]

LEMMA RequestSetHandler ==
    ASSUME NEW q \in Requested, NEW h \in Handlers \cup {NoHandler}
    PROVE  [q EXCEPT !.handler = h] = [op |-> q.op, topic |-> q.topic, handler |-> h, want |-> q.want]
<1> DEFINE x == [q EXCEPT !.handler = h]
<1>1. x \in Requested /\ x.op = q.op /\ x.topic = q.topic /\ x.handler = h /\ x.want = q.want
  BY DEF Requested
<1> HIDE DEF x
<1> QED BY <1>1 DEF Requested

LEMMA AnswerSetRet ==
    ASSUME NEW a \in Answered, NEW r \in Results
    PROVE  [a EXCEPT !.ret = r] = [ret |-> r, copies |-> a.copies]
<1> DEFINE x == [a EXCEPT !.ret = r]
<1>1. x \in Answered /\ x.ret = r /\ x.copies = a.copies
  BY DEF Answered
<1> HIDE DEF x
<1> QED BY <1>1 DEF Answered

LEMMA Shown ==
    ASSUME NEW l, NEW c \in Call
    PROVE  RequestOf(c) \in Requested /\ AnswerOf(l, c) \in Answered
BY DEF RequestOf, AnswerOf, Requested, Answered, Call, Results

LEMMA View ==
    ASSUME TypeInv, NEW p \in Procs,
           \A q \in Procs \ {p} : pc'[q] = pc[q] /\ call'[q] = call[q]
    PROVE  /\ absStage[p] = StageOf(pc[p], call[p])
           /\ absRequest[p] = RequestOf(call[p])
           /\ absAnswer[p] = AnswerOf(pc[p], call[p])
           /\ absStage' = [absStage EXCEPT ![p] = StageOf(pc'[p], call'[p])]
           /\ absRequest' = [absRequest EXCEPT ![p] = RequestOf(call'[p])]
           /\ absAnswer' = [absAnswer EXCEPT ![p] = AnswerOf(pc'[p], call'[p])]
<1>1. absStage' = [absStage EXCEPT ![p] = StageOf(pc'[p], call'[p])]
  BY DEF absStage
<1>2. absRequest' = [absRequest EXCEPT ![p] = RequestOf(call'[p])]
  BY DEF absRequest
<1>3. absAnswer' = [absAnswer EXCEPT ![p] = AnswerOf(pc'[p], call'[p])]
  BY DEF absAnswer
<1> QED BY <1>1, <1>2, <1>3 DEF absStage, absRequest, absAnswer

LEMMA ViewAnswer ==
    ASSUME TypeInv, NEW p \in Procs, NEW r \in Results,
           \A q \in Procs \ {p} : pc'[q] = pc[q] /\ call'[q] = call[q],
           AnswerOf(pc'[p], call'[p]) = [ret |-> r, copies |-> AnswerOf(pc[p], call[p]).copies]
    PROVE  Atomic!Answer(p, r)
<1>1. call[p] \in Call
  BY DEF TypeInv, TypeOK
<1>2. absAnswer[p] \in Answered
  BY <1>1, Shown, View
<1>3. [absAnswer[p] EXCEPT !.ret = r] = AnswerOf(pc'[p], call'[p])
  BY <1>2, AnswerSetRet, View
<1> QED BY <1>3, View DEF Atomic!Answer

\* The step shows nothing of its goroutine.
LEMMA ViewSame ==
    ASSUME TypeInv, NEW p \in Procs,
           \A q \in Procs \ {p} : pc'[q] = pc[q] /\ call'[q] = call[q],
           StageOf(pc'[p], call'[p]) = StageOf(pc[p], call[p]),
           RequestOf(call'[p]) = RequestOf(call[p]),
           AnswerOf(pc'[p], call'[p]) = AnswerOf(pc[p], call[p])
    PROVE  UNCHANGED <<absStage, absRequest, absAnswer>>
BY View DEF absStage, absRequest, absAnswer

-----------------------------------------------------------------------------
(* What it shows of the tables.                                             *)

\* The holder of the lock shows writes that it has yet to make.
Ahead(p) ==
    \/ At(p, "first", "Close")
    \/ pc[p] = "second" /\ call[p].op \in {"Subscribe", "Unsubscribe"}

LEMMA SameTables ==
    ASSUME LockInv, LockInv', NEW p \in Procs, UNCHANGED <<isActive, handlers>>,
           \A q \in Procs \ {p} : pc'[q] = pc[q] /\ call'[q] = call[q],
           ~Ahead(p), ~Ahead(p)', writer \in Procs \cup {NoProc}, writer' \in Procs \cup {NoProc}
    PROVE  UNCHANGED <<absIsActive, absHandlers>>
<1> USE Distinct DEF Ahead, At, LockInv
<1>1. ASSUME NEW q \in Procs, q # p
      PROVE  pc[q] \in {"first", "second"} => writer = q /\ writer' = q
  BY <1>1
<1>2. CASE \E q \in Procs \ {p} : pc[q] \in {"first", "second"}
  <2>1. writer \in Procs \ {p} /\ writer' = writer
    BY <1>1, <1>2
  <2>2. pc'[writer] = pc[writer] /\ call'[writer] = call[writer]
    BY <2>1
  <2> QED BY <2>1, <2>2 DEF absIsActive, absHandlers, Closing, Pending
<1>3. CASE ~\E q \in Procs \ {p} : pc[q] \in {"first", "second"}
  <2>1. ~Closing /\ ~Closing'
    BY <1>3 DEF Closing
  <2>2. \A t \in Topics : ~Pending(t) /\ ~Pending(t)'
    BY <1>3 DEF Pending
  <2> QED BY <2>1, <2>2 DEF absIsActive, absHandlers
<1> QED BY <1>2, <1>3

\* A reader sees the tables as they are shown.
LEMMA ReadersSee ==
    ASSUME TypeInv, LockInv, NEW p \in Procs, pc[p] \in {"read", "runlock"}
    PROVE  absIsActive = isActive /\ absHandlers = handlers
<1>1. \A q \in Procs : pc[q] \notin {"first", "second"}
  BY DEF LockInv
<1>2. ~Closing /\ \A t \in Topics : ~Pending(t)
  BY <1>1 DEF Closing, Pending, At, TypeInv, TypeOK
<1> QED BY <1>2 DEF absIsActive, absHandlers, TypeInv, TypeOK

-----------------------------------------------------------------------------
(* The steps that Subscriptions does not see.                               *)

LEMMA Silent ==
    ASSUME FullInv, FullInv', NEW p \in Procs, Start(p) \/ Acquire(p) \/ Proceed(p),
           UNCHANGED <<manager, nested, delivered>>, ~Ahead(p), ~Ahead(p)',
           StageOf(pc'[p], call'[p]) = StageOf(pc[p], call[p]),
           RequestOf(call'[p]) = RequestOf(call[p]),
           AnswerOf(pc'[p], call'[p]) = AnswerOf(pc[p], call[p])
    PROVE  UNCHANGED Atomic!vars
<1>1. \A q \in Procs \ {p} : pc'[q] = pc[q] /\ call'[q] = call[q]
  BY Frame DEF FullInv
<1>2. UNCHANGED <<absStage, absRequest, absAnswer>>
  BY <1>1, ViewSame DEF FullInv
<1>3. UNCHANGED <<isActive, handlers, subscriptions, messageCount>>
  BY DEF manager
<1>4. writer \in Procs \cup {NoProc} /\ writer' \in Procs \cup {NoProc}
  BY DEF FullInv, TypeInv, TypeOK
<1>5. UNCHANGED <<absIsActive, absHandlers>>
  BY <1>1, <1>3, <1>4, SameTables DEF FullInv, SafetyInv
<1> QED BY <1>2, <1>3, <1>5 DEF Atomic!vars, Atomic!tables

LEMMA SilentSteps ==
    ASSUME FullInv, FullInv', NEW p \in Procs,
           \/ AnnounceLock(p)
           \/ AcquireLock(p) /\ call[p].op # "Close"
           \/ Unlock(p)
           \/ AcquireRLock(p)
           \/ HandleIgnore(p) \/ HandleNoHandler(p) \/ HandleAccept(p)
           \/ CountLoad(p)
           \/ GetRead(p)
    PROVE  UNCHANGED Atomic!vars
<1>0. /\ call[p] \in Call /\ CallOK(subscriptions, pc[p], call[p])
      /\ call \in [Procs -> Call] /\ pc \in [Procs -> Labels]
  BY DEF FullInv, TypeInv, TypeOK, CallInv
<1> USE DEF GoTo, Finish, RUnlock, At, Ahead, manager, StageOf, RequestOf, AnswerOf, Accepted
<1>1. CASE AnnounceLock(p)
  BY <1>0, <1>1, Silent DEF AnnounceLock, Acquire
<1>2. CASE AcquireLock(p) /\ call[p].op # "Close"
  <2>1. /\ pc[p] = "drain" /\ pc'[p] = "first" /\ UNCHANGED <<manager, nested, delivered>>
        /\ call'[p].op = call[p].op /\ call'[p].topic = call[p].topic
        /\ call'[p].handler = call[p].handler /\ call'[p].want = call[p].want
        /\ call'[p].live = call[p].live
        /\ call'[p].ret = call[p].ret /\ call'[p].copies = call[p].copies
    BY <1>0, <1>2 DEF AcquireLock, Call
  <2> QED BY <1>2, <2>1, Silent DEF Acquire
<1>3. CASE Unlock(p)
  BY <1>0, <1>3, Silent DEF Unlock, Proceed, CallOK
<1>4. CASE AcquireRLock(p)
  <2>1. /\ pc[p] = "rlock" /\ pc'[p] = "read" /\ UNCHANGED <<manager, nested, delivered>>
        /\ call'[p].op = call[p].op /\ call'[p].topic = call[p].topic
        /\ call'[p].handler = call[p].handler /\ call'[p].want = call[p].want
        /\ call'[p].live = call[p].live
        /\ call'[p].ret = call[p].ret /\ call'[p].copies = call[p].copies
    BY <1>0, <1>4 DEF AcquireRLock, Call
  <2> QED BY <1>4, <2>1, Silent DEF Acquire
<1>5. CASE HandleIgnore(p)
  <2>1. /\ pc[p] = "runlock" /\ pc'[p] = "return" /\ UNCHANGED <<manager, nested, delivered>>
        /\ call[p].op = "Handle" /\ ~call[p].live
        /\ call[p].ret = "none" /\ call'[p].ret = "ok"
        /\ call'[p].op = call[p].op /\ call'[p].topic = call[p].topic
        /\ call'[p].handler = call[p].handler /\ call'[p].want = call[p].want
        /\ call'[p].copies = call[p].copies
    BY <1>0, <1>5 DEF HandleIgnore, Call, CallOK
  <2> QED BY <1>5, <2>1, Silent DEF Proceed
<1>6. CASE HandleNoHandler(p)
  BY <1>6 DEF HandleNoHandler, FullInv, SafetyInv, ReadInv
<1>7. CASE HandleAccept(p)
  BY <1>0, <1>7, Silent DEF HandleAccept, Proceed
<1>8. CASE CountLoad(p)
  <2>1. /\ pc[p] = "first" /\ pc'[p] = "second" /\ UNCHANGED <<manager, nested, delivered>>
        /\ call[p].op = "Handle"
        /\ call'[p].op = call[p].op /\ call'[p].topic = call[p].topic
        /\ call'[p].handler = call[p].handler /\ call'[p].want = call[p].want
        /\ call'[p].live = call[p].live
        /\ call'[p].ret = call[p].ret /\ call'[p].copies = call[p].copies
    BY <1>0, <1>8 DEF CountLoad, Call
  <2> QED BY <1>8, <2>1, Silent DEF Proceed
<1>9. CASE GetRead(p)
  <2>1. /\ pc[p] = "read" /\ pc' = pc /\ UNCHANGED <<manager, nested, delivered>>
        /\ \E t \in call[p].todo :
             call' = [call EXCEPT ![p].copies = @ \cup {CopyOf(t)}, ![p].todo = @ \ {t}]
    BY <1>9 DEF GetRead
  <2>2. /\ call'[p].op = call[p].op /\ call'[p].topic = call[p].topic
        /\ call'[p].handler = call[p].handler /\ call'[p].want = call[p].want
        /\ call'[p].live = call[p].live
        /\ call'[p].ret = call[p].ret
    BY ONLY p \in Procs, <1>0, <2>1 DEF Call
  <2> QED BY <1>9, <2>1, <2>2, Silent DEF Proceed
<1> QED BY <1>1, <1>2, <1>3, <1>4, <1>5, <1>6, <1>7, <1>8, <1>9

\* The holder of the lock writes what Subscriptions shows already.
LEMMA SilentWrites ==
    ASSUME FullInv, FullInv', NEW p \in Procs,
           SubscribeHandler(p) \/ UnsubscribeHandler(p) \/ CloseRecord(p) \/ CloseHandlers(p)
    PROVE  UNCHANGED Atomic!vars
<1>0. /\ call[p] \in Call /\ CallOK(subscriptions, pc[p], call[p])
      /\ call \in [Procs -> Call] /\ pc \in [Procs -> Labels]
      /\ isActive \in [Topics -> BOOLEAN] /\ handlers \in [Topics -> Handlers \cup {NoHandler}]
  BY DEF FullInv, TypeInv, TypeOK, CallInv
<1>1. \A q \in Procs \ {p} : pc'[q] = pc[q] /\ call'[q] = call[q]
  BY Frame DEF FullInv, Proceed
<1>2. /\ writer = p /\ writer' = p /\ writer # NoProc
      /\ UNCHANGED <<subscriptions, messageCount, nested, delivered>>
  <2>1. writer = p
    BY DEF FullInv, SafetyInv, LockInv, SubscribeHandler, UnsubscribeHandler, CloseRecord,
           CloseHandlers, At
  <2> QED BY <2>1, Distinct DEF SubscribeHandler, UnsubscribeHandler, CloseRecord, CloseHandlers, mutex
<1>3. /\ StageOf(pc'[p], call'[p]) = StageOf(pc[p], call[p])
      /\ RequestOf(call'[p]) = RequestOf(call[p])
      /\ AnswerOf(pc'[p], call'[p]) = AnswerOf(pc[p], call[p])
  <2> USE DEF GoTo, Finish, At, StageOf, RequestOf, AnswerOf, CallOK
  <2>1. CASE SubscribeHandler(p)
    BY <1>0, <2>1 DEF SubscribeHandler
  <2>2. CASE UnsubscribeHandler(p)
    BY <1>0, <2>2 DEF UnsubscribeHandler
  <2>3. CASE CloseRecord(p)
    BY <1>0, <2>3 DEF CloseRecord, Call
  <2>4. CASE CloseHandlers(p)
    BY <1>0, <2>4 DEF CloseHandlers
  <2> QED BY <2>1, <2>2, <2>3, <2>4
<1>4. UNCHANGED <<absIsActive, absHandlers>>
  <2> USE <1>2 DEF absIsActive, absHandlers, Closing, Pending, At
  <2>1. CASE SubscribeHandler(p)
    BY <1>0, <2>1 DEF SubscribeHandler, At, Finish, GoTo
  <2>2. CASE UnsubscribeHandler(p)
    <3>1. call[p].handler = NoHandler
      BY <1>0, <2>2 DEF UnsubscribeHandler, CallOK
    <3> QED BY <1>0, <2>2, <3>1 DEF UnsubscribeHandler, Finish, GoTo
  <2>3. CASE CloseRecord(p)
    <3>1. Closing /\ Closing'
      BY <1>0, <2>3 DEF CloseRecord
    <3> QED BY <3>1
  <2>4. CASE CloseHandlers(p)
    <3>1. Closing /\ ~Closing' /\ \A t \in Topics : ~Pending(t)'
      BY <1>0, <2>4 DEF CloseHandlers, Finish, GoTo
    <3>2. \A t \in Topics : ~isActive[t] /\ ~isActive'[t] /\ handlers'[t] = NoHandler
      BY <2>4 DEF CloseHandlers, FullInv, SafetyInv, TableInv
    <3> QED BY <3>1, <3>2
  <2> QED BY <2>1, <2>2, <2>3, <2>4
<1>5. UNCHANGED <<absStage, absRequest, absAnswer>>
  BY <1>1, <1>3, ViewSame DEF FullInv
<1> QED BY <1>2, <1>4, <1>5 DEF Atomic!vars, Atomic!tables

-----------------------------------------------------------------------------
(* The steps that Subscriptions sees.                                       *)

\* A step that leaves the tables alone, outside the writes of a mutator, shows the same tables.
LEMMA TablesStand ==
    ASSUME FullInv, FullInv', NEW p \in Procs, Start(p) \/ Acquire(p) \/ Proceed(p),
           UNCHANGED manager, ~Ahead(p), ~Ahead(p)'
    PROVE  UNCHANGED Atomic!tables
<1>1. \A q \in Procs \ {p} : pc'[q] = pc[q] /\ call'[q] = call[q]
  BY Frame DEF FullInv
<1>2. writer \in Procs \cup {NoProc} /\ writer' \in Procs \cup {NoProc}
  BY DEF FullInv, TypeInv, TypeOK
<1>3. UNCHANGED <<absIsActive, absHandlers>>
  BY <1>1, <1>2, SameTables DEF FullInv, SafetyInv, manager
<1> QED BY <1>3 DEF Atomic!tables, manager

LEMMA RequestsTyped ==
    ASSUME NEW q \in Atomic!Requests
    PROVE  /\ q \in Requested
           /\ q = [op |-> q.op, topic |-> q.topic, handler |-> q.handler, want |-> q.want]
           /\ Atomic!Refusal(q) \in Results
<1>1. q \in Requested
  BY DEF Atomic!Requests, Atomic!NoRequest, Requested, Ops
<1>2. q = [op |-> q.op, topic |-> q.topic, handler |-> q.handler, want |-> q.want]
  BY <1>1 DEF Requested
<1>3. Atomic!Refusal(q) \in Results
  BY DEF Atomic!Refusal, Results
<1> QED BY <1>1, <1>2, <1>3

LEMMA StartMaps ==
    ASSUME FullInv, FullInv', NEW p \in Procs, Start(p)
    PROVE  \E q \in Atomic!Requests : Atomic!Request(p, q)
<1>1. PICK q \in Atomic!Requests : Begins(p, q)
  BY StartsWithRequest
<1>2. PICK l \in {"lock", "rlock", "return"}, c \in Call : Begins(p, q)!(l, c)
  BY <1>1 DEF Begins
<1>3. /\ pc'[p] = l /\ call'[p] = c
      /\ pc[p] = "idle" \/ (pc[p] = "handling" /\ ~nested[p])
      /\ nested' = [nested EXCEPT ![p] = (pc[p] = "handling")]
      /\ UNCHANGED <<manager, delivered>>
  BY <1>2 DEF Begin, GoTo, FullInv, TypeInv, TypeOK
<1>4. UNCHANGED <<Atomic!tables, delivered>>
  BY <1>3, TablesStand DEF Ahead, At
<1>5. \A r \in Procs \ {p} : pc'[r] = pc[r] /\ call'[r] = call[r]
  BY Frame DEF FullInv
<1>6. absStage[p] = pc[p]
  BY <1>3, <1>5, View DEF FullInv, StageOf
<1>7. CASE c.ret = "none"
  <2>1. RequestOf(c) = q
    BY <1>2, <1>7, RequestsTyped DEF RequestOf
  <2>2. StageOf(l, c) = "called"
    BY <1>2, <1>7 DEF StageOf
  <2>3. AnswerOf(l, c) = Atomic!NoAnswer
    BY <1>7, <2>2 DEF AnswerOf, Atomic!NoAnswer
  <2>4. /\ absRequest' = [absRequest EXCEPT ![p] = q]
        /\ absAnswer' = [absAnswer EXCEPT ![p] = Atomic!NoAnswer]
        /\ Atomic!Advance(p, "called")
    BY <1>3, <1>5, <2>1, <2>2, <2>3, View DEF FullInv, Atomic!Advance
  <2> QED BY <1>2, <1>3, <1>4, <1>6, <1>7, <2>4 DEF Atomic!Request
<1>8. CASE c.ret # "none"
  <2>1. RequestOf(c) = Atomic!NoRequest(q.op)
    BY <1>2, <1>8 DEF RequestOf, Atomic!NoRequest
  <2>2. StageOf(l, c) = "answered"
    BY <1>2, <1>8 DEF StageOf
  <2>3. Atomic!NoAnswer \in Answered /\ Atomic!NoAnswer.copies = {}
    BY DEF Atomic!NoAnswer, Answered, Results
  <2>4. [Atomic!NoAnswer EXCEPT !.ret = Atomic!Refusal(q)] = [ret |-> c.ret, copies |-> {}]
    BY <1>2, <2>3, RequestsTyped, AnswerSetRet
  <2>5. AnswerOf(l, c) = [Atomic!NoAnswer EXCEPT !.ret = Atomic!Refusal(q)]
    BY <1>2, <1>8, <2>2, <2>4 DEF AnswerOf
  <2>6. /\ absRequest' = [absRequest EXCEPT ![p] = Atomic!NoRequest(q.op)]
        /\ absAnswer' = [absAnswer EXCEPT ![p] = [Atomic!NoAnswer EXCEPT !.ret = Atomic!Refusal(q)]]
        /\ Atomic!Advance(p, "answered")
    BY <1>3, <1>5, <2>1, <2>2, <2>5, View DEF FullInv, Atomic!Advance
  <2> QED BY <1>2, <1>3, <1>4, <1>6, <1>8, <2>6 DEF Atomic!Request
<1> QED BY <1>7, <1>8

LEMMA ReturnMaps ==
    ASSUME FullInv, FullInv', NEW p \in Procs, Return(p)
    PROVE  Atomic!Return(p)
<1>1. \A r \in Procs \ {p} : pc'[r] = pc[r] /\ call'[r] = call[r]
  BY Frame DEF FullInv, Proceed
<1> DEFINE o == IF nested[p] THEN "Handle" ELSE "None"
<1>2. /\ pc[p] = "return" /\ pc'[p] = IF nested[p] THEN "resumed" ELSE "idle"
      /\ call'[p] = NewCall(o, EmptyTopic, NoHandler)
      /\ nested' = [nested EXCEPT ![p] = FALSE]
      /\ UNCHANGED <<manager, delivered>>
  BY DEF Return, GoTo, FullInv, TypeInv, TypeOK
<1>3. UNCHANGED <<Atomic!tables, delivered>>
  BY <1>2, TablesStand DEF Ahead, At, Proceed
<1>4. absStage[p] = "answered"
  BY <1>1, <1>2, View DEF FullInv, StageOf
<1>5. StageOf(pc'[p], call'[p]) = IF nested[p] THEN "resumed" ELSE "idle"
  BY <1>2 DEF StageOf
<1>6. RequestOf(call'[p]) = Atomic!NoRequest(o)
  BY <1>2 DEF RequestOf, NewCall, Atomic!NoRequest
<1>7. AnswerOf(pc'[p], call'[p]) = Atomic!NoAnswer
  BY <1>2, <1>5 DEF AnswerOf, NewCall, Atomic!NoAnswer
<1> HIDE DEF o
<1>8. /\ absRequest' = [absRequest EXCEPT ![p] = Atomic!NoRequest(o)]
      /\ absAnswer' = [absAnswer EXCEPT ![p] = Atomic!NoAnswer]
      /\ Atomic!Advance(p, IF nested[p] THEN "resumed" ELSE "idle")
  BY <1>1, <1>5, <1>6, <1>7, View DEF FullInv, Atomic!Advance
<1> QED BY <1>2, <1>3, <1>4, <1>8 DEF Atomic!Return, o

\* A step of p that keeps its request, answers r and shows stage "answered".
LEMMA Answers ==
    ASSUME FullInv, NEW p \in Procs, NEW r \in Results, Acquire(p) \/ Proceed(p),
           StageOf(pc'[p], call'[p]) = "answered",
           RequestOf(call'[p]) = RequestOf(call[p]),
           AnswerOf(pc'[p], call'[p]) = [ret |-> r, copies |-> AnswerOf(pc[p], call[p]).copies]
    PROVE  /\ Atomic!Answer(p, r) /\ Atomic!Advance(p, "answered") /\ UNCHANGED absRequest
           /\ absStage[p] = StageOf(pc[p], call[p])
           /\ absRequest[p] = RequestOf(call[p])
<1>1. \A q \in Procs \ {p} : pc'[q] = pc[q] /\ call'[q] = call[q]
  BY Frame DEF FullInv
<1> QED BY <1>1, View, ViewAnswer DEF FullInv, Atomic!Advance, absRequest

\* A step of p that shows stage s, the same request and the same answer.
LEMMA MovesOn ==
    ASSUME FullInv, NEW p \in Procs, Proceed(p),
           RequestOf(call'[p]) = RequestOf(call[p]),
           AnswerOf(pc'[p], call'[p]) = AnswerOf(pc[p], call[p])
    PROVE  /\ Atomic!Advance(p, StageOf(pc'[p], call'[p])) /\ UNCHANGED <<absRequest, absAnswer>>
           /\ absStage[p] = StageOf(pc[p], call[p])
           /\ absRequest[p] = RequestOf(call[p])
<1>1. \A q \in Procs \ {p} : pc'[q] = pc[q] /\ call'[q] = call[q]
  BY Frame DEF FullInv
<1> QED BY <1>1, View DEF FullInv, Atomic!Advance, absRequest, absAnswer

\* At its first write the holder of the lock shows the tables as they are.
LEMMA HolderSees ==
    ASSUME FullInv, NEW p \in Procs, pc[p] \in {"drain", "first"}, ~Ahead(p)
    PROVE  /\ writer = p /\ writer # NoProc
           /\ absIsActive = isActive /\ absHandlers = handlers
<1>1. writer = p /\ writer # NoProc
  BY Distinct DEF FullInv, SafetyInv, LockInv
<1>2. ~Closing /\ \A t \in Topics : ~Pending(t)
  BY <1>1 DEF Closing, Pending, Ahead, At
<1> QED BY <1>1, <1>2 DEF absIsActive, absHandlers, FullInv, TypeInv, TypeOK

LEMMA SubscribeMaps ==
    ASSUME FullInv, FullInv', NEW p \in Procs, SubscribeRecord(p)
    PROVE  Atomic!Subscribe(p)
<1> DEFINE t == call[p].topic
<1>1. /\ pc[p] = "first" /\ pc'[p] = "second" /\ call' = call
      /\ call[p].op = "Subscribe" /\ call[p].ret = "none" /\ t \in Topics
  BY DEF SubscribeRecord, At, GoTo, FullInv, TypeInv, TypeOK, CallInv, CallOK, ArgsOK
<1>2. /\ writer = p /\ writer # NoProc
      /\ absIsActive = isActive /\ absHandlers = handlers
  BY <1>1, HolderSees DEF Ahead, At
<1>3. /\ subscriptions' = subscriptions \cup {t} /\ isActive' = [isActive EXCEPT ![t] = TRUE]
      /\ UNCHANGED <<messageCount, handlers, writer, nested, delivered>>
  <2>1. messageCount' = messageCount
    BY <1>1 DEF SubscribeRecord, FullInv, CountInv, TypeInv, TypeOK
  <2> QED BY <2>1 DEF SubscribeRecord, mutex
<1>4. ~Closing' /\ \A u \in Topics : Pending(u)' <=> t = u
  BY <1>1, <1>2, <1>3 DEF Closing, Pending, At
<1>5. absIsActive' = [absIsActive EXCEPT ![t] = TRUE]
  BY <1>1, <1>2, <1>3, <1>4 DEF absIsActive, FullInv, TypeInv, TypeOK
<1>6. absHandlers' = [absHandlers EXCEPT ![t] = call[p].handler]
  BY <1>1, <1>2, <1>3, <1>4 DEF absHandlers, FullInv, TypeInv, TypeOK
<1>7. /\ Atomic!Answer(p, "ok") /\ Atomic!Advance(p, "answered") /\ UNCHANGED absRequest
      /\ absStage[p] = StageOf(pc[p], call[p]) /\ absRequest[p] = RequestOf(call[p])
  <2>1. CallOK(subscriptions, pc[p], call[p])
    BY DEF FullInv, CallInv
  <2> QED BY <1>1, <2>1, Answers DEF StageOf, AnswerOf, CallOK, Proceed, Results
<1>8. absStage[p] = "called" /\ absRequest[p].op = "Subscribe" /\ absRequest[p].topic = t
      /\ absRequest[p].handler = call[p].handler
  BY <1>1, <1>7 DEF StageOf, RequestOf
<1> HIDE DEF t
<1> QED BY <1>3, <1>5, <1>6, <1>7, <1>8 DEF Atomic!Subscribe, Atomic!Called

LEMMA UnsubscribeMaps ==
    ASSUME FullInv, FullInv', NEW p \in Procs, UnsubscribeUnknown(p) \/ UnsubscribeRecord(p)
    PROVE  Atomic!Unsubscribe(p)
<1> DEFINE t == call[p].topic
           r == IF t \in subscriptions THEN "ok" ELSE "errNotSubscribedToTopic"
<1>1. /\ pc[p] = "first" /\ call[p].op = "Unsubscribe" /\ t \in Topics
      /\ call[p] \in Call /\ CallOK(subscriptions, pc[p], call[p])
  BY DEF UnsubscribeUnknown, UnsubscribeRecord, At, FullInv, TypeInv, TypeOK, CallInv, ArgsOK
<1>2. /\ writer = p /\ writer # NoProc
      /\ absIsActive = isActive /\ absHandlers = handlers
  BY <1>1, HolderSees DEF Ahead, At
<1>3. /\ UNCHANGED <<subscriptions, messageCount, handlers, writer, nested, delivered>>
      /\ IF t \in subscriptions
         THEN /\ isActive' = [isActive EXCEPT ![t] = FALSE]
              /\ pc'[p] = "second" /\ call' = call
         ELSE /\ isActive' = isActive /\ pc'[p] = "unlock"
              /\ call'[p] = [call[p] EXCEPT !.ret = "errNotSubscribedToTopic"]
  BY DEF UnsubscribeUnknown, UnsubscribeRecord, mutex, manager, GoTo, Finish, FullInv, TypeInv, TypeOK
<1>4. ~Closing' /\ \A u \in Topics : Pending(u)' <=> t = u /\ t \in subscriptions
  BY <1>1, <1>2, <1>3 DEF Closing, Pending, At
<1>5. call[p].handler = NoHandler
  BY <1>1 DEF CallOK
<1>6. absIsActive' = IF t \in subscriptions THEN [absIsActive EXCEPT ![t] = FALSE] ELSE absIsActive
  BY <1>1, <1>2, <1>3, <1>4 DEF absIsActive, FullInv, TypeInv, TypeOK
<1>7. absHandlers' = IF t \in subscriptions THEN [absHandlers EXCEPT ![t] = NoHandler] ELSE absHandlers
  BY <1>1, <1>2, <1>3, <1>4, <1>5 DEF absHandlers, FullInv, TypeInv, TypeOK
<1>8. /\ Atomic!Answer(p, r) /\ Atomic!Advance(p, "answered") /\ UNCHANGED absRequest
      /\ absStage[p] = StageOf(pc[p], call[p]) /\ absRequest[p] = RequestOf(call[p])
  <2>1. /\ StageOf(pc'[p], call'[p]) = "answered" /\ RequestOf(call'[p]) = RequestOf(call[p])
        /\ AnswerOf(pc'[p], call'[p]) = [ret |-> r, copies |-> AnswerOf(pc[p], call[p]).copies]
    BY <1>1, <1>3 DEF StageOf, AnswerOf, RequestOf, CallOK, Call
  <2>2. r \in Results
    BY DEF Results
  <2> HIDE DEF r
  <2> QED BY <2>1, <2>2, Answers DEF Proceed
<1>9. absStage[p] = "called" /\ absRequest[p].op = "Unsubscribe" /\ absRequest[p].topic = t
  BY <1>1, <1>8 DEF StageOf, RequestOf
<1> HIDE DEF t
<1> QED BY <1>3, <1>6, <1>7, <1>8, <1>9 DEF Atomic!Unsubscribe, Atomic!Called

LEMMA CreateMaps ==
    ASSUME FullInv, FullInv', NEW p \in Procs, CreateRecord(p)
    PROVE  Atomic!Create(p)
<1> DEFINE t == call[p].topic
<1>1. /\ pc[p] = "first" /\ call[p].op = "Create" /\ t \in Topics
      /\ call[p] \in Call /\ CallOK(subscriptions, pc[p], call[p])
      /\ pc'[p] = "unlock" /\ call'[p] = [call[p] EXCEPT !.ret = "ok"]
  BY DEF CreateRecord, At, GoTo, Finish, FullInv, TypeInv, TypeOK, CallInv, ArgsOK
<1>2. /\ writer = p /\ writer # NoProc
      /\ absIsActive = isActive /\ absHandlers = handlers
  BY <1>1, HolderSees DEF Ahead, At
<1>3. /\ subscriptions' = subscriptions \cup {t} /\ isActive' = isActive
      /\ UNCHANGED <<messageCount, handlers, writer, nested, delivered>>
  BY <1>1 DEF CreateRecord, mutex, FullInv, CountInv, SafetyInv, TableInv, TypeInv, TypeOK
<1>4. ~Closing' /\ \A u \in Topics : ~Pending(u)'
  BY <1>1, <1>2, <1>3 DEF Closing, Pending, At
<1>5. absIsActive' = absIsActive /\ absHandlers' = absHandlers
  BY <1>2, <1>3, <1>4 DEF absIsActive, absHandlers, FullInv, TypeInv, TypeOK
<1>6. /\ Atomic!Answer(p, "ok") /\ Atomic!Advance(p, "answered") /\ UNCHANGED absRequest
      /\ absStage[p] = StageOf(pc[p], call[p]) /\ absRequest[p] = RequestOf(call[p])
  BY <1>1, Answers DEF StageOf, AnswerOf, RequestOf, CallOK, Proceed, Results, Call
<1>7. absStage[p] = "called" /\ absRequest[p].op = "Create" /\ absRequest[p].topic = t
  BY <1>1, <1>6 DEF StageOf, RequestOf
<1> HIDE DEF t
<1> QED BY <1>3, <1>5, <1>6, <1>7 DEF Atomic!Create, Atomic!Called

LEMMA CloseMaps ==
    ASSUME FullInv, FullInv', NEW p \in Procs, AcquireLock(p), call[p].op = "Close"
    PROVE  Atomic!Close(p)
<1>1. /\ pc[p] = "drain" /\ pc'[p] = "first"
      /\ call[p] \in Call /\ CallOK(subscriptions, pc[p], call[p])
      /\ call'[p] = [call[p] EXCEPT !.todo = subscriptions]
      /\ UNCHANGED <<manager, writer, nested, delivered>>
  BY DEF AcquireLock, GoTo, FullInv, TypeInv, TypeOK, CallInv, mutex
<1>2. writer = p /\ writer # NoProc
  BY <1>1, HolderSees DEF Ahead, At
<1>3. call'[p].op = "Close" /\ RequestOf(call'[p]) = RequestOf(call[p])
      /\ call'[p].ret = "none" /\ call'[p].copies = {} /\ call[p].ret = "none"
  BY <1>1 DEF RequestOf, Call, CallOK
<1>4. Closing'
  BY <1>1, <1>2, <1>3 DEF Closing, At
<1>5. absIsActive' = [t \in Topics |-> FALSE] /\ absHandlers' = [t \in Topics |-> NoHandler]
  BY <1>4 DEF absIsActive, absHandlers
<1>6. /\ Atomic!Answer(p, "ok") /\ Atomic!Advance(p, "answered") /\ UNCHANGED absRequest
      /\ absStage[p] = StageOf(pc[p], call[p]) /\ absRequest[p] = RequestOf(call[p])
  BY <1>1, <1>3, Answers DEF StageOf, AnswerOf, Acquire, Results
<1>7. absStage[p] = "called" /\ absRequest[p].op = "Close"
  BY <1>1, <1>6 DEF StageOf, RequestOf
<1> QED BY <1>1, <1>5, <1>6, <1>7 DEF Atomic!Close, Atomic!Called, manager

\* The decision of HandleTopicMessage, at its last read under the read lock.
LEMMA DecisionMaps ==
    ASSUME FullInv, FullInv', NEW p \in Procs, HandleRead(p)
    PROVE  Atomic!Ignore(p) \/ Atomic!Accept(p)
<1> DEFINE t == call[p].topic
           live == t \in subscriptions /\ isActive[t]
<1>0. call[p] \in Call /\ CallOK(subscriptions, pc[p], call[p])
  BY DEF FullInv, TypeInv, TypeOK, CallInv
<1>1. /\ pc[p] = "read" /\ pc'[p] = "runlock" /\ call[p].op = "Handle" /\ t \in Topics
      /\ UNCHANGED <<manager, nested, delivered>>
      /\ call[p].ret = "none" /\ call[p].copies = {} /\ call[p].handler = NoHandler
  BY <1>0 DEF HandleRead, At, GoTo, FullInv, TypeInv, TypeOK, CallOK, ArgsOK
<1>2. /\ call'[p].op = "Handle" /\ call'[p].topic = t /\ call'[p].want = call[p].want
      /\ call'[p].ret = "none" /\ call'[p].copies = {}
      /\ call'[p].handler = handlers[t] /\ call'[p].live = live
  BY <1>0, <1>1 DEF HandleRead, FullInv, TypeInv, TypeOK, Call
<1>3. absIsActive = isActive /\ absHandlers = handlers
  BY <1>1, ReadersSee DEF FullInv, SafetyInv
<1>4. handlers[t] # NoHandler <=> isActive[t]
  <2>1. \A q \in Procs : ~Mid(q, t)
    BY <1>1 DEF Mid, At, FullInv, SafetyInv, LockInv
  <2> QED BY <1>1, <2>1 DEF FullInv, SafetyInv, TableInv
<1>5. live <=> isActive[t]
  BY <1>1 DEF FullInv, SafetyInv, TableInv
<1>6. UNCHANGED <<Atomic!tables, delivered, nested>>
  BY <1>1, TablesStand DEF Ahead, At, Proceed
<1>7. \A q \in Procs \ {p} : pc'[q] = pc[q] /\ call'[q] = call[q]
  BY Frame DEF FullInv, Proceed
<1>8. absStage[p] = "called" /\ absRequest[p] = RequestOf(call[p])
  BY <1>1, <1>7, View DEF FullInv, StageOf
<1> HIDE DEF live
<1>9. CASE ~isActive[t]
  <2>1. /\ RequestOf(call'[p]) = RequestOf(call[p])
        /\ StageOf(pc'[p], call'[p]) = "answered"
        /\ AnswerOf(pc'[p], call'[p]) = [ret |-> "ok", copies |-> AnswerOf(pc[p], call[p]).copies]
    BY <1>1, <1>2, <1>4, <1>5, <1>9 DEF RequestOf, StageOf, Accepted, AnswerOf
  <2>2. /\ Atomic!Answer(p, "ok") /\ Atomic!Advance(p, "answered") /\ UNCHANGED absRequest
    BY <2>1, Answers DEF Proceed, Results
  <2> QED BY <1>1, <1>3, <1>6, <1>8, <1>9, <2>2
          DEF Atomic!Ignore, Atomic!Called, Atomic!tables, RequestOf
<1>10. CASE isActive[t]
  <2>1. StageOf(pc'[p], call'[p]) = "accepted"
    BY <1>1, <1>2, <1>4, <1>5, <1>10 DEF StageOf, Accepted
  <2>2. AnswerOf(pc'[p], call'[p]) = AnswerOf(pc[p], call[p])
    BY <1>1, <1>2, <2>1 DEF AnswerOf, StageOf
  <2>3. RequestOf(call[p]) \in Requested /\ handlers[t] \in Handlers \cup {NoHandler}
    BY <1>0, <1>1, Shown DEF FullInv, TypeInv, TypeOK
  <2>4. RequestOf(call'[p]) = [RequestOf(call[p]) EXCEPT !.handler = handlers[t]]
    <3>1. /\ RequestOf(call[p]).op = "Handle" /\ RequestOf(call[p]).topic = t
          /\ RequestOf(call[p]).want = call[p].want
      BY <1>1 DEF RequestOf
    <3>2. RequestOf(call'[p]) =
             [op |-> "Handle", topic |-> t, handler |-> handlers[t], want |-> call[p].want]
      BY <1>2 DEF RequestOf
    <3> QED BY <2>3, <3>1, <3>2, RequestSetHandler
  <2>5. absRequest' = [absRequest EXCEPT ![p].handler = absHandlers[t]]
    BY <1>3, <1>7, <1>8, <2>4, View DEF FullInv
  <2>6. Atomic!Advance(p, "accepted") /\ UNCHANGED absAnswer
    BY <1>7, <2>1, <2>2, View DEF FullInv, Atomic!Advance, absAnswer
  <2>7. absRequest[p].op = "Handle" /\ absRequest[p].topic = t
    BY <1>1, <1>8 DEF RequestOf
  <2> QED BY <1>1, <1>3, <1>4, <1>6, <1>8, <1>10, <2>5, <2>6, <2>7
          DEF Atomic!Accept, Atomic!Called
<1> QED BY <1>9, <1>10

LEMMA CountMaps ==
    ASSUME FullInv, FullInv', NEW p \in Procs, CountStore(p)
    PROVE  Atomic!Count(p)
<1> DEFINE t == call[p].topic
<1>1. /\ pc[p] = "second" /\ pc'[p] = "unlock" /\ call[p].op = "Handle"
      /\ CallOK(subscriptions, pc[p], call[p])
      /\ messageCount' = [messageCount EXCEPT ![t] = @ + 1]
      /\ UNCHANGED <<subscriptions, call, delivered>>
  BY CountStoreStep DEF FullInv, CallInv
<1>2. UNCHANGED <<isActive, handlers, nested>>
  BY DEF CountStore
<1>3. \A q \in Procs \ {p} : pc'[q] = pc[q] /\ call'[q] = call[q]
  BY Frame DEF FullInv, Proceed
<1>4. writer \in Procs \cup {NoProc} /\ writer' \in Procs \cup {NoProc}
  BY DEF FullInv, TypeInv, TypeOK
<1>5. UNCHANGED <<absIsActive, absHandlers>>
  BY <1>1, <1>2, <1>3, <1>4, SameTables DEF FullInv, SafetyInv, Ahead, At
<1>6. /\ StageOf(pc[p], call[p]) = "accepted" /\ StageOf(pc'[p], call'[p]) = "counted"
      /\ AnswerOf(pc'[p], call'[p]) = AnswerOf(pc[p], call[p])
  BY <1>1 DEF StageOf, AnswerOf
<1>7. /\ Atomic!Advance(p, "counted") /\ UNCHANGED <<absRequest, absAnswer>>
      /\ absStage[p] = "accepted" /\ absRequest[p].topic = t
  <2>1. Proceed(p) /\ RequestOf(call'[p]) = RequestOf(call[p])
    BY <1>1 DEF Proceed
  <2>2. RequestOf(call[p]).topic = t
    BY DEF RequestOf
  <2> QED BY <1>6, <2>1, <2>2, MovesOn
<1> QED BY <1>1, <1>2, <1>5, <1>7 DEF Atomic!Count

LEMMA InvokeMaps ==
    ASSUME FullInv, FullInv', NEW p \in Procs, Invoke(p)
    PROVE  Atomic!Invoke(p)
<1> DEFINE t == call[p].topic
<1>1. /\ pc[p] = "invoke" /\ pc'[p] = "handling" /\ call[p].op = "Handle"
      /\ delivered' = [delivered EXCEPT ![t] = @ + 1]
      /\ UNCHANGED <<call, manager, nested>>
  BY InvokeStep DEF FullInv, Invoke
<1>2. UNCHANGED Atomic!tables
  BY <1>1, TablesStand DEF Proceed, Ahead, At
<1>3. /\ StageOf(pc[p], call[p]) = "counted" /\ StageOf(pc'[p], call'[p]) = "handling"
      /\ AnswerOf(pc'[p], call'[p]) = AnswerOf(pc[p], call[p])
  BY <1>1 DEF StageOf, AnswerOf
<1>4. /\ Atomic!Advance(p, "handling") /\ UNCHANGED <<absRequest, absAnswer>>
      /\ absStage[p] = "counted" /\ absRequest[p].topic = t
  <2>1. Proceed(p) /\ RequestOf(call'[p]) = RequestOf(call[p])
    BY <1>1 DEF Proceed
  <2>2. RequestOf(call[p]).topic = t
    BY DEF RequestOf
  <2> QED BY <1>3, <2>1, <2>2, MovesOn
<1> QED BY <1>1, <1>2, <1>4 DEF Atomic!Invoke

LEMMA HandlerReturnsMaps ==
    ASSUME FullInv, FullInv', NEW p \in Procs, HandlerReturns(p)
    PROVE  Atomic!HandlerReturns(p)
<1>1. PICK r \in {"ok", "errHandler"} : call' = [call EXCEPT ![p].ret = r]
  BY DEF HandlerReturns
<1>2. /\ pc[p] \in {"handling", "resumed"} /\ pc'[p] = "return"
      /\ UNCHANGED <<manager, nested, delivered>>
      /\ call[p] \in Call /\ CallOK(subscriptions, pc[p], call[p])
      /\ call'[p] = [call[p] EXCEPT !.ret = r]
  BY <1>1 DEF HandlerReturns, GoTo, FullInv, TypeInv, TypeOK, CallInv
<1>3. UNCHANGED Atomic!tables
  BY <1>2, TablesStand DEF Proceed, Ahead, At
<1>4. /\ StageOf(pc'[p], call'[p]) = "answered"
      /\ RequestOf(call'[p]) = RequestOf(call[p])
      /\ AnswerOf(pc'[p], call'[p]) = [ret |-> r, copies |-> AnswerOf(pc[p], call[p]).copies]
  BY <1>2 DEF StageOf, RequestOf, AnswerOf, Call, CallOK
<1>5. /\ Atomic!Answer(p, r) /\ Atomic!Advance(p, "answered") /\ UNCHANGED absRequest
      /\ absStage[p] = StageOf(pc[p], call[p])
  BY <1>4, Answers DEF Proceed, Results
<1>6. absStage[p] \in {"handling", "resumed"}
  BY <1>2, <1>5 DEF StageOf
<1> QED BY <1>2, <1>3, <1>5, <1>6 DEF Atomic!HandlerReturns

LEMMA GetMaps ==
    ASSUME FullInv, FullInv', NEW p \in Procs, GetDone(p)
    PROVE  Atomic!Get(p)
<1>0. call[p] \in Call /\ CallOK(subscriptions, pc[p], call[p])
  BY DEF FullInv, TypeInv, TypeOK, CallInv
<1>1. /\ pc[p] = "read" /\ pc'[p] = "return" /\ call[p].op = "Get"
      /\ UNCHANGED <<manager, nested, delivered>>
      /\ call[p].todo = {} /\ call'[p] = [call[p] EXCEPT !.ret = "ok"]
  BY DEF GetDone, RUnlock, At, GoTo, FullInv, TypeInv, TypeOK
<1>2. absIsActive = isActive /\ absHandlers = handlers
  BY <1>1, ReadersSee DEF FullInv, SafetyInv
<1>3. UNCHANGED Atomic!tables
  BY <1>1, TablesStand DEF Proceed, Ahead, At
<1>4. call[p].copies = {CopyOf(t) : t \in call[p].want \cap subscriptions}
  BY <1>1 DEF FullInv, SnapInv, GettersAreSnapshots, At
<1>5. call[p].copies = {[topic |-> t, active |-> absIsActive[t], count |-> messageCount[t]]
                           : t \in call[p].want \cap subscriptions}
  BY <1>2, <1>4 DEF CopyOf
<1>6. /\ RequestOf(call'[p]) = RequestOf(call[p])
      /\ StageOf(pc[p], call[p]) = "called" /\ StageOf(pc'[p], call'[p]) = "answered"
      /\ AnswerOf(pc'[p], call'[p]) = [ret |-> "ok", copies |-> call[p].copies]
  BY <1>0, <1>1 DEF RequestOf, StageOf, AnswerOf, Call
<1>7. \A q \in Procs \ {p} : pc'[q] = pc[q] /\ call'[q] = call[q]
  BY Frame DEF FullInv, Proceed
<1>8. /\ absStage[p] = "called" /\ absRequest[p].op = "Get" /\ absRequest[p].want = call[p].want
      /\ UNCHANGED absRequest /\ Atomic!Advance(p, "answered")
      /\ absAnswer' = [absAnswer EXCEPT ![p] = [ret |-> "ok", copies |-> call[p].copies]]
  BY <1>1, <1>6, <1>7, View DEF FullInv, Atomic!Advance, absRequest, RequestOf
<1> QED BY <1>1, <1>3, <1>5, <1>8 DEF Atomic!Get, Atomic!Called

-----------------------------------------------------------------------------
(* Together.                                                                *)

LEMMA StepMaps ==
    ASSUME FullInv, FullInv', NEW p \in Procs, Start(p) \/ Acquire(p) \/ Proceed(p)
    PROVE  [Atomic!Next]_(Atomic!vars)
<1>1. CASE Start(p)
  BY <1>1, StartMaps DEF Atomic!Next
<1>2. CASE Acquire(p)
  BY <1>2, SilentSteps, CloseMaps DEF Acquire, Atomic!Next, Atomic!Effect
<1>3. CASE Return(p)
  BY <1>3, ReturnMaps DEF Atomic!Next
<1>4. CASE \/ Unlock(p) \/ SubscribeHandler(p) \/ UnsubscribeHandler(p) \/ CloseRecord(p)
           \/ CloseHandlers(p) \/ HandleIgnore(p) \/ HandleNoHandler(p) \/ HandleAccept(p)
           \/ CountLoad(p) \/ GetRead(p)
  BY <1>4, SilentSteps, SilentWrites
<1>5. CASE \/ SubscribeRecord(p) \/ UnsubscribeUnknown(p) \/ UnsubscribeRecord(p)
           \/ CreateRecord(p) \/ HandleRead(p)
  BY <1>5, SubscribeMaps, UnsubscribeMaps, CreateMaps, DecisionMaps DEF Atomic!Next, Atomic!Effect
<1>6. CASE CountStore(p) \/ Invoke(p) \/ HandlerReturns(p) \/ GetDone(p)
  BY <1>6, CountMaps, InvokeMaps, HandlerReturnsMaps, GetMaps DEF Atomic!Next, Atomic!Effect
<1> QED BY <1>1, <1>2, <1>3, <1>4, <1>5, <1>6 DEF Proceed

LEMMA InitMaps ==
    ASSUME Init
    PROVE  Atomic!Init
<1>1. ~Closing /\ \A t \in Topics : ~Pending(t)
  BY DEF Init, Closing, Pending
<1>2. \A p \in Procs : /\ StageOf(pc[p], call[p]) = "idle"
                       /\ RequestOf(call[p]) = Atomic!NoRequest("None")
                       /\ AnswerOf(pc[p], call[p]) = Atomic!NoAnswer
  BY DEF Init, NewCall, StageOf, RequestOf, AnswerOf, Atomic!NoRequest, Atomic!NoAnswer
<1> QED BY <1>1, <1>2 DEF Init, Atomic!Init, absIsActive, absHandlers, absStage, absRequest, absAnswer

\* For any number of goroutines, topics and handlers: the locked manager implements
\* the atomic one, so its callers see operations that take effect one at a time.
THEOREM ManagerIsLinearizable == Spec => Linearizable
<1>1. FullInv /\ FullInv' /\ [Next]_vars => [Atomic!Next]_(Atomic!vars)
  <2> SUFFICES ASSUME FullInv, FullInv', [Next]_vars
               PROVE  [Atomic!Next]_(Atomic!vars)
    OBVIOUS
  <2>1. CASE UNCHANGED vars
    BY <2>1 DEF vars, manager, mutex, Atomic!vars, Atomic!tables, absIsActive, absHandlers,
                absStage, absRequest, absAnswer, Closing, Pending, At
  <2>2. CASE Next
    BY <2>2, StepMaps DEF Next
  <2> QED BY <2>1, <2>2
<1>2. Init => Atomic!Init
  BY InitMaps
<1> QED BY <1>1, <1>2, FullInvHolds, PTL DEF Spec, Linearizable, Atomic!Spec
=============================================================================
