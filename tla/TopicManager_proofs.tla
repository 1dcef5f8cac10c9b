------------------------- MODULE TopicManager_proofs -------------------------
(***************************************************************************)
(* Proofs about the SHIP topic manager, for any set of goroutines, topics   *)
(* and handlers.                                                            *)
(***************************************************************************)
EXTENDS TopicManager, TLAPS

-----------------------------------------------------------------------------
(* Type correctness.                                                        *)

TypeInv == TypeOK /\ ArgsOK

\* A fresh call record has the type of a call record.
LEMMA NewCallType ==
    ASSUME NEW o \in Ops, NEW t \in Topics \cup {EmptyTopic},
           NEW h \in Handlers \cup {NoHandler}
    PROVE  /\ NewCall(o, t, h) \in Call
           /\ \A r \in Results : [NewCall(o, t, h) EXCEPT !.ret = r] \in Call
           /\ \A w \in SUBSET Topics : [NewCall(o, t, h) EXCEPT !.want = w] \in Call
BY DEF NewCall, Call, Results

\* Starting a call keeps the types when its call record has the right one.
LEMMA BeginType ==
    ASSUME TypeInv, NEW p \in Procs, NEW l \in Labels, NEW c \in Call, Begin(p, l, c),
           c.topic \in Topics \/ l = "return" \/ c.op \in {"Close", "Get"}
    PROVE  TypeInv'
<1>1. pc' \in [Procs -> Labels] /\ pc' = [pc EXCEPT ![p] = l]
  BY DEF TypeInv, TypeOK, Begin, GoTo
<1>2. call' \in [Procs -> Call] /\ call' = [call EXCEPT ![p] = c]
  BY DEF TypeInv, TypeOK, Begin
<1>3. nested' \in [Procs -> BOOLEAN]
  BY DEF TypeInv, TypeOK, Begin
<1>4. ArgsOK'
  BY <1>1, <1>2 DEF TypeInv, TypeOK, ArgsOK
<1> QED BY <1>1, <1>2, <1>3, <1>4 DEF TypeInv, TypeOK, Begin, manager, mutex

\* Every way to start a call keeps the types.
LEMMA StartType ==
    ASSUME TypeInv, NEW p \in Procs, Start(p)
    PROVE  TypeInv'
<1> USE NewCallType, BeginType DEF Labels, Ops, Results
<1>1. ASSUME NEW t \in Topics \cup {EmptyTopic}, NEW h \in Handlers \cup {NoHandler},
             BeginSubscribe(p, t, h)
      PROVE  TypeInv'
  BY <1>1 DEF BeginSubscribe, Reject, NewCall
<1>2. ASSUME NEW t \in Topics \cup {EmptyTopic}, BeginUnsubscribe(p, t)
      PROVE  TypeInv'
  BY <1>2 DEF BeginUnsubscribe, Reject, NewCall
<1>3. ASSUME NEW t \in Topics \cup {EmptyTopic}, BeginCreate(p, t)
      PROVE  TypeInv'
  BY <1>3 DEF BeginCreate, Reject, NewCall
<1>4. ASSUME NEW t \in Topics \cup {EmptyTopic}, BeginHandle(p, t)
      PROVE  TypeInv'
  BY <1>4 DEF BeginHandle, Reject, NewCall
<1>5. ASSUME BeginClose(p)
      PROVE  TypeInv'
  BY <1>5 DEF BeginClose, NewCall
<1>6. ASSUME NEW w \in SUBSET Topics, BeginGet(p, w)
      PROVE  TypeInv'
  BY <1>6 DEF BeginGet, NewCall
<1> QED BY <1>1, <1>2, <1>3, <1>4, <1>5, <1>6 DEF Start

\* Setting what a call returns leaves its other locals as they are.
LEMMA ReturnType ==
    ASSUME NEW d \in Call, NEW r \in Results
    PROVE  /\ [d EXCEPT !.ret = r] \in Call
           /\ [d EXCEPT !.ret = r].op = d.op
           /\ [d EXCEPT !.ret = r].topic = d.topic
BY DEF Call

\* A step inside a call changes one label and at most the locals of one call.
LEMMA LocalType ==
    ASSUME TypeInv, NEW p \in Procs, NEW l \in Labels, NEW c \in Call,
           pc' = [pc EXCEPT ![p] = l], call' = [call EXCEPT ![p] = c],
           \/ c.topic \in Topics
           \/ l \in {"idle", "return", "handling", "resumed"}
           \/ c.op \in {"None", "Close", "Get"}
    PROVE  pc' \in [Procs -> Labels] /\ call' \in [Procs -> Call] /\ ArgsOK'
BY DEF TypeInv, TypeOK, ArgsOK

\* The steps that take or release a lock keep the types.
LEMMA LockType ==
    ASSUME TypeInv, NEW p \in Procs,
           Acquire(p) \/ Unlock(p) \/ Return(p)
    PROVE  TypeInv'
<1> USE DEF TypeInv, TypeOK, GoTo, Labels, manager, mutex
<1>1. CASE AnnounceLock(p)
  BY <1>1, LocalType DEF AnnounceLock, ArgsOK
<1>2. CASE AcquireLock(p)
  <2> DEFINE c == [call[p] EXCEPT !.todo = IF call[p].op = "Close" THEN subscriptions ELSE {}]
  <2>1. c \in Call /\ call' = [call EXCEPT ![p] = c] /\ c.op = call[p].op /\ c.topic = call[p].topic
    BY <1>2 DEF AcquireLock, Call
  <2>2. c.op \in Ops /\ (c.topic \in Topics \/ c.op \in {"None", "Close", "Get"})
    BY <1>2, <2>1 DEF AcquireLock, ArgsOK, Call, Ops
  <2> HIDE DEF c
  <2> QED BY <1>2, <2>1, <2>2, LocalType DEF AcquireLock
<1>3. CASE AcquireRLock(p)
  <2> DEFINE c == [call[p] EXCEPT !.todo = call[p].want \cap subscriptions]
  <2>1. c \in Call /\ call' = [call EXCEPT ![p] = c] /\ c.op = call[p].op /\ c.topic = call[p].topic
    BY <1>3 DEF AcquireRLock, Call
  <2>2. c.op \in Ops /\ (c.topic \in Topics \/ c.op \in {"None", "Close", "Get"})
    BY <1>3, <2>1 DEF AcquireRLock, ArgsOK, Call, Ops
  <2> HIDE DEF c
  <2> QED BY <1>3, <2>1, <2>2, LocalType DEF AcquireRLock
<1>4. CASE Unlock(p)
  BY <1>4, LocalType DEF Unlock, ArgsOK
<1>5. CASE Return(p)
  BY <1>5, NewCallType, LocalType DEF Return, Ops
<1> QED BY <1>1, <1>2, <1>3, <1>4, <1>5 DEF Acquire

\* The writes under the lock keep the types.
LEMMA WriteType ==
    ASSUME TypeInv, NEW p \in Procs,
           \/ SubscribeRecord(p) \/ SubscribeHandler(p)
           \/ UnsubscribeUnknown(p) \/ UnsubscribeRecord(p) \/ UnsubscribeHandler(p)
           \/ CreateRecord(p) \/ CloseRecord(p) \/ CloseHandlers(p)
    PROVE  TypeInv'
<1> USE DEF TypeInv, TypeOK, GoTo, Labels, manager, mutex, At, Finish
<1> DEFINE Ret(r) == [call[p] EXCEPT !.ret = r]
<1>1. \A r \in Results : /\ Ret(r) \in Call
                         /\ Ret(r).op = call[p].op
                         /\ Ret(r).topic = call[p].topic
  <2>1. call[p] \in Call
    OBVIOUS
  <2> HIDE DEF TypeInv, TypeOK
  <2> QED BY <2>1, ReturnType
<1>2. \A r \in Results :
         Finish(p, r) => call' = [call EXCEPT ![p] = Ret(r)]
  BY DEF Call
<1> HIDE DEF Ret
<1>3. CASE SubscribeRecord(p)
  <2>1. call[p].topic \in Topics
    BY <1>3 DEF SubscribeRecord, ArgsOK
  <2> QED BY <1>3, <2>1 DEF SubscribeRecord, ArgsOK
<1>4. CASE SubscribeHandler(p)
  <2>1. call[p].topic \in Topics /\ call[p].handler \in Handlers \cup {NoHandler}
    BY <1>4 DEF SubscribeHandler, ArgsOK, Call
  <2> QED BY <1>1, <1>2, <1>4, <2>1, LocalType DEF SubscribeHandler, Results
<1>5. CASE UnsubscribeUnknown(p)
  <2>1. call[p].topic \in Topics
    BY <1>5 DEF UnsubscribeUnknown, ArgsOK
  <2> QED BY <1>1, <1>2, <1>5, <2>1, LocalType DEF UnsubscribeUnknown, Results
<1>6. CASE UnsubscribeRecord(p)
  <2>1. call[p].topic \in Topics
    BY <1>6 DEF UnsubscribeRecord, ArgsOK
  <2> QED BY <1>6, <2>1 DEF UnsubscribeRecord, ArgsOK
<1>7. CASE UnsubscribeHandler(p)
  <2>1. call[p].topic \in Topics
    BY <1>7 DEF UnsubscribeHandler, ArgsOK
  <2> QED BY <1>1, <1>2, <1>7, <2>1, LocalType DEF UnsubscribeHandler, Results
<1>8. CASE CreateRecord(p)
  <2>1. call[p].topic \in Topics
    BY <1>8 DEF CreateRecord, ArgsOK
  <2> QED BY <1>1, <1>2, <1>8, <2>1, LocalType DEF CreateRecord, Results
<1>9. CASE CloseRecord(p)
  <2>1. PICK t \in call[p].todo :
           /\ isActive' = [isActive EXCEPT ![t] = FALSE]
           /\ call' = [call EXCEPT ![p].todo = @ \ {t}]
    BY <1>9 DEF CloseRecord
  <2> DEFINE c == [call[p] EXCEPT !.todo = @ \ {t}]
  <2> HIDE DEF TypeInv, TypeOK
  <2>6. call[p] \in Call
    BY DEF TypeInv, TypeOK
  <2>7. c \in Call /\ c.op = call[p].op
    BY <2>6 DEF Call
  <2>2. c \in Call /\ c.op = "Close"
    BY <1>9, <2>7 DEF CloseRecord
  <2> USE DEF TypeInv, TypeOK
  <2>3. call' = [call EXCEPT ![p] = c]
    BY <2>1
  <2>5. pc' = [pc EXCEPT ![p] = "first"]
    BY <1>9 DEF CloseRecord
  <2>4. isActive' \in [Topics -> BOOLEAN]
    BY <2>1
  <2> HIDE DEF c
  <2> QED BY <1>9, <2>2, <2>3, <2>4, <2>5, LocalType DEF CloseRecord
<1>10. CASE CloseHandlers(p)
  <2>1. Ret("ok") \in Call /\ Ret("ok").op = "Close" /\ call' = [call EXCEPT ![p] = Ret("ok")]
    BY <1>1, <1>2, <1>10 DEF CloseHandlers, Results
  <2>2. handlers' \in [Topics -> Handlers \cup {NoHandler}]
    BY <1>10 DEF CloseHandlers
  <2> QED BY <1>10, <2>1, <2>2, LocalType DEF CloseHandlers
<1> QED BY <1>3, <1>4, <1>5, <1>6, <1>7, <1>8, <1>9, <1>10

\* The steps of HandleTopicMessage keep the types.
LEMMA HandleType ==
    ASSUME TypeInv, NEW p \in Procs,
           \/ HandleRead(p) \/ HandleIgnore(p) \/ HandleNoHandler(p) \/ HandleAccept(p)
           \/ CountLoad(p) \/ CountStore(p) \/ Invoke(p) \/ HandlerReturns(p)
    PROVE  TypeInv'
<1> USE DEF TypeInv, TypeOK, GoTo, Labels, manager, mutex, At
<1>1. CASE HandleRead(p)
  <2> DEFINE t == call[p].topic
             c == [call[p] EXCEPT !.handler = handlers[t], !.live = t \in subscriptions /\ isActive[t]]
  <2>1. t \in Topics
    BY <1>1 DEF HandleRead, ArgsOK
  <2>2. c \in Call /\ call' = [call EXCEPT ![p] = c] /\ c.topic = t
    BY <1>1, <2>1 DEF HandleRead, Call
  <2> QED BY <1>1, <2>1, <2>2, LocalType DEF HandleRead
<1>2. CASE HandleIgnore(p)
  <2> DEFINE c == [call[p] EXCEPT !.ret = "ok"]
  <2>1. call[p] \in Call /\ "ok" \in Results
    BY DEF Results
  <2>2. c \in Call
    BY ONLY <2>1, ReturnType
  <2>3. call' = [call EXCEPT ![p] = c]
    BY <1>2 DEF HandleIgnore
  <2> HIDE DEF c
  <2> QED BY <1>2, <2>2, <2>3, LocalType DEF HandleIgnore, RUnlock
<1>3. CASE HandleNoHandler(p)
  <2> DEFINE c == [call[p] EXCEPT !.ret = "errNoHandlerFoundForTopic"]
  <2>1. call[p] \in Call /\ "errNoHandlerFoundForTopic" \in Results
    BY DEF Results
  <2>2. c \in Call
    BY ONLY <2>1, ReturnType
  <2>3. call' = [call EXCEPT ![p] = c]
    BY <1>3 DEF HandleNoHandler
  <2> HIDE DEF c
  <2> QED BY <1>3, <2>2, <2>3, LocalType DEF HandleNoHandler, RUnlock
<1>4. CASE HandleAccept(p)
  BY <1>4 DEF HandleAccept, RUnlock, ArgsOK
<1>5. CASE CountLoad(p)
  <2> DEFINE c == [call[p] EXCEPT !.loaded = messageCount[call[p].topic]]
  <2>1. call[p].topic \in Topics
    BY <1>5 DEF CountLoad, ArgsOK
  <2>2. c \in Call /\ call' = [call EXCEPT ![p] = c] /\ c.topic = call[p].topic
    BY <1>5, <2>1 DEF CountLoad, Call
  <2> QED BY <1>5, <2>1, <2>2, LocalType DEF CountLoad
<1>6. CASE CountStore(p)
  <2>1. call[p].topic \in Topics /\ call[p].loaded \in Nat
    BY <1>6 DEF CountStore, ArgsOK, Call
  <2> QED BY <1>6, <2>1 DEF CountStore, ArgsOK
<1>7. CASE Invoke(p)
  BY <1>7 DEF Invoke, ArgsOK
<1>8. CASE HandlerReturns(p)
  <2>1. PICK r \in {"ok", "errHandler"} : call' = [call EXCEPT ![p].ret = r]
    BY <1>8 DEF HandlerReturns
  <2> DEFINE c == [call[p] EXCEPT !.ret = r]
  <2>2. call[p] \in Call /\ r \in Results
    BY DEF Results
  <2>3. c \in Call
    BY ONLY <2>2, ReturnType
  <2>4. call' = [call EXCEPT ![p] = c]
    BY <2>1
  <2> HIDE DEF c
  <2> QED BY <1>8, <2>3, <2>4, LocalType DEF HandlerReturns
<1> QED BY <1>1, <1>2, <1>3, <1>4, <1>5, <1>6, <1>7, <1>8

\* The read-only methods keep the types.
LEMMA GetType ==
    ASSUME TypeInv, NEW p \in Procs, GetRead(p) \/ GetDone(p)
    PROVE  TypeInv'
<1> USE DEF TypeInv, TypeOK, GoTo, Labels, manager, mutex, At
<1>1. CASE GetRead(p)
  <2>1. PICK t \in call[p].todo :
           call' = [call EXCEPT ![p].copies = @ \cup {CopyOf(t)}, ![p].todo = @ \ {t}]
    BY <1>1 DEF GetRead
  <2> DEFINE c == [call[p] EXCEPT !.copies = @ \cup {CopyOf(t)}, !.todo = @ \ {t}]
  <2>2. CopyOf(t) \in Copy
    BY <2>1 DEF CopyOf, Copy, Call
  <2> HIDE DEF TypeInv, TypeOK
  <2>6. call[p] \in Call
    BY DEF TypeInv, TypeOK
  <2>7. c \in Call /\ c.op = call[p].op
    BY <2>2, <2>6 DEF Call
  <2>3. c \in Call /\ c.op = "Get"
    BY <1>1, <2>7 DEF GetRead
  <2> USE DEF TypeInv, TypeOK
  <2>4. call' = [call EXCEPT ![p] = c]
    BY <2>1
  <2>5. pc' = [pc EXCEPT ![p] = "read"]
    BY <1>1 DEF GetRead
  <2> HIDE DEF c
  <2> QED BY <1>1, <2>3, <2>4, <2>5, LocalType DEF GetRead
<1>2. CASE GetDone(p)
  <2> DEFINE c == [call[p] EXCEPT !.ret = "ok"]
  <2>1. call[p] \in Call /\ "ok" \in Results
    BY DEF Results
  <2>2. c \in Call
    BY ONLY <2>1, ReturnType
  <2>3. call' = [call EXCEPT ![p] = c]
    BY <1>2 DEF GetDone
  <2> HIDE DEF c
  <2> QED BY <1>2, <2>2, <2>3, LocalType DEF GetDone, RUnlock
<1> QED BY <1>1, <1>2

\* The state has its declared shape, and a call under way names a topic.
THEOREM ArgumentsCorrect == Spec => []TypeInv
<1>1. Init => TypeInv
  BY NewCallType DEF Init, TypeInv, TypeOK, ArgsOK, Ops, Labels
<1>2. TypeInv /\ [Next]_vars => TypeInv'
  <2> SUFFICES ASSUME TypeInv, [Next]_vars
               PROVE  TypeInv'
    OBVIOUS
  <2>1. CASE UNCHANGED vars
    BY <2>1 DEF vars, manager, mutex, TypeInv, TypeOK, ArgsOK
  <2>2. ASSUME NEW p \in Procs, Start(p) \/ Acquire(p) \/ Proceed(p)
        PROVE  TypeInv'
    BY <2>2, StartType, LockType, WriteType, HandleType, GetType DEF Proceed
  <2> QED BY <2>1, <2>2 DEF Next
<1> QED BY <1>1, <1>2, PTL DEF Spec

\* Every variable of the topic manager keeps its type, for any number of goroutines.
THEOREM TypeCorrect == Spec => []TypeOK
<1>1. TypeInv => TypeOK
  BY DEF TypeInv
<1> QED BY <1>1, ArgumentsCorrect, PTL
=============================================================================
