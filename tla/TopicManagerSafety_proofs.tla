---------------------- MODULE TopicManagerSafety_proofs ----------------------
(***************************************************************************)
(* The two maps of the SHIP topic manager stay in step, and an active topic *)
(* always has its handler, for any number of goroutines.                    *)
(*                                                                          *)
(* The inductive invariant says who holds the lock at which label (LockInv), *)
(* what each goroutine that is between two writes has written so far and    *)
(* has yet to write (TableInv), and what was read under the lock (ReadInv). *)
(***************************************************************************)
EXTENDS TopicManager_proofs

LockInv ==
    /\ \A p \in Procs : writer = p <=> pc[p] \in {"drain", "first", "second", "unlock"}
    /\ \A p \in Procs : p \in readers <=> pc[p] \in {"read", "runlock"}
    /\ \A p \in Procs : pc[p] \in {"first", "second", "unlock"} => readers = {}

Mid(p, t) ==
    \/ At(p, "first", "Close")
    \/ pc[p] = "second" /\ call[p].op \in {"Subscribe", "Unsubscribe"} /\ call[p].topic = t

TableInv ==
    /\ \A t \in Topics :
         /\ isActive[t] => t \in subscriptions
         /\ (\A p \in Procs : ~Mid(p, t)) => (handlers[t] # NoHandler <=> isActive[t])
    /\ \A p \in Procs :
         /\ At(p, "second", "Subscribe") => isActive[call[p].topic]
         /\ At(p, "second", "Unsubscribe") => ~isActive[call[p].topic]
         /\ At(p, "first", "Close") => \A t \in Topics : isActive[t] => t \in call[p].todo
         /\ /\ call[p].op = "Subscribe"
            /\ pc[p] \in {"lock", "drain", "first", "second"}
            => call[p].handler # NoHandler

ReadInv ==
    \A p \in Procs : pc[p] = "runlock" /\ call[p].live => call[p].handler # NoHandler

SafetyInv == LockInv /\ TableInv /\ ReadInv /\ ActiveHasHandler

-----------------------------------------------------------------------------
(* What a step may do to the labels and the mutex.                          *)

\* Starting a call moves one goroutine from outside every lock to outside every
\* lock, gives it a fresh call record, and touches nothing else.
Started(p, l, c) ==
    /\ UNCHANGED <<manager, mutex, delivered>>
    /\ pc[p] \in {"idle", "handling"}
    /\ pc' = [pc EXCEPT ![p] = l]
    /\ call' = [call EXCEPT ![p] = c]
    /\ c.ret # "errNoHandlerFoundForTopic"
    /\ c.copies = {}
    /\ c.op = "Subscribe" /\ l # "return" => c.handler # NoHandler

LEMMA StartStep ==
    ASSUME TypeInv, NEW p \in Procs, Start(p)
    PROVE  \E l \in {"lock", "rlock", "return"}, c \in Call : Started(p, l, c)
<1>1. ASSUME NEW l \in {"lock", "rlock", "return"}, NEW c \in Call, Begin(p, l, c),
             c.ret # "errNoHandlerFoundForTopic", c.copies = {},
             c.op = "Subscribe" /\ l # "return" => c.handler # NoHandler
      PROVE  \E k \in {"lock", "rlock", "return"}, d \in Call : Started(p, k, d)
  <2>1. Started(p, l, c)
    BY <1>1 DEF Begin, GoTo, Started, manager, mutex
  <2> QED BY <2>1
<1> USE NewCallType DEF Ops, Results
<1>2. ASSUME NEW t \in Topics \cup {EmptyTopic}, NEW h \in Handlers \cup {NoHandler},
             BeginSubscribe(p, t, h)
      PROVE  \E k \in {"lock", "rlock", "return"}, d \in Call : Started(p, k, d)
  BY <1>1, <1>2 DEF BeginSubscribe, Reject, NewCall
<1>3. ASSUME NEW t \in Topics \cup {EmptyTopic},
             BeginUnsubscribe(p, t) \/ BeginCreate(p, t)
      PROVE  \E k \in {"lock", "rlock", "return"}, d \in Call : Started(p, k, d)
  BY <1>1, <1>3 DEF BeginUnsubscribe, BeginCreate, Reject, NewCall
<1>4. ASSUME NEW t \in Topics \cup {EmptyTopic}, BeginHandle(p, t)
      PROVE  \E k \in {"lock", "rlock", "return"}, d \in Call : Started(p, k, d)
  BY <1>1, <1>4 DEF BeginHandle, Reject, NewCall
<1>5. ASSUME BeginClose(p)
      PROVE  \E k \in {"lock", "rlock", "return"}, d \in Call : Started(p, k, d)
  BY <1>1, <1>5 DEF BeginClose, NewCall
<1>6. ASSUME NEW w \in SUBSET Topics, BeginGet(p, w)
      PROVE  \E k \in {"lock", "rlock", "return"}, d \in Call : Started(p, k, d)
  BY <1>1, <1>6 DEF BeginGet, NewCall
<1> QED BY <1>2, <1>3, <1>4, <1>5, <1>6 DEF Start

\* Only the holder of the lock is between two writes, and nobody reads then.
LEMMA LockStep ==
    ASSUME TypeInv, LockInv, NEW p \in Procs, Start(p) \/ Acquire(p) \/ Proceed(p)
    PROVE  LockInv'
<1> USE DEF TypeInv, TypeOK, LockInv, GoTo, At, Finish, RUnlock, mutex
<1>1. CASE Start(p)
  BY <1>1, StartStep DEF Started
<1>2. CASE Acquire(p)
  <2>1. CASE AnnounceLock(p)
    BY <2>1, Distinct DEF AnnounceLock
  <2>2. CASE AcquireLock(p)
    BY <2>2 DEF AcquireLock
  <2>3. CASE AcquireRLock(p)
    BY <2>3, Distinct DEF AcquireRLock
  <2> QED BY <1>2, <2>1, <2>2, <2>3 DEF Acquire
<1>3. CASE Unlock(p) \/ Return(p)
  BY <1>3, Distinct DEF Unlock, Return
<1>4. CASE SubscribeRecord(p) \/ SubscribeHandler(p)
  BY <1>4 DEF SubscribeRecord, SubscribeHandler
<1>5. CASE UnsubscribeUnknown(p) \/ UnsubscribeRecord(p) \/ UnsubscribeHandler(p)
  BY <1>5 DEF UnsubscribeUnknown, UnsubscribeRecord, UnsubscribeHandler
<1>6. CASE CreateRecord(p) \/ CloseRecord(p) \/ CloseHandlers(p)
  BY <1>6 DEF CreateRecord, CloseRecord, CloseHandlers
<1>7. CASE HandleRead(p)
  BY <1>7 DEF HandleRead
<1>8. CASE HandleIgnore(p) \/ HandleNoHandler(p) \/ HandleAccept(p)
  BY <1>8 DEF HandleIgnore, HandleNoHandler, HandleAccept
<1>9. CASE CountLoad(p) \/ CountStore(p)
  BY <1>9 DEF CountLoad, CountStore
<1>10. CASE Invoke(p) \/ HandlerReturns(p)
  BY <1>10 DEF Invoke, HandlerReturns
<1>11. CASE GetRead(p)
  BY <1>11 DEF GetRead
<1>12. CASE GetDone(p)
  BY <1>12 DEF GetDone
<1> QED BY <1>1, <1>2, <1>3, <1>4, <1>5, <1>6, <1>7, <1>8, <1>9, <1>10, <1>11, <1>12 DEF Proceed

-----------------------------------------------------------------------------
(* The tables.                                                              *)

\* A step that leaves the tables alone, and whose goroutine is between two
\* writes neither before nor after it, keeps TableInv.
LEMMA TableQuiet ==
    ASSUME TypeInv, TableInv, NEW p \in Procs,
           UNCHANGED <<subscriptions, isActive, handlers>>,
           NEW l \in Labels, NEW c \in Call,
           pc' = [pc EXCEPT ![p] = l], call' = [call EXCEPT ![p] = c],
           \A t \in Topics : ~Mid(p, t),
           \/ l \notin {"first", "second"}
           \/ c.op \notin {"Subscribe", "Unsubscribe", "Close"}
           \/ l = "first" /\ c.op # "Close"
           \/ l = "first" /\ c.todo = subscriptions,
           c.op = "Subscribe" /\ l \in {"lock", "drain", "first", "second"}
              => c.handler # NoHandler
    PROVE  TableInv'
<1> USE DEF TypeInv, TypeOK, TableInv, At
<1>1. \A q \in Procs : q # p => pc'[q] = pc[q] /\ call'[q] = call[q]
  OBVIOUS
<1>2. pc'[p] = l /\ call'[p] = c
  OBVIOUS
<1>3. \A t \in Topics, q \in Procs : Mid(q, t) => Mid(q, t)'
  BY <1>1 DEF Mid
<1>4. ASSUME NEW t \in Topics
      PROVE  /\ isActive'[t] => t \in subscriptions'
             /\ (\A q \in Procs : ~Mid(q, t)') => (handlers'[t] # NoHandler <=> isActive'[t])
  BY <1>3
<1>5. ASSUME NEW q \in Procs
      PROVE  /\ At(q, "second", "Subscribe")' => isActive'[call'[q].topic]
             /\ At(q, "second", "Unsubscribe")' => ~isActive'[call'[q].topic]
             /\ At(q, "first", "Close")' => \A t \in Topics : isActive'[t] => t \in call'[q].todo
             /\ /\ call'[q].op = "Subscribe"
                /\ pc'[q] \in {"lock", "drain", "first", "second"}
                => call'[q].handler # NoHandler
  <2>1. CASE q # p
    BY <1>1, <2>1
  <2>2. CASE q = p
    BY <1>2, <2>2
  <2> QED BY <2>1, <2>2
<1> QED BY <1>4, <1>5

\* The steps outside the two tables.
LEMMA TableOther ==
    ASSUME TypeInv, TableInv, NEW p \in Procs,
           \/ Start(p) \/ Acquire(p) \/ Unlock(p) \/ Return(p) \/ UnsubscribeUnknown(p)
           \/ HandleRead(p) \/ HandleIgnore(p) \/ HandleNoHandler(p) \/ HandleAccept(p)
           \/ CountLoad(p) \/ CountStore(p) \/ Invoke(p) \/ HandlerReturns(p)
           \/ GetRead(p) \/ GetDone(p)
    PROVE  TableInv'
<1> USE DEF GoTo, Finish, RUnlock, Mid, At, Labels, manager
<1>0. /\ call \in [Procs -> Call]
      /\ pc \in [Procs -> Labels]
      /\ call[p] \in Call
      /\ \A t \in Topics : handlers[t] \in Handlers \cup {NoHandler}
  BY DEF TypeInv, TypeOK
<1>1. CASE Start(p)
  BY <1>1, StartStep, TableQuiet DEF Started
<1>2. CASE AnnounceLock(p)
  <2>1. call' = [call EXCEPT ![p] = call[p]]
    BY <1>0, <1>2 DEF AnnounceLock
  <2> QED BY <1>0, <1>2, <2>1, TableQuiet DEF AnnounceLock, TableInv
<1>3. CASE AcquireLock(p)
  <2> DEFINE c == [call[p] EXCEPT !.todo = IF call[p].op = "Close" THEN subscriptions ELSE {}]
  <2>1. /\ c \in Call /\ call' = [call EXCEPT ![p] = c]
        /\ c.op = call[p].op /\ c.handler = call[p].handler
        /\ c.op = "Close" => c.todo = subscriptions
    BY <1>0, <1>3 DEF AcquireLock, Call, TypeInv, TypeOK
  <2> HIDE DEF c
  <2>2. c.op = "Subscribe" => c.handler # NoHandler
    BY <1>3, <2>1 DEF AcquireLock, TableInv
  <2>3. \A t \in Topics : ~Mid(p, t)
    BY <1>3 DEF AcquireLock
  <2>4. UNCHANGED <<subscriptions, isActive, handlers>> /\ pc' = [pc EXCEPT ![p] = "first"]
    BY <1>3 DEF AcquireLock
  <2> HIDE DEF Mid
  <2> QED BY <2>1, <2>2, <2>3, <2>4, TableQuiet
<1>4. CASE AcquireRLock(p)
  <2> DEFINE c == [call[p] EXCEPT !.todo = call[p].want \cap subscriptions]
  <2>1. c \in Call /\ call' = [call EXCEPT ![p] = c]
    BY <1>0, <1>4 DEF AcquireRLock, Call
  <2> HIDE DEF c
  <2> QED BY <1>0, <1>4, <2>1, TableQuiet DEF AcquireRLock
<1>5. CASE Unlock(p)
  <2>1. call' = [call EXCEPT ![p] = call[p]]
    BY <1>0, <1>5 DEF Unlock
  <2> QED BY <1>0, <1>5, <2>1, TableQuiet DEF Unlock
<1>6. CASE Return(p)
  BY <1>0, <1>6, NewCallType, TableQuiet DEF Return, Ops
<1>7. CASE UnsubscribeUnknown(p)
  <2> DEFINE c == [call[p] EXCEPT !.ret = "errNotSubscribedToTopic"]
  <2>1. c \in Call /\ call' = [call EXCEPT ![p] = c]
    BY <1>0, <1>7 DEF UnsubscribeUnknown, Call, Results
  <2> HIDE DEF c
  <2> QED BY <1>0, <1>7, <2>1, TableQuiet DEF UnsubscribeUnknown
<1>8. CASE HandleRead(p)
  <2> DEFINE c == [call[p] EXCEPT !.handler = handlers[call[p].topic],
                                  !.live = call[p].topic \in subscriptions /\ isActive[call[p].topic]]
  <2>1. call[p].topic \in Topics
    BY <1>8 DEF HandleRead, TypeInv, ArgsOK
  <2>2. c \in Call /\ call' = [call EXCEPT ![p] = c]
    BY <1>0, <1>8, <2>1 DEF HandleRead, Call
  <2> HIDE DEF c
  <2> QED BY <1>0, <1>8, <2>2, TableQuiet DEF HandleRead
<1>9. CASE HandleIgnore(p) \/ HandleNoHandler(p)
  <2>1. PICK r \in Results : call' = [call EXCEPT ![p].ret = r]
    BY <1>9 DEF HandleIgnore, HandleNoHandler, Results
  <2> DEFINE c == [call[p] EXCEPT !.ret = r]
  <2>2. c \in Call /\ call' = [call EXCEPT ![p] = c]
    BY <1>0, <2>1 DEF Call
  <2> HIDE DEF c
  <2> QED BY <1>0, <1>9, <2>2, TableQuiet DEF HandleIgnore, HandleNoHandler
<1>10. CASE HandleAccept(p)
  <2>1. call' = [call EXCEPT ![p] = call[p]]
    BY <1>0, <1>10 DEF HandleAccept
  <2> QED BY <1>0, <1>10, <2>1, TableQuiet DEF HandleAccept
<1>11. CASE CountLoad(p)
  <2> DEFINE c == [call[p] EXCEPT !.loaded = messageCount[call[p].topic]]
  <2>1. messageCount[call[p].topic] \in Nat
    BY <1>11 DEF CountLoad, TypeInv, TypeOK, ArgsOK
  <2>2. c \in Call /\ call' = [call EXCEPT ![p] = c] /\ c.op = call[p].op
    BY <1>0, <1>11, <2>1 DEF CountLoad, Call
  <2> HIDE DEF c
  <2> QED BY <1>0, <1>11, <2>2, TableQuiet DEF CountLoad
<1>12. CASE CountStore(p)
  <2>1. call' = [call EXCEPT ![p] = call[p]]
    BY <1>0, <1>12 DEF CountStore
  <2> QED BY <1>0, <1>12, <2>1, TableQuiet DEF CountStore
<1>13. CASE Invoke(p)
  <2>1. call' = [call EXCEPT ![p] = call[p]]
    BY <1>0, <1>13 DEF Invoke
  <2> QED BY <1>0, <1>13, <2>1, TableQuiet DEF Invoke
<1>14. CASE HandlerReturns(p)
  <2>1. PICK r \in {"ok", "errHandler"} : call' = [call EXCEPT ![p].ret = r]
    BY <1>14 DEF HandlerReturns
  <2> DEFINE c == [call[p] EXCEPT !.ret = r]
  <2>2. c \in Call /\ call' = [call EXCEPT ![p] = c]
    BY <1>0, <2>1 DEF Call, Results
  <2> HIDE DEF c
  <2> QED BY <1>0, <1>14, <2>2, TableQuiet DEF HandlerReturns
<1>15. CASE GetRead(p)
  <2>1. PICK t \in call[p].todo :
           call' = [call EXCEPT ![p].copies = @ \cup {CopyOf(t)}, ![p].todo = @ \ {t}]
    BY <1>15 DEF GetRead
  <2> DEFINE c == [call[p] EXCEPT !.copies = @ \cup {CopyOf(t)}, !.todo = @ \ {t}]
  <2>2. CopyOf(t) \in Copy
    BY <1>0, <2>1 DEF CopyOf, Copy, Call, TypeInv, TypeOK
  <2>3. c \in Call
    BY <1>0, <2>2 DEF Call
  <2>4. call' = [call EXCEPT ![p] = c]
    BY <2>1
  <2>5. pc' = [pc EXCEPT ![p] = "read"]
    BY <1>0, <1>15 DEF GetRead
  <2> HIDE DEF c
  <2> QED BY <1>0, <1>15, <2>3, <2>4, <2>5, TableQuiet DEF GetRead
<1>16. CASE GetDone(p)
  <2> DEFINE c == [call[p] EXCEPT !.ret = "ok"]
  <2>1. c \in Call /\ call' = [call EXCEPT ![p] = c]
    BY <1>0, <1>16 DEF GetDone, Call, Results
  <2> HIDE DEF c
  <2> QED BY <1>0, <1>16, <2>1, TableQuiet DEF GetDone
<1> QED BY <1>1, <1>2, <1>3, <1>4, <1>5, <1>6, <1>7, <1>8, <1>9, <1>10, <1>11, <1>12, <1>13,
           <1>14, <1>15, <1>16 DEF Acquire

\* The writes of SubscribeToTopic, UnsubscribeFromTopic, CreateTopicSubscription
\* and Close.  Nobody else is between two writes: the lock is held.
LEMMA TableWrite ==
    ASSUME TypeInv, LockInv, TableInv, NEW p \in Procs,
           \/ SubscribeRecord(p) \/ SubscribeHandler(p)
           \/ UnsubscribeRecord(p) \/ UnsubscribeHandler(p)
           \/ CreateRecord(p) \/ CloseRecord(p) \/ CloseHandlers(p)
    PROVE  TableInv'
<1>0. /\ call \in [Procs -> Call]
      /\ pc \in [Procs -> Labels]
      /\ isActive \in [Topics -> BOOLEAN]
      /\ handlers \in [Topics -> Handlers \cup {NoHandler}]
      /\ pc[p] \in {"first", "second"}
      /\ pc'[p] \in {"first", "second", "unlock"}
  BY DEF TypeInv, TypeOK, SubscribeRecord, SubscribeHandler, UnsubscribeRecord, At, GoTo, Finish,
         UnsubscribeHandler, CreateRecord, CloseRecord, CloseHandlers
<1>1. \A q \in Procs : q # p => pc[q] \notin {"first", "second"}
  BY <1>0 DEF LockInv
<1>2. \A q \in Procs : q # p => pc'[q] = pc[q] /\ call'[q] = call[q]
  BY <1>0 DEF SubscribeRecord, SubscribeHandler, UnsubscribeRecord, UnsubscribeHandler,
         CreateRecord, CloseRecord, CloseHandlers, GoTo, Finish
<1>3. \A q \in Procs : q # p => \A t \in Topics : ~Mid(q, t) /\ ~Mid(q, t)'
  BY <1>1, <1>2 DEF Mid, At
\* It is enough to look at the goroutine that moves.
<1>4. ASSUME \A t \in Topics : isActive'[t] => t \in subscriptions',
             \A t \in Topics : Mid(p, t)' \/ (handlers'[t] # NoHandler <=> isActive'[t]),
             At(p, "second", "Subscribe")' => isActive'[call'[p].topic],
             At(p, "second", "Unsubscribe")' => ~isActive'[call'[p].topic],
             At(p, "first", "Close")' => \A t \in Topics : isActive'[t] => t \in call'[p].todo,
             pc'[p] # "unlock" => call'[p] = call[p] \/ call'[p].op # "Subscribe"
      PROVE  TableInv'
  <2>1. ASSUME NEW q \in Procs
        PROVE  /\ At(q, "second", "Subscribe")' => isActive'[call'[q].topic]
               /\ At(q, "second", "Unsubscribe")' => ~isActive'[call'[q].topic]
               /\ At(q, "first", "Close")' => \A t \in Topics : isActive'[t] => t \in call'[q].todo
               /\ /\ call'[q].op = "Subscribe"
                  /\ pc'[q] \in {"lock", "drain", "first", "second"}
                  => call'[q].handler # NoHandler
    <3>1. CASE q = p
      BY <1>0, <1>4, <3>1 DEF TableInv
    <3>2. CASE q # p
      BY <1>1, <1>2, <3>2 DEF TableInv, At
    <3> QED BY <3>1, <3>2
  <2> QED BY <1>4, <2>1 DEF TableInv
<1> USE DEF At, GoTo, Finish
<1>5. CASE SubscribeRecord(p)
  <2>1. call[p].topic \in Topics
    BY <1>5 DEF SubscribeRecord, TypeInv, ArgsOK
  <2> QED BY <1>0, <1>3, <1>4, <1>5, <2>1 DEF SubscribeRecord, TableInv, Mid
<1>6. CASE SubscribeHandler(p)
  <2>1. call[p].topic \in Topics /\ call[p].handler # NoHandler /\ isActive[call[p].topic]
    BY <1>6 DEF SubscribeHandler, TypeInv, ArgsOK, TableInv
  <2> QED BY <1>0, <1>3, <1>4, <1>6, <2>1 DEF SubscribeHandler, TableInv, Mid
<1>7. CASE UnsubscribeRecord(p)
  <2>1. call[p].topic \in Topics
    BY <1>7 DEF UnsubscribeRecord, TypeInv, ArgsOK
  <2> QED BY <1>0, <1>3, <1>4, <1>7, <2>1 DEF UnsubscribeRecord, TableInv, Mid
<1>8. CASE UnsubscribeHandler(p)
  <2>1. call[p].topic \in Topics /\ ~isActive[call[p].topic]
    BY <1>8 DEF UnsubscribeHandler, TypeInv, ArgsOK, TableInv
  <2> QED BY <1>0, <1>3, <1>4, <1>8, <2>1 DEF UnsubscribeHandler, TableInv, Mid
<1>9. CASE CreateRecord(p)
  <2>1. call[p].topic \in Topics
    BY <1>9 DEF CreateRecord, TypeInv, ArgsOK
  <2> QED BY <1>0, <1>3, <1>4, <1>9, <2>1 DEF CreateRecord, TableInv, Mid
<1>10. CASE CloseRecord(p)
  <2>1. PICK t \in call[p].todo :
           /\ isActive' = [isActive EXCEPT ![t] = FALSE]
           /\ call' = [call EXCEPT ![p].todo = @ \ {t}]
    BY <1>10 DEF CloseRecord
  <2>2. call'[p].op = "Close" /\ call'[p].todo = call[p].todo \ {t} /\ pc' = pc
    BY <1>0, <1>10, <2>1 DEF CloseRecord, Call
  <2> QED BY <1>0, <1>3, <1>4, <1>10, <2>1, <2>2 DEF CloseRecord, TableInv, Mid
<1>11. CASE CloseHandlers(p)
  BY <1>0, <1>3, <1>4, <1>11 DEF CloseHandlers, TableInv, Mid
<1> QED BY <1>5, <1>6, <1>7, <1>8, <1>9, <1>10, <1>11

-----------------------------------------------------------------------------
(* What HandleTopicMessage read under the read lock.                        *)

\* HandleTopicMessage reads while nobody is between two writes, so an active
\* record comes with its handler, and errNoHandlerFoundForTopic is not returned.
LEMMA ReadStep ==
    ASSUME TypeInv, SafetyInv, NEW p \in Procs, Start(p) \/ Acquire(p) \/ Proceed(p)
    PROVE  ReadInv' /\ ActiveHasHandler'
<1> DEFINE Safe(q) == /\ pc[q] = "runlock" /\ call[q].live => call[q].handler # NoHandler
                      /\ call[q].ret # "errNoHandlerFoundForTopic"
<1>1. SUFFICES \A q \in Procs : Safe(q)'
  BY DEF ReadInv, ActiveHasHandler
<1>2. \A q \in Procs : Safe(q)
  BY DEF SafetyInv, ReadInv, ActiveHasHandler
<1>3. call \in [Procs -> Call] /\ pc \in [Procs -> Labels]
  BY DEF TypeInv, TypeOK
<1>4. ASSUME Safe(p)', \A q \in Procs : q # p => pc'[q] = pc[q] /\ call'[q] = call[q]
      PROVE  \A q \in Procs : Safe(q)'
  BY <1>2, <1>4
<1>5. ASSUME call'[p] = call[p], pc'[p] # "runlock"
      PROVE  Safe(p)'
  BY <1>2, <1>5
<1>6. ASSUME call'[p].ret # "errNoHandlerFoundForTopic", pc'[p] # "runlock"
      PROVE  Safe(p)'
  BY <1>6
<1> HIDE DEF Safe
<1> USE DEF GoTo, Finish, RUnlock, At
<1>7. CASE Start(p)
  BY <1>3, <1>4, <1>6, <1>7, StartStep DEF Started
<1>8. CASE Acquire(p)
  BY <1>2, <1>3, <1>4, <1>6, <1>8 DEF Acquire, AnnounceLock, AcquireLock, AcquireRLock, Call, Safe
<1>9. CASE Unlock(p) \/ Return(p)
  BY <1>3, <1>4, <1>5, <1>6, <1>9 DEF Unlock, Return, NewCall
<1>10. CASE SubscribeRecord(p) \/ SubscribeHandler(p)
  BY <1>3, <1>4, <1>5, <1>6, <1>10 DEF SubscribeRecord, SubscribeHandler, Call
<1>11. CASE UnsubscribeUnknown(p) \/ UnsubscribeRecord(p) \/ UnsubscribeHandler(p)
  BY <1>3, <1>4, <1>5, <1>6, <1>11
     DEF UnsubscribeUnknown, UnsubscribeRecord, UnsubscribeHandler, Call
<1>12. CASE CreateRecord(p) \/ CloseRecord(p) \/ CloseHandlers(p)
  BY <1>2, <1>3, <1>4, <1>6, <1>12 DEF CreateRecord, CloseRecord, CloseHandlers, Call, Safe
<1>13. CASE HandleRead(p)
  <2>1. call[p].topic \in Topics /\ p \in readers
    BY <1>13 DEF HandleRead, TypeInv, ArgsOK, SafetyInv, LockInv
  <2>2. \A q \in Procs : pc[q] \notin {"first", "second"}
    BY <2>1 DEF SafetyInv, LockInv
  <2>3. isActive[call[p].topic] => handlers[call[p].topic] # NoHandler
    BY <2>1, <2>2 DEF SafetyInv, TableInv, Mid
  <2>4. call'[p].ret = call[p].ret /\ call'[p].handler = handlers[call[p].topic]
        /\ call'[p].live = (call[p].topic \in subscriptions /\ isActive[call[p].topic])
    BY <1>3, <1>13 DEF HandleRead, Call
  <2>5. Safe(p)'
    BY <1>2, <2>3, <2>4 DEF Safe
  <2> QED BY <1>3, <1>4, <1>13, <2>5 DEF HandleRead
<1>14. CASE HandleIgnore(p) \/ HandleAccept(p)
  BY <1>3, <1>4, <1>5, <1>6, <1>14 DEF HandleIgnore, HandleAccept, Call
<1>15. CASE HandleNoHandler(p)
  BY <1>2, <1>15 DEF HandleNoHandler, Safe
<1>16. CASE CountLoad(p)
  BY <1>2, <1>3, <1>4, <1>6, <1>16 DEF CountLoad, Call, Safe
<1>17. CASE CountStore(p) \/ Invoke(p)
  BY <1>3, <1>4, <1>5, <1>17 DEF CountStore, Invoke
<1>18. CASE HandlerReturns(p)
  BY <1>3, <1>4, <1>6, <1>18 DEF HandlerReturns, Call
<1>19. CASE GetRead(p)
  BY <1>2, <1>3, <1>4, <1>6, <1>19 DEF GetRead, Call, Safe
<1>20. CASE GetDone(p)
  BY <1>3, <1>4, <1>6, <1>20 DEF GetDone, Call
<1> QED BY <1>7, <1>8, <1>9, <1>10, <1>11, <1>12, <1>13, <1>14, <1>15, <1>16, <1>17, <1>18,
           <1>19, <1>20 DEF Proceed

-----------------------------------------------------------------------------
(* The theorems.                                                            *)

\* The invariant holds in every reachable state.
THEOREM Safety == Spec => []SafetyInv
<1>1. Init => SafetyInv
  BY Distinct DEF Init, SafetyInv, LockInv, TableInv, ReadInv, ActiveHasHandler, NewCall, Mid, At
<1>2. TypeInv /\ SafetyInv /\ [Next]_vars => SafetyInv'
  <2> SUFFICES ASSUME TypeInv, SafetyInv, [Next]_vars
               PROVE  SafetyInv'
    OBVIOUS
  <2>1. CASE UNCHANGED vars
    BY <2>1 DEF vars, manager, mutex, SafetyInv, LockInv, TableInv, ReadInv, ActiveHasHandler,
                Mid, At
  <2>2. ASSUME NEW p \in Procs, Start(p) \/ Acquire(p) \/ Proceed(p)
        PROVE  SafetyInv'
    <3>1. LockInv'
      BY <2>2, LockStep DEF SafetyInv
    <3>2. TableInv'
      BY <2>2, TableOther, TableWrite DEF SafetyInv, Proceed
    <3>3. ReadInv' /\ ActiveHasHandler'
      BY <2>2, ReadStep
    <3> QED BY <3>1, <3>2, <3>3 DEF SafetyInv
  <2> QED BY <2>1, <2>2 DEF Next
<1> QED BY <1>1, <1>2, ArgumentsCorrect, PTL DEF Spec

\* Whenever nobody is between two writes, a topic has a handler exactly when its
\* record is active: no interleaving of SubscribeToTopic, UnsubscribeFromTopic
\* and Close leaves one map behind the other.
THEOREM MapsInStep == Spec => []HandlersMatchActive
<1>1. SafetyInv => HandlersMatchActive
  BY DEF SafetyInv, TableInv, HandlersMatchActive, Mid, At
<1> QED BY <1>1, Safety, PTL

\* HandleTopicMessage never returns errNoHandlerFoundForTopic.
THEOREM NoMissingHandler == Spec => []ActiveHasHandler
<1>1. SafetyInv => ActiveHasHandler
  BY DEF SafetyInv
<1> QED BY <1>1, Safety, PTL
=============================================================================
