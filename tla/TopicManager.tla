---------------------------- MODULE TopicManager ----------------------------
(***************************************************************************)
(* The SHIP topic manager (pkg/ship/topic_manager.go): a table of topic     *)
(* subscriptions and a table of message handlers, guarded by one            *)
(* sync.RWMutex and shared by any number of goroutines.                     *)
(*                                                                          *)
(* Every access to the two tables is a step of its own, so that a goroutine *)
(* can be overtaken between the two writes of SubscribeToTopic, between two *)
(* iterations of a loop, between the load and the store of MessageCount++   *)
(* and, above all, between the unlock in HandleTopicMessage and the call of *)
(* the handler it read under the lock.  A handler may call the manager back.*)
(***************************************************************************)
EXTENDS Integers, FiniteSets

CONSTANTS
    Procs,        (* the goroutines that call the manager                   *)
    Topics,       (* the topic names in use                                 *)
    Handlers,     (* the handler functions in use                           *)
    EmptyTopic,   (* the empty string, which every operation rejects        *)
    NoHandler,    (* the nil handler, and the absence of a map entry        *)
    NoProc,       (* nobody                                                 *)
    MaxMessages   (* bound: no message starts once a topic's handler was called so *)
                  (* many times, and no caller sets a count to more               *)

ASSUME Distinct ==
    /\ EmptyTopic \notin Topics
    /\ NoHandler \notin Handlers
    /\ NoProc \notin Procs

ASSUME Finite == IsFiniteSet(Procs)

ASSUME MaxMessagesNat == MaxMessages \in Nat

VARIABLES
    subscriptions,  (* the keys of tm.subscriptions: records are never removed *)
    isActive,       (* the field IsActive of each record                    *)
    messageCount,   (* the field MessageCount of each record                *)
    handlers,       (* tm.handlers                                          *)
    readers,        (* the goroutines between RLock and RUnlock             *)
    writer,         (* the goroutine between the start of Lock and Unlock   *)
    pc,             (* where each goroutine is                              *)
    call,           (* the arguments, locals and result of its current call *)
    nested,         (* is that call made from inside a handler?             *)
    delivered       (* history: handler invocations started, per topic      *)

manager == <<subscriptions, isActive, messageCount, handlers>>
mutex   == <<readers, writer>>
vars    == <<manager, mutex, pc, call, nested, delivered>>

(***************************************************************************)
(* The operations.  "Get" stands for the five read-only methods: they copy  *)
(* records under the read lock and differ in what they make of the copies.  *)
(***************************************************************************)
Ops == {"None", "Subscribe", "Unsubscribe", "Create", "Close", "Handle", "Get"}

Results == {"none", "ok", "errTopicNameEmpty", "errMessageHandlerNil",
            "errNotSubscribedToTopic", "errMessageTopicEmpty",
            "errNoHandlerFoundForTopic", "errHandler"}

Copy == [topic : Topics, active : BOOLEAN, count : Nat]

Call == [op      : Ops,
         topic   : Topics \cup {EmptyTopic},
         handler : Handlers \cup {NoHandler},  (* argument, or read under the lock *)
         live    : BOOLEAN,                    (* isActive, read under the lock *)
         loaded  : Nat,                        (* MessageCount before its store *)
         want    : SUBSET Topics,              (* the topics a getter is asked about *)
         todo    : SUBSET Topics,              (* keys a loop has yet to visit *)
         copies  : SUBSET Copy,                (* records copied so far *)
         ret     : Results]

NewCall(o, t, h) == [op |-> o, topic |-> t, handler |-> h, live |-> FALSE, loaded |-> 0,
                     want |-> {}, todo |-> {}, copies |-> {}, ret |-> "none"]

Labels == {"idle", "lock", "drain", "first", "second", "unlock", "rlock", "read",
           "runlock", "invoke", "handling", "resumed", "return"}

TypeOK ==
    /\ subscriptions \in SUBSET Topics
    /\ isActive \in [Topics -> BOOLEAN]
    /\ messageCount \in [Topics -> Nat]
    /\ handlers \in [Topics -> Handlers \cup {NoHandler}]
    /\ readers \in SUBSET Procs
    /\ writer \in Procs \cup {NoProc}
    /\ pc \in [Procs -> Labels]
    /\ call \in [Procs -> Call]
    /\ nested \in [Procs -> BOOLEAN]
    /\ delivered \in [Topics -> Nat]

\* A call that is under way names a topic: the empty one was refused at once.
ArgsOK ==
    \A p \in Procs :
        /\ call[p].op \in {"Subscribe", "Unsubscribe", "Create", "Handle"}
        /\ pc[p] \notin {"idle", "return", "handling", "resumed"}
        => call[p].topic \in Topics

\* NewTopicManager: both maps empty.
Init ==
    /\ subscriptions = {}
    /\ isActive = [t \in Topics |-> FALSE]
    /\ messageCount = [t \in Topics |-> 0]
    /\ handlers = [t \in Topics |-> NoHandler]
    /\ readers = {}
    /\ writer = NoProc
    /\ pc = [p \in Procs |-> "idle"]
    /\ call = [p \in Procs |-> NewCall("None", EmptyTopic, NoHandler)]
    /\ nested = [p \in Procs |-> FALSE]
    /\ delivered = [t \in Topics |-> 0]

-----------------------------------------------------------------------------
(* sync.RWMutex.  A goroutine that calls Lock excludes new readers at once  *)
(* and then waits for the readers that are in to leave.                     *)

GoTo(p, l) == pc' = [pc EXCEPT ![p] = l]

AnnounceLock(p) ==
    /\ pc[p] = "lock"
    /\ writer = NoProc
    /\ writer' = p
    /\ GoTo(p, "drain")
    /\ UNCHANGED <<manager, readers, call, nested, delivered>>

\* Close ranges over the keys the map has when the lock is granted.
AcquireLock(p) ==
    /\ pc[p] = "drain"
    /\ readers = {}
    /\ call' = [call EXCEPT ![p].todo = IF call[p].op = "Close" THEN subscriptions ELSE {}]
    /\ GoTo(p, "first")
    /\ UNCHANGED <<manager, mutex, nested, delivered>>

Unlock(p) ==
    /\ pc[p] = "unlock"
    /\ writer' = NoProc
    /\ GoTo(p, IF call[p].op = "Handle" THEN "invoke" ELSE "return")
    /\ UNCHANGED <<manager, readers, call, nested, delivered>>

\* The getters range over the keys the map has when the read lock is granted.
AcquireRLock(p) ==
    /\ pc[p] = "rlock"
    /\ writer = NoProc
    /\ readers' = readers \cup {p}
    /\ call' = [call EXCEPT ![p].todo = call[p].want \cap subscriptions]
    /\ GoTo(p, "read")
    /\ UNCHANGED <<manager, writer, nested, delivered>>

-----------------------------------------------------------------------------
(* A call starts in an idle goroutine, or in a handler that is running.     *)
(* A handler makes at most one call of its own before it returns.           *)

Begin(p, l, c) ==
    /\ \/ pc[p] = "idle"
       \/ pc[p] = "handling" /\ ~nested[p]
    /\ nested' = [nested EXCEPT ![p] = (pc[p] = "handling")]
    /\ call' = [call EXCEPT ![p] = c]
    /\ GoTo(p, l)
    /\ UNCHANGED <<manager, mutex, delivered>>

Reject(p, o, e) ==
    Begin(p, "return", [NewCall(o, EmptyTopic, NoHandler) EXCEPT !.ret = e])

BeginSubscribe(p, t, h) ==
    IF t = EmptyTopic THEN Reject(p, "Subscribe", "errTopicNameEmpty")
    ELSE IF h = NoHandler THEN Reject(p, "Subscribe", "errMessageHandlerNil")
    ELSE Begin(p, "lock", NewCall("Subscribe", t, h))

BeginUnsubscribe(p, t) ==
    IF t = EmptyTopic THEN Reject(p, "Unsubscribe", "errTopicNameEmpty")
    ELSE Begin(p, "lock", NewCall("Unsubscribe", t, NoHandler))

BeginCreate(p, t) ==
    IF t = EmptyTopic THEN Reject(p, "Create", "errTopicNameEmpty")
    ELSE Begin(p, "lock", NewCall("Create", t, NoHandler))

BeginClose(p) == Begin(p, "lock", NewCall("Close", EmptyTopic, NoHandler))

\* Fault: the tables are read without the read lock.
BeginHandleUnlocked(p, t) ==
    IF t = EmptyTopic THEN Reject(p, "Handle", "errMessageTopicEmpty")
    ELSE /\ delivered[t] < MaxMessages
         /\ Begin(p, "read", NewCall("Handle", t, NoHandler))


BeginHandle(p, t) ==
    IF t = EmptyTopic THEN Reject(p, "Handle", "errMessageTopicEmpty")
    ELSE /\ delivered[t] < MaxMessages
         /\ Begin(p, "rlock", NewCall("Handle", t, NoHandler))

\* Fault: a getter loops over the table without the read lock.
BeginGetUnlocked(p, want) ==
    Begin(p, "read", [NewCall("Get", EmptyTopic, NoHandler) EXCEPT
                         !.want = want, !.todo = want \cap subscriptions])


\* want is one topic for IsSubscribedToTopic and GetTopicMessageCount and all
\* of them for GetSubscribedTopics, GetActiveTopicCount, GetTotalMessageCount.
BeginGet(p, want) ==
    Begin(p, "rlock", [NewCall("Get", EmptyTopic, NoHandler) EXCEPT !.want = want])

Return(p) ==
    /\ pc[p] = "return"
    /\ call' = [call EXCEPT ![p] = NewCall(IF nested[p] THEN "Handle" ELSE "None",
                                           EmptyTopic, NoHandler)]
    /\ nested' = [nested EXCEPT ![p] = FALSE]
    /\ GoTo(p, IF nested[p] THEN "resumed" ELSE "idle")
    /\ UNCHANGED <<manager, mutex, delivered>>

-----------------------------------------------------------------------------
(* SubscribeToTopic, under the lock: the record, then the handler.          *)

At(p, l, o) == pc[p] = l /\ call[p].op = o

Finish(p, r) ==
    /\ call' = [call EXCEPT ![p].ret = r]
    /\ GoTo(p, "unlock")

SubscribeRecord(p) ==
    LET t == call[p].topic IN
    /\ At(p, "first", "Subscribe")
    /\ subscriptions' = subscriptions \cup {t}
    /\ isActive' = [isActive EXCEPT ![t] = TRUE]
    /\ messageCount' = [messageCount EXCEPT ![t] = IF t \in subscriptions THEN @ ELSE 0]
    /\ GoTo(p, "second")
    /\ UNCHANGED <<handlers, mutex, call, nested, delivered>>

SubscribeHandler(p) ==
    /\ At(p, "second", "Subscribe")
    /\ handlers' = [handlers EXCEPT ![call[p].topic] = call[p].handler]
    /\ Finish(p, "ok")
    /\ UNCHANGED <<subscriptions, isActive, messageCount, mutex, nested, delivered>>

(* UnsubscribeFromTopic: the record is kept, the handler is removed.        *)

UnsubscribeUnknown(p) ==
    /\ At(p, "first", "Unsubscribe")
    /\ call[p].topic \notin subscriptions
    /\ Finish(p, "errNotSubscribedToTopic")
    /\ UNCHANGED <<manager, mutex, nested, delivered>>

UnsubscribeRecord(p) ==
    /\ At(p, "first", "Unsubscribe")
    /\ call[p].topic \in subscriptions
    /\ isActive' = [isActive EXCEPT ![call[p].topic] = FALSE]
    /\ GoTo(p, "second")
    /\ UNCHANGED <<subscriptions, messageCount, handlers, mutex, call, nested, delivered>>

UnsubscribeHandler(p) ==
    /\ At(p, "second", "Unsubscribe")
    /\ handlers' = [handlers EXCEPT ![call[p].topic] = NoHandler]
    /\ Finish(p, "ok")
    /\ UNCHANGED <<subscriptions, isActive, messageCount, mutex, nested, delivered>>

(* CreateTopicSubscription: an existing record is returned as it is.        *)

\* Fault: an existing record is replaced by a new one.
CreateNewRecord(p) ==
    LET t == call[p].topic IN
    /\ At(p, "first", "Create")
    /\ subscriptions' = subscriptions \cup {t}
    /\ isActive' = [isActive EXCEPT ![t] = FALSE]
    /\ messageCount' = [messageCount EXCEPT ![t] = 0]
    /\ Finish(p, "ok")
    /\ UNCHANGED <<handlers, mutex, nested, delivered>>


CreateRecord(p) ==
    LET t == call[p].topic IN
    /\ At(p, "first", "Create")
    /\ subscriptions' = subscriptions \cup {t}
    /\ isActive' = [isActive EXCEPT ![t] = t \in subscriptions /\ @]
    /\ messageCount' = [messageCount EXCEPT ![t] = IF t \in subscriptions THEN @ ELSE 0]
    /\ Finish(p, "ok")
    /\ UNCHANGED <<handlers, mutex, nested, delivered>>

(* Close: deactivate every record, then drop every handler.                 *)

CloseRecord(p) ==
    /\ At(p, "first", "Close")
    /\ \E t \in call[p].todo :
         /\ isActive' = [isActive EXCEPT ![t] = FALSE]
         /\ call' = [call EXCEPT ![p].todo = @ \ {t}]
    /\ UNCHANGED <<subscriptions, messageCount, handlers, mutex, pc, nested, delivered>>

\* Fault: Close forgets to clear the handlers.
CloseKeepsHandlers(p) ==
    /\ At(p, "first", "Close")
    /\ call[p].todo = {}
    /\ Finish(p, "ok")
    /\ UNCHANGED <<manager, mutex, nested, delivered>>


CloseHandlers(p) ==
    /\ At(p, "first", "Close")
    /\ call[p].todo = {}
    /\ handlers' = [t \in Topics |-> NoHandler]
    /\ Finish(p, "ok")
    /\ UNCHANGED <<subscriptions, isActive, messageCount, mutex, nested, delivered>>

-----------------------------------------------------------------------------
(* HandleTopicMessage: read both tables under the read lock, release it,    *)
(* decide, count under the lock, release it, call the handler.              *)

HandleRead(p) ==
    LET t == call[p].topic IN
    /\ At(p, "read", "Handle")
    /\ call' = [call EXCEPT ![p].handler = handlers[t],
                            ![p].live = t \in subscriptions /\ isActive[t]]
    /\ GoTo(p, "runlock")
    /\ UNCHANGED <<manager, mutex, nested, delivered>>

RUnlock(p) ==
    /\ readers' = readers \ {p}
    /\ UNCHANGED <<manager, writer, nested, delivered>>

HandleIgnore(p) ==
    /\ At(p, "runlock", "Handle")
    /\ ~call[p].live
    /\ call' = [call EXCEPT ![p].ret = "ok"]
    /\ GoTo(p, "return")
    /\ RUnlock(p)

HandleNoHandler(p) ==
    /\ At(p, "runlock", "Handle")
    /\ call[p].live /\ call[p].handler = NoHandler
    /\ call' = [call EXCEPT ![p].ret = "errNoHandlerFoundForTopic"]
    /\ GoTo(p, "return")
    /\ RUnlock(p)

\* Fault: the count is incremented without the lock.
CountWithoutLock(p) ==
    /\ At(p, "runlock", "Handle")
    /\ call[p].live /\ call[p].handler # NoHandler
    /\ GoTo(p, "first")
    /\ RUnlock(p)
    /\ UNCHANGED call

\* Fault: the handler is called without counting the message.
AcceptUncounted(p) ==
    /\ At(p, "runlock", "Handle")
    /\ call[p].live /\ call[p].handler # NoHandler
    /\ GoTo(p, "invoke")
    /\ RUnlock(p)
    /\ UNCHANGED call


\* Fault: an active record is taken for one with a handler.
AcceptWithoutHandler(p) ==
    /\ At(p, "runlock", "Handle")
    /\ call[p].live
    /\ GoTo(p, "lock")
    /\ RUnlock(p)
    /\ UNCHANGED call


HandleAccept(p) ==
    /\ At(p, "runlock", "Handle")
    /\ call[p].live /\ call[p].handler # NoHandler
    /\ GoTo(p, "lock")
    /\ RUnlock(p)
    /\ UNCHANGED call

CountLoad(p) ==
    /\ At(p, "first", "Handle")
    /\ call' = [call EXCEPT ![p].loaded = messageCount[call[p].topic]]
    /\ GoTo(p, "second")
    /\ UNCHANGED <<manager, mutex, nested, delivered>>

\* Fault: the lock is kept while the handler runs.
CountStoreLocked(p) ==
    /\ At(p, "second", "Handle")
    /\ messageCount' = [messageCount EXCEPT ![call[p].topic] = call[p].loaded + 1]
    /\ GoTo(p, "invoke")
    /\ UNCHANGED <<subscriptions, isActive, handlers, mutex, call, nested, delivered>>

\* Fault: the count goes down.
CountDown(p) ==
    /\ At(p, "second", "Handle")
    /\ messageCount' = [messageCount EXCEPT ![call[p].topic] = call[p].loaded - 1]
    /\ GoTo(p, "unlock")
    /\ UNCHANGED <<subscriptions, isActive, handlers, mutex, call, nested, delivered>>


CountStore(p) ==
    /\ At(p, "second", "Handle")
    /\ messageCount' = [messageCount EXCEPT ![call[p].topic] = call[p].loaded + 1]
    /\ GoTo(p, "unlock")
    /\ UNCHANGED <<subscriptions, isActive, handlers, mutex, call, nested, delivered>>

Invoke(p) ==
    /\ At(p, "invoke", "Handle")
    /\ delivered' = [delivered EXCEPT ![call[p].topic] = @ + 1]
    /\ GoTo(p, "handling")
    /\ UNCHANGED <<manager, mutex, call, nested>>

HandlerReturns(p) ==
    /\ pc[p] \in {"handling", "resumed"}
    /\ \E r \in {"ok", "errHandler"} : call' = [call EXCEPT ![p].ret = r]
    /\ GoTo(p, "return")
    /\ UNCHANGED <<manager, mutex, nested, delivered>>

-----------------------------------------------------------------------------
(* The read-only methods: copy the records one by one under the read lock.  *)

CopyOf(t) == [topic |-> t, active |-> isActive[t], count |-> messageCount[t]]

GetRead(p) ==
    /\ At(p, "read", "Get")
    /\ \E t \in call[p].todo :
         call' = [call EXCEPT ![p].copies = @ \cup {CopyOf(t)}, ![p].todo = @ \ {t}]
    /\ UNCHANGED <<manager, mutex, pc, nested, delivered>>

GetDone(p) ==
    /\ At(p, "read", "Get")
    /\ call[p].todo = {}
    /\ call' = [call EXCEPT ![p].ret = "ok"]
    /\ GoTo(p, "return")
    /\ RUnlock(p)

-----------------------------------------------------------------------------
Acquire(p) == AnnounceLock(p) \/ AcquireLock(p) \/ AcquireRLock(p)

Proceed(p) ==
    \/ Unlock(p)
    \/ Return(p)
    \/ SubscribeRecord(p)    \/ SubscribeHandler(p)
    \/ UnsubscribeUnknown(p) \/ UnsubscribeRecord(p) \/ UnsubscribeHandler(p)
    \/ CreateRecord(p)
    \/ CloseRecord(p)        \/ CloseHandlers(p)
    \/ HandleRead(p)  \/ HandleIgnore(p) \/ HandleNoHandler(p) \/ HandleAccept(p)
    \/ CountLoad(p)   \/ CountStore(p)
    \/ Invoke(p)      \/ HandlerReturns(p)
    \/ GetRead(p)     \/ GetDone(p)

Start(p) ==
    \/ \E t \in Topics \cup {EmptyTopic} :
         \/ \E h \in Handlers \cup {NoHandler} : BeginSubscribe(p, t, h)
         \/ BeginUnsubscribe(p, t)
         \/ BeginCreate(p, t)
         \/ BeginHandle(p, t)
    \/ BeginClose(p)
    \/ BeginGet(p, Topics)
    \/ \E t \in Topics : BeginGet(p, {t})

Next == \E p \in Procs : Start(p) \/ Acquire(p) \/ Proceed(p)

Spec == Init /\ [][Next]_vars

(***************************************************************************)
(* A started call keeps running, a handler returns, and RWMutex starves     *)
(* nobody: a waiting Lock blocks later readers and Unlock lets the readers  *)
(* that queued behind it in first, so a lock that is free again and again   *)
(* is granted in the end.  Nobody is obliged to start a call.               *)
(***************************************************************************)
Fairness == \A p \in Procs : WF_vars(Proceed(p)) /\ SF_vars(Acquire(p))

(***************************************************************************)
(* CreateTopicSubscription returns the record itself, not a copy: a caller   *)
(* can set IsActive and MessageCount on it at any time, without any lock.    *)
(* (It can set the other two fields too, which no operation reads.)          *)
(***************************************************************************)
AliasWrite(t) ==
    /\ t \in subscriptions
    /\ \/ /\ \E b \in BOOLEAN : isActive' = [isActive EXCEPT ![t] = b]
          /\ UNCHANGED messageCount
       \/ /\ \E n \in 0..MaxMessages : messageCount' = [messageCount EXCEPT ![t] = n]
          /\ UNCHANGED isActive
    /\ UNCHANGED <<subscriptions, handlers, mutex, pc, call, nested, delivered>>

AliasNext == Next \/ \E t \in Topics : AliasWrite(t)

AliasSpec == Init /\ [][AliasNext]_vars /\ Fairness

-----------------------------------------------------------------------------
(* Properties                                                               *)

\* Whenever nobody is between two writes, a topic has a handler exactly when
\* its record is active: SubscribeToTopic, UnsubscribeFromTopic and Close keep
\* the two maps in step although they write them one after the other.
HandlersMatchActive ==
    (\A p \in Procs : pc[p] \notin {"first", "second"})
        => \A t \in Topics : handlers[t] # NoHandler <=> t \in subscriptions /\ isActive[t]

\* HandleTopicMessage never finds an active subscription without a handler,
\* whatever it overlaps with: errNoHandlerFoundForTopic is unreachable as long
\* as nobody writes a record from outside.
ActiveHasHandler ==
    \A p \in Procs : call[p].ret # "errNoHandlerFoundForTopic"

\* MessageCount is exact: it equals the handler invocations started, plus the
\* calls that have counted and are about to invoke.  No increment is lost to a
\* concurrent one, none is made for an ignored message, none is undone.  (A caller
\* that writes MessageCount through the pointer it was given breaks this.)
InFlight(t) ==
    {p \in Procs : call[p].op = "Handle" /\ call[p].topic = t /\ pc[p] \in {"unlock", "invoke"}}

CountMatchesDeliveries ==
    \A t \in Topics : messageCount[t] = delivered[t] + Cardinality(InFlight(t))

\* What a getter has copied so far is the table as it is now: the answer of
\* GetTotalMessageCount, GetActiveTopicCount or GetSubscribedTopics is a state the
\* table really had, never a mixture.
GettersAreSnapshots ==
    \A p \in Procs : At(p, "read", "Get") =>
        call[p].copies = {CopyOf(t) : t \in (call[p].want \cap subscriptions) \ call[p].todo}

\* A record outlives unsubscribing, resubscribing and Close: its count never
\* goes down and moves one message at a time.
HistoryIsKept ==
    [][/\ subscriptions \subseteq subscriptions'
       /\ \A t \in Topics : messageCount'[t] \in {messageCount[t], messageCount[t] + 1}]_vars

\* Every call returns, whoever it competes with for the lock and even if its
\* handler calls the manager again: no lock is held while a handler runs.
EveryCallReturns ==
    \A p \in Procs : (pc[p] # "idle") ~> (pc[p] = "idle")

\* What is called is a handler somebody subscribed, never nil, even for a record that
\* was made active from outside before it had a handler.
OnlyHandlersAreCalled ==
    \A p \in Procs : At(p, "invoke", "Handle") => call[p].handler \in Handlers
=============================================================================
