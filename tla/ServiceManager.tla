--------------------------- MODULE ServiceManager ---------------------------
(***************************************************************************)
(* The SLAP topic manager (pkg/slap/topic_manager.go).  It is the SHIP      *)
(* manager with subscriptions to a service on a domain, kept in maps whose  *)
(* key is the two names joined by "@".  The locking is that of TopicManager, *)
(* whose refinement shows that a locked section takes effect at once; here  *)
(* each locked section is one step, and the subject is what the joined keys *)
(* and the names stored in the records do.  Nothing keeps the separator out *)
(* of the names, so two pairs may have one key.                             *)
(***************************************************************************)
EXTENDS Integers, Sequences

CONSTANTS
    Procs,        (* the goroutines that call the manager                   *)
    Services,     (* the service names in use: non-empty strings            *)
    Domains,      (* the domain names in use: non-empty strings             *)
    Characters,   (* the characters names are made of                       *)
    Separator,    (* one of them: "@"                                       *)
    Handlers,     (* the handler functions in use                           *)
    NoHandler,    (* the nil handler                                        *)
    MaxMessages   (* bound: no message starts once a record counted so many *)

Empty == <<>>

ASSUME NamesAreStrings ==
    Separator \in Characters /\ Services \cup Domains \subseteq Seq(Characters) \ {Empty}

ASSUME NilIsNoHandler == NoHandler \notin Handlers

VARIABLES
    subscriptions,  (* tm.subscriptions: a map from keys to records         *)
    handlers,       (* tm.handlers: a map from keys to handlers             *)
    pc,             (* where each goroutine is                              *)
    call,           (* the arguments, locals and result of its current call *)
    delivered       (* history: handler invocations started, per key        *)

tables == <<subscriptions, handlers>>
vars   == <<tables, pc, call, delivered>>

Pairs == Services \X Domains

\* getSubscriptionKey
Key(s, d) == s \o <<Separator>> \o d

Keys == {Key(s, d) : s \in Services, d \in Domains}

Record == [service : Services, domain : Domains, active : BOOLEAN, count : Nat]

Copy == [topic : Pairs, active : BOOLEAN, count : Nat]

Ops == {"None", "Subscribe", "Unsubscribe", "Create", "Close", "Handle", "Get"}

Results == {"none", "ok", "errServiceNameEmpty", "errDomainEmpty", "errMessageHandlerNil",
            "errNotSubscribedToService", "errMessageServiceEmpty", "errMessageDomainEmpty",
            "errNoHandlerFoundForService", "errHandler"}

Call == [op      : Ops,
         service : Services \cup {Empty},
         domain  : Domains \cup {Empty},
         handler : Handlers \cup {NoHandler},  (* argument, or read under the lock *)
         want    : SUBSET Pairs,               (* the pairs a getter is asked about *)
         copies  : SUBSET Copy,                (* the records it returns *)
         ret     : Results]

NewCall(o, s, d, h) == [op |-> o, service |-> s, domain |-> d, handler |-> h,
                        want |-> {}, copies |-> {}, ret |-> "none"]

Labels == {"idle", "called", "accepted", "counted", "handling", "answered"}

TypeOK ==
    /\ DOMAIN subscriptions \subseteq Keys
    /\ subscriptions \in [DOMAIN subscriptions -> Record]
    /\ DOMAIN handlers \subseteq DOMAIN subscriptions
    /\ handlers \in [DOMAIN handlers -> Handlers]
    /\ pc \in [Procs -> Labels]
    /\ call \in [Procs -> Call]
    /\ delivered \in [Keys -> Nat]

\* NewTopicManager: both maps empty.
Init ==
    /\ subscriptions = <<>>
    /\ handlers = <<>>
    /\ pc = [p \in Procs |-> "idle"]
    /\ call = [p \in Procs |-> NewCall("None", Empty, Empty, NoHandler)]
    /\ delivered = [k \in Keys |-> 0]

-----------------------------------------------------------------------------
(* A call is made; an empty name or a nil handler is refused at once.       *)

GoTo(p, l) == pc' = [pc EXCEPT ![p] = l]

Begin(p, l, c) ==
    /\ pc[p] = "idle"
    /\ call' = [call EXCEPT ![p] = c]
    /\ GoTo(p, l)
    /\ UNCHANGED <<tables, delivered>>

Reject(p, o, e) ==
    Begin(p, "answered", [NewCall(o, Empty, Empty, NoHandler) EXCEPT !.ret = e])

\* Fault: a nil handler is accepted.
BeginSubscribeNil(p, s, d, h) ==
    IF s = Empty THEN Reject(p, "Subscribe", "errServiceNameEmpty")
    ELSE IF d = Empty THEN Reject(p, "Subscribe", "errDomainEmpty")
    ELSE Begin(p, "called", NewCall("Subscribe", s, d, h))


BeginSubscribe(p, s, d, h) ==
    IF s = Empty THEN Reject(p, "Subscribe", "errServiceNameEmpty")
    ELSE IF d = Empty THEN Reject(p, "Subscribe", "errDomainEmpty")
    ELSE IF h = NoHandler THEN Reject(p, "Subscribe", "errMessageHandlerNil")
    ELSE Begin(p, "called", NewCall("Subscribe", s, d, h))

\* UnsubscribeFromService and CreateServiceSubscription.
BeginNamed(p, o, s, d) ==
    IF s = Empty THEN Reject(p, o, "errServiceNameEmpty")
    ELSE IF d = Empty THEN Reject(p, o, "errDomainEmpty")
    ELSE Begin(p, "called", NewCall(o, s, d, NoHandler))

BeginClose(p) == Begin(p, "called", NewCall("Close", Empty, Empty, NoHandler))

Count(k) == IF k \in DOMAIN subscriptions THEN subscriptions[k].count ELSE 0

BeginHandle(p, s, d) ==
    IF s = Empty THEN Reject(p, "Handle", "errMessageServiceEmpty")
    ELSE IF d = Empty THEN Reject(p, "Handle", "errMessageDomainEmpty")
    ELSE /\ Count(Key(s, d)) < MaxMessages
         /\ Begin(p, "called", NewCall("Handle", s, d, NoHandler))

\* want is one pair for IsSubscribedToService and GetServiceMessageCount, and
\* all of them for GetSubscribedServices.
BeginGet(p, want) ==
    Begin(p, "called", [NewCall("Get", Empty, Empty, NoHandler) EXCEPT !.want = want])

Return(p) ==
    /\ pc[p] = "answered"
    /\ call' = [call EXCEPT ![p] = NewCall("None", Empty, Empty, NoHandler)]
    /\ GoTo(p, "idle")
    /\ UNCHANGED <<tables, delivered>>

-----------------------------------------------------------------------------
(* The operations, each under the lock.                                     *)

Called(p, o) == pc[p] = "called" /\ call[p].op = o

KeyOf(p) == Key(call[p].service, call[p].domain)

Finish(p, r) ==
    /\ call' = [call EXCEPT ![p].ret = r]
    /\ GoTo(p, "answered")

NewRecord(s, d, b) == [service |-> s, domain |-> d, active |-> b, count |-> 0]

\* Setting and deleting a map entry.
With(f, k, v) == [x \in DOMAIN f \cup {k} |-> IF x = k THEN v ELSE f[x]]

Without(f, k) == [x \in DOMAIN f \ {k} |-> f[x]]

Subscribe(p) ==
    LET k == KeyOf(p) IN
    /\ Called(p, "Subscribe")
    /\ subscriptions' =
         IF k \in DOMAIN subscriptions THEN [subscriptions EXCEPT ![k].active = TRUE]
         ELSE With(subscriptions, k, NewRecord(call[p].service, call[p].domain, TRUE))
    /\ handlers' = With(handlers, k, call[p].handler)
    /\ Finish(p, "ok")
    /\ UNCHANGED delivered

\* Fault: the handler of an unsubscribed service is kept.
UnsubscribeKeepsHandler(p) ==
    LET k == KeyOf(p) IN
    /\ Called(p, "Unsubscribe")
    /\ IF k \in DOMAIN subscriptions
       THEN /\ subscriptions' = [subscriptions EXCEPT ![k].active = FALSE]
            /\ handlers' = handlers
            /\ Finish(p, "ok")
       ELSE Finish(p, "errNotSubscribedToService") /\ UNCHANGED tables
    /\ UNCHANGED delivered


Unsubscribe(p) ==
    LET k == KeyOf(p) IN
    /\ Called(p, "Unsubscribe")
    /\ IF k \in DOMAIN subscriptions
       THEN /\ subscriptions' = [subscriptions EXCEPT ![k].active = FALSE]
            /\ handlers' = Without(handlers, k)
            /\ Finish(p, "ok")
       ELSE Finish(p, "errNotSubscribedToService") /\ UNCHANGED tables
    /\ UNCHANGED delivered

\* Fault: the new record may get the name of another service.
CreateUnderAnotherName(p) ==
    LET k == KeyOf(p) IN
    /\ Called(p, "Create")
    /\ \E s \in Services :
         subscriptions' =
           IF k \in DOMAIN subscriptions THEN subscriptions
           ELSE With(subscriptions, k, NewRecord(s, call[p].domain, FALSE))
    /\ Finish(p, "ok")
    /\ UNCHANGED <<handlers, delivered>>


Create(p) ==
    LET k == KeyOf(p) IN
    /\ Called(p, "Create")
    /\ subscriptions' =
         IF k \in DOMAIN subscriptions THEN subscriptions
         ELSE With(subscriptions, k, NewRecord(call[p].service, call[p].domain, FALSE))
    /\ Finish(p, "ok")
    /\ UNCHANGED <<handlers, delivered>>

Close(p) ==
    /\ Called(p, "Close")
    /\ subscriptions' = [k \in DOMAIN subscriptions |->
                            [subscriptions[k] EXCEPT !.active = FALSE]]
    /\ handlers' = <<>>
    /\ Finish(p, "ok")
    /\ UNCHANGED delivered

-----------------------------------------------------------------------------
(* HandleServiceMessage: look up, count, call the handler, in three steps.  *)

Active(k) == k \in DOMAIN subscriptions /\ subscriptions[k].active

\* An inactive pair is ignored, an active one without a handler is an error.
Decline(p) ==
    LET k == KeyOf(p) IN
    /\ Called(p, "Handle")
    /\ ~(Active(k) /\ k \in DOMAIN handlers)
    /\ Finish(p, IF Active(k) THEN "errNoHandlerFoundForService" ELSE "ok")
    /\ UNCHANGED <<tables, delivered>>

Accept(p) ==
    LET k == KeyOf(p) IN
    /\ Called(p, "Handle")
    /\ Active(k) /\ k \in DOMAIN handlers
    /\ call' = [call EXCEPT ![p].handler = handlers[k]]
    /\ GoTo(p, "accepted")
    /\ UNCHANGED <<tables, delivered>>

CountMessage(p) ==
    /\ pc[p] = "accepted"
    /\ subscriptions' = [subscriptions EXCEPT ![KeyOf(p)].count = @ + 1]
    /\ GoTo(p, "counted")
    /\ UNCHANGED <<handlers, call, delivered>>

Invoke(p) ==
    /\ pc[p] = "counted"
    /\ delivered' = [delivered EXCEPT ![KeyOf(p)] = @ + 1]
    /\ GoTo(p, "handling")
    /\ UNCHANGED <<tables, call>>

HandlerReturns(p) ==
    /\ pc[p] = "handling"
    /\ \E r \in {"ok", "errHandler"} : Finish(p, r)
    /\ UNCHANGED <<tables, delivered>>

-----------------------------------------------------------------------------
(* The getters.                                                             *)

Records == {subscriptions[k] : k \in DOMAIN subscriptions}

CopyAs(x, r) == [topic |-> x, active |-> r.active, count |-> r.count]

\* IsSubscribedToService and GetServiceMessageCount look a pair up by its key,
\* GetSubscribedServices copies each record with the names it holds.
GetLookup(p, x) ==
    LET k == Key(x[1], x[2]) IN
    /\ Called(p, "Get")
    /\ call[p].want = {x}
    /\ call' = [call EXCEPT ![p].copies =
                   IF k \in DOMAIN subscriptions THEN {CopyAs(x, subscriptions[k])} ELSE {},
                            ![p].ret = "ok"]
    /\ GoTo(p, "answered")
    /\ UNCHANGED <<tables, delivered>>

GetAll(p) ==
    /\ Called(p, "Get")
    /\ call[p].want = Pairs
    /\ call' = [call EXCEPT ![p].copies = {CopyAs(<<r.service, r.domain>>, r) : r \in Records},
                            ![p].ret = "ok"]
    /\ GoTo(p, "answered")
    /\ UNCHANGED <<tables, delivered>>

IsSubscribedToService(s, d) == Active(Key(s, d))

GetServicesByDomain(d) == {r \in Records : r.domain = d /\ r.active}

GetAvailableServices == {r.service : r \in {x \in Records : x.active}}

-----------------------------------------------------------------------------
Effect(p) ==
    \/ Subscribe(p) \/ Unsubscribe(p) \/ Create(p) \/ Close(p)
    \/ Decline(p) \/ Accept(p)
    \/ CountMessage(p) \/ Invoke(p) \/ HandlerReturns(p)
    \/ GetAll(p) \/ \E x \in Pairs : GetLookup(p, x)

Start(p) ==
    \/ \E s \in Services \cup {Empty}, d \in Domains \cup {Empty} :
         \/ \E h \in Handlers \cup {NoHandler} : BeginSubscribe(p, s, d, h)
         \/ \E o \in {"Unsubscribe", "Create"} : BeginNamed(p, o, s, d)
         \/ BeginHandle(p, s, d)
    \/ BeginClose(p)
    \/ BeginGet(p, Pairs)
    \/ \E x \in Pairs : BeginGet(p, {x})

Next == \E p \in Procs : Start(p) \/ Effect(p) \/ Return(p)

Spec == Init /\ [][Next]_vars

-----------------------------------------------------------------------------
(* Properties                                                               *)

\* The three ways to ask agree: IsSubscribedToService says yes exactly when one of
\* the listings by domain (GetServicesByDomain) has a service whose pair has the same
\* key, and the available services (GetAvailableServices) are those so listed.  The
\* lists go by the names in the records, the question by the joined key.
ListingsAgree ==
    /\ \A s \in Services, d \in Domains :
         IsSubscribedToService(s, d) <=>
             \E e \in Domains : \E r \in GetServicesByDomain(e) : Key(r.service, e) = Key(s, d)
    /\ GetAvailableServices = {r.service : r \in UNION {GetServicesByDomain(d) : d \in Domains}}

\* A pair has a key of its own, as getSubscriptionKey says: a message is counted in the
\* record of the service and the domain it names.
CountedForItsOwnPair ==
    \A p \in Procs : pc[p] = "counted" =>
        LET r == subscriptions[KeyOf(p)]
        IN  r.service = call[p].service /\ r.domain = call[p].domain

-----------------------------------------------------------------------------
(* Refinement: the manager is the atomic one whose topics are the keys.     *)

KeyOfPair(x) == Key(x[1], x[2])

absIsActive == [k \in Keys |-> Active(k)]

absCount == [k \in Keys |-> Count(k)]

absHandlers == [k \in Keys |-> IF k \in DOMAIN handlers THEN handlers[k] ELSE NoHandler]

\* No key is empty: it holds the separator at least.
RequestOf(c) == [op |-> c.op,
                 topic |-> IF c.service = Empty THEN Empty ELSE Key(c.service, c.domain),
                 handler |-> c.handler, want |-> {KeyOfPair(x) : x \in c.want}]

absResult(r) ==
    IF r \in {"errServiceNameEmpty", "errDomainEmpty"} THEN "errTopicNameEmpty"
    ELSE IF r \in {"errMessageServiceEmpty", "errMessageDomainEmpty"} THEN "errMessageTopicEmpty"
    ELSE IF r = "errNotSubscribedToService" THEN "errNotSubscribedToTopic"
    ELSE r

CopyByKey(y) == [topic |-> KeyOfPair(y.topic), active |-> y.active, count |-> y.count]

AnswerOf(c) == [ret |-> absResult(c.ret), copies |-> {CopyByKey(y) : y \in c.copies}]

absRequest == [p \in Procs |-> RequestOf(call[p])]
absAnswer  == [p \in Procs |-> AnswerOf(call[p])]
absNested  == [p \in Procs |-> FALSE]

Atomic == INSTANCE Subscriptions WITH
    Topics        <- Keys,
    EmptyTopic    <- Empty,
    subscriptions <- DOMAIN subscriptions,
    isActive      <- absIsActive,
    messageCount  <- absCount,
    handlers      <- absHandlers,
    stage         <- pc,
    request       <- absRequest,
    answer        <- absAnswer,
    nested        <- absNested

\* Keys do not interfere, whatever the names are: a call about a pair acts on the
\* record, the count and the handler of its key only, a message reaches the handler its
\* key had when it was accepted, and a getter reports each record under the key it has.
KeysAreSeparate == Atomic!Spec
=============================================================================
