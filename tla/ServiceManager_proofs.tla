------------------------ MODULE ServiceManager_proofs ------------------------
(***************************************************************************)
(* Proofs about ServiceManager, for all names, those that hold the separator *)
(* and share a key included: a record carries names its key is joined from,  *)
(* so the ways to ask for a subscription agree up to the key, and the manager *)
(* implements the atomic one whose topics are the keys.                      *)
(***************************************************************************)
EXTENDS ServiceManager, SequenceTheorems, TLAPS

\* A key holds the separator at least, and so is not the empty string.
LEMMA KeyNotEmpty ==
    ASSUME NEW s \in Services, NEW d \in Domains
    PROVE  Key(s, d) \in Keys /\ Key(s, d) # Empty
<1>1. s \in Seq(Characters) /\ d \in Seq(Characters) /\ <<Separator>> \in Seq(Characters)
  BY NamesAreStrings
<1> DEFINE m == s \o <<Separator>>
<1>2. m \in Seq(Characters) /\ Len(m) = Len(s) + 1
  BY <1>1, ConcatProperties
<1>3. Key(s, d) = m \o d
  BY DEF Key
<1> HIDE DEF m
<1>4. Len(m \o d) = Len(m) + Len(d)
  BY <1>1, <1>2, ConcatProperties
<1>5. Len(m \o d) # 0
  BY <1>1, <1>2, <1>4
<1> QED BY <1>3, <1>5 DEF Empty, Keys

-----------------------------------------------------------------------------
(* The inductive invariant.                                                 *)

\* A call under way names a service and a domain: empty names were refused.
ArgsOK ==
    \A p \in Procs :
        \/ pc[p] \in {"accepted", "counted", "handling"}
        \/ pc[p] = "called" /\ call[p].op \in {"Subscribe", "Unsubscribe", "Create", "Handle"}
        => call[p].service \in Services /\ call[p].domain \in Domains

\* A record carries the names its key was joined from.
NamesMatchKeys ==
    \A k \in DOMAIN subscriptions :
        k = Key(subscriptions[k].service, subscriptions[k].domain)

\* The part of TypeOK about the table of records.
TableOK == subscriptions \in [DOMAIN subscriptions -> Record]

CallsOK ==
    /\ pc \in [Procs -> Labels]
    /\ call \in [Procs -> Call]

TableInv == TableOK /\ CallsOK /\ ArgsOK /\ NamesMatchKeys

\* A new record is stored under the key joined from its own names.
LEMMA StoreNew ==
    ASSUME TableOK, NamesMatchKeys,
           NEW s \in Services, NEW d \in Domains, NEW b \in BOOLEAN,
           subscriptions' = With(subscriptions, Key(s, d), NewRecord(s, d, b))
    PROVE  TableOK' /\ NamesMatchKeys'
<1> DEFINE k == Key(s, d)
           r == NewRecord(s, d, b)
<1>1. r \in Record /\ r.service = s /\ r.domain = d
  BY DEF NewRecord, Record
<1>2. k = Key(r.service, r.domain)
  BY <1>1
<1> HIDE DEF r
<1>3. /\ DOMAIN subscriptions' = DOMAIN subscriptions \cup {k}
      /\ subscriptions' \in [DOMAIN subscriptions' -> Record]
      /\ \A x \in DOMAIN subscriptions' :
            \/ x = k /\ subscriptions'[x] = r
            \/ x \in DOMAIN subscriptions /\ subscriptions'[x] = subscriptions[x]
  <2>1. subscriptions' = With(subscriptions, k, r)
    BY DEF r
  <2> HIDE DEF k
  <2> QED
    BY <2>1, <1>1 DEF TableOK, With
<1> HIDE DEF k
<1> QED
  BY <1>2, <1>3 DEF TableOK, NamesMatchKeys

\* Changing other fields of a record leaves its names alone.
LEMMA EditRecord ==
    ASSUME TableOK, NamesMatchKeys,
           NEW k, NEW r \in Record,
           k \in DOMAIN subscriptions =>
               r.service = subscriptions[k].service /\ r.domain = subscriptions[k].domain,
           subscriptions' = [subscriptions EXCEPT ![k] = r]
    PROVE  TableOK' /\ NamesMatchKeys'
BY DEF TableOK, NamesMatchKeys

\* An answered or returned call has no arguments that matter.
LEMMA CallStep ==
    ASSUME CallsOK, ArgsOK, NEW p \in Procs, NEW c \in Call, NEW l \in Labels,
           call' = [call EXCEPT ![p] = c], pc' = [pc EXCEPT ![p] = l],
           \/ l \in {"idle", "answered"}
           \/ l = "called" /\ c.op \in {"Close", "Get"}
           \/ c.service \in Services /\ c.domain \in Domains
    PROVE  CallsOK' /\ ArgsOK'
<1>1. CallsOK'
  BY DEF CallsOK
<1>2. \A q \in Procs : /\ q # p => pc'[q] = pc[q] /\ call'[q] = call[q]
                       /\ q = p => pc'[q] = l /\ call'[q] = c
  BY DEF CallsOK
<1>3. ArgsOK'
  BY <1>2 DEF ArgsOK
<1> QED
  BY <1>1, <1>3

LEMMA NewCallType ==
    ASSUME NEW o \in Ops, NEW s \in Services \cup {Empty}, NEW d \in Domains \cup {Empty},
           NEW h \in Handlers \cup {NoHandler}, NEW w \in SUBSET Pairs, NEW e \in Results
    PROVE  /\ NewCall(o, s, d, h) \in Call
           /\ [NewCall(o, s, d, h) EXCEPT !.ret = e] \in Call
           /\ [NewCall(o, s, d, h) EXCEPT !.want = w] \in Call
BY DEF NewCall, Call, Results

LEMMA FinishStep ==
    ASSUME CallsOK, ArgsOK, NEW p \in Procs, NEW r \in Results, Finish(p, r)
    PROVE  CallsOK' /\ ArgsOK'
<1> DEFINE c == [call[p] EXCEPT !.ret = r]
<1>1. call[p] \in Call
  BY DEF CallsOK
<1>2. c \in Call
  BY <1>1 DEF Call
<1>3. call' = [call EXCEPT ![p] = c] /\ pc' = [pc EXCEPT ![p] = "answered"]
  BY DEF Finish, GoTo, CallsOK
<1> HIDE DEF c
<1> QED
  BY <1>2, <1>3, CallStep DEF Labels

-----------------------------------------------------------------------------
(* Every step keeps the table in order.                                     *)

LEMMA BeginStep ==
    ASSUME TableInv, NEW p \in Procs, NEW c \in Call, NEW l \in Labels, Begin(p, l, c),
           \/ l \in {"idle", "answered"}
           \/ l = "called" /\ c.op \in {"Close", "Get"}
           \/ c.service \in Services /\ c.domain \in Domains
    PROVE  TableInv'
<1>1. UNCHANGED subscriptions
  BY DEF Begin, tables
<1>2. TableOK' /\ NamesMatchKeys'
  BY <1>1 DEF TableInv, TableOK, NamesMatchKeys
<1>3. CallsOK' /\ ArgsOK'
  BY CallStep DEF TableInv, Begin, GoTo
<1> QED
  BY <1>2, <1>3 DEF TableInv

LEMMA RejectStep ==
    ASSUME TableInv, NEW p \in Procs, NEW o \in Ops, NEW e \in Results, Reject(p, o, e)
    PROVE  TableInv'
<1> DEFINE c == [NewCall(o, Empty, Empty, NoHandler) EXCEPT !.ret = e]
<1>1. c \in Call
  BY NewCallType DEF Results
<1>2. Begin(p, "answered", c)
  BY DEF Reject
<1> HIDE DEF c
<1> QED
  BY <1>1, <1>2, BeginStep DEF Labels

LEMMA StartStep ==
    ASSUME TableInv, NEW p \in Procs, Start(p)
    PROVE  TableInv'
<1>1. ASSUME NEW s \in Services \cup {Empty}, NEW d \in Domains \cup {Empty},
             NEW h \in Handlers \cup {NoHandler}, NEW o \in Ops,
             s # Empty, d # Empty, Begin(p, "called", NewCall(o, s, d, h))
      PROVE  TableInv'
  <2> DEFINE c == NewCall(o, s, d, h)
  <2>1. c \in Call /\ c.service \in Services /\ c.domain \in Domains
    <3>1. c \in Call
      BY NewCallType DEF Results
    <3>2. c.service = s /\ c.domain = d
      BY DEF NewCall
    <3> QED
      BY <3>1, <3>2, <1>1
  <2>2. Begin(p, "called", c)
    BY <1>1
  <2> HIDE DEF c
  <2> QED
    BY <2>1, <2>2, BeginStep DEF Labels
<1>2. ASSUME NEW s \in Services \cup {Empty}, NEW d \in Domains \cup {Empty},
             NEW h \in Handlers \cup {NoHandler}, BeginSubscribe(p, s, d, h)
      PROVE  TableInv'
  BY <1>1, <1>2, RejectStep DEF BeginSubscribe, Ops, Results
<1>3. ASSUME NEW s \in Services \cup {Empty}, NEW d \in Domains \cup {Empty},
             NEW o \in {"Unsubscribe", "Create"}, BeginNamed(p, o, s, d)
      PROVE  TableInv'
  BY <1>1, <1>3, RejectStep DEF BeginNamed, Ops, Results
<1>4. ASSUME NEW s \in Services \cup {Empty}, NEW d \in Domains \cup {Empty},
             BeginHandle(p, s, d)
      PROVE  TableInv'
  BY <1>1, <1>4, RejectStep DEF BeginHandle, Ops, Results
<1>5. ASSUME BeginClose(p)
      PROVE  TableInv'
  <2> DEFINE c == NewCall("Close", Empty, Empty, NoHandler)
  <2>1. c \in Call /\ c.op = "Close"
    BY NewCallType DEF NewCall, Ops, Results
  <2>2. Begin(p, "called", c)
    BY <1>5 DEF BeginClose
  <2> HIDE DEF c
  <2> QED
    BY <2>1, <2>2, BeginStep DEF Labels
<1>6. ASSUME NEW w \in SUBSET Pairs, BeginGet(p, w)
      PROVE  TableInv'
  <2> DEFINE c == [NewCall("Get", Empty, Empty, NoHandler) EXCEPT !.want = w]
  <2>1. c \in Call
    BY NewCallType DEF Ops, Results
  <2>2. c.op = "Get"
    BY DEF NewCall
  <2>3. Begin(p, "called", c)
    BY <1>6 DEF BeginGet
  <2> HIDE DEF c
  <2> QED
    BY <2>1, <2>2, <2>3, BeginStep DEF Labels
<1> QED
  <2>1. \A x \in Pairs : {x} \in SUBSET Pairs
    OBVIOUS
  <2> QED
    BY <1>2, <1>3, <1>4, <1>5, <1>6, <2>1 DEF Start

\* A step that leaves the table alone.
LEMMA TableQuiet ==
    ASSUME TableInv, UNCHANGED subscriptions, CallsOK', ArgsOK'
    PROVE  TableInv'
BY DEF TableInv, TableOK, NamesMatchKeys

LEMMA NamedCall ==
    ASSUME TableInv, NEW p \in Procs, NEW o \in {"Subscribe", "Unsubscribe", "Create", "Handle"},
           Called(p, o)
    PROVE  call[p].service \in Services /\ call[p].domain \in Domains
BY DEF TableInv, ArgsOK, Called

LEMMA TableStep ==
    ASSUME TableInv, NEW p \in Procs,
           Subscribe(p) \/ Unsubscribe(p) \/ Create(p) \/ Close(p)
    PROVE  TableInv'
<1> USE DEF TableInv
<1>1. CallsOK' /\ ArgsOK'
  BY FinishStep DEF Subscribe, Unsubscribe, Create, Close, Results
<1> DEFINE k == KeyOf(p)
<1>2. ASSUME NEW b \in BOOLEAN,
             subscriptions' = [subscriptions EXCEPT ![k].active = b]
      PROVE  TableOK' /\ NamesMatchKeys'
  <2>1. CASE k \in DOMAIN subscriptions
    <3> DEFINE r == [subscriptions[k] EXCEPT !.active = b]
    <3>1. subscriptions[k] \in Record
      BY <2>1 DEF TableOK
    <3>2. r \in Record /\ r.service = subscriptions[k].service /\ r.domain = subscriptions[k].domain
      BY <3>1 DEF Record
    <3>3. subscriptions' = [subscriptions EXCEPT ![k] = r]
      BY <1>2
    <3> HIDE DEF r, k
    <3> QED
      BY <3>2, <3>3, EditRecord
  <2>2. CASE k \notin DOMAIN subscriptions
    <3>1. subscriptions' = subscriptions
      BY <1>2, <2>2 DEF TableOK
    <3> QED
      BY <3>1 DEF TableOK, NamesMatchKeys
  <2> QED
    BY <2>1, <2>2
<1>3. ASSUME UNCHANGED subscriptions
      PROVE  TableOK' /\ NamesMatchKeys'
  BY <1>3 DEF TableOK, NamesMatchKeys
<1>4. CASE Subscribe(p)
  <2>1. call[p].service \in Services /\ call[p].domain \in Domains
    BY <1>4, NamedCall DEF Subscribe
  <2>2. CASE k \in DOMAIN subscriptions
    BY <1>1, <1>2, <1>4, <2>2 DEF Subscribe
  <2>3. CASE k \notin DOMAIN subscriptions
    BY <1>1, <1>4, <2>1, <2>3, StoreNew DEF Subscribe, KeyOf
  <2> QED
    BY <2>2, <2>3
<1>5. CASE Unsubscribe(p)
  <2>1. CASE k \in DOMAIN subscriptions
    BY <1>1, <1>2, <1>5, <2>1 DEF Unsubscribe
  <2>2. CASE k \notin DOMAIN subscriptions
    BY <1>1, <1>3, <1>5, <2>2 DEF Unsubscribe, tables
  <2> QED
    BY <2>1, <2>2
<1>6. CASE Create(p)
  <2>1. call[p].service \in Services /\ call[p].domain \in Domains
    BY <1>6, NamedCall DEF Create
  <2>2. CASE k \in DOMAIN subscriptions
    BY <1>1, <1>3, <1>6, <2>2 DEF Create
  <2>3. CASE k \notin DOMAIN subscriptions
    BY <1>1, <1>6, <2>1, <2>3, StoreNew DEF Create, KeyOf
  <2> QED
    BY <2>2, <2>3
<1>7. CASE Close(p)
  <2>1. \A x \in DOMAIN subscriptions :
          /\ subscriptions[x] \in Record
          /\ [subscriptions[x] EXCEPT !.active = FALSE] \in Record
          /\ [subscriptions[x] EXCEPT !.active = FALSE].service = subscriptions[x].service
          /\ [subscriptions[x] EXCEPT !.active = FALSE].domain = subscriptions[x].domain
    BY DEF TableOK, Record
  <2>2. subscriptions' = [x \in DOMAIN subscriptions |-> [subscriptions[x] EXCEPT !.active = FALSE]]
    BY <1>7 DEF Close
  <2>3. TableOK' /\ NamesMatchKeys'
    BY <2>1, <2>2 DEF TableOK, NamesMatchKeys
  <2> QED
    BY <1>1, <2>3
<1> QED
  BY <1>4, <1>5, <1>6, <1>7

LEMMA HandleStep ==
    ASSUME TableInv, NEW p \in Procs,
           \/ Decline(p) \/ HandlerReturns(p) \/ Return(p)
    PROVE  TableInv'
<1>1. CASE Decline(p) \/ HandlerReturns(p)
  <2>1. CallsOK' /\ ArgsOK'
    BY <1>1, FinishStep DEF TableInv, Decline, HandlerReturns, Results
  <2> QED
    BY <1>1, <2>1, TableQuiet DEF Decline, HandlerReturns, tables
<1>2. CASE Return(p)
  <2> DEFINE c == NewCall("None", Empty, Empty, NoHandler)
  <2>1. c \in Call
    BY NewCallType DEF Ops, Results
  <2>2. CallsOK' /\ ArgsOK'
    <3>1. call' = [call EXCEPT ![p] = c] /\ pc' = [pc EXCEPT ![p] = "idle"]
      BY <1>2 DEF Return, GoTo
    <3> HIDE DEF c
    <3> QED
      BY <2>1, <3>1, CallStep DEF TableInv, Labels
  <2> QED
    BY <1>2, <2>2, TableQuiet DEF Return, tables
<1> QED
  BY <1>1, <1>2

LEMMA MessageStep ==
    ASSUME TableInv, DOMAIN handlers \subseteq DOMAIN subscriptions,
           handlers \in [DOMAIN handlers -> Handlers], NEW p \in Procs,
           Accept(p) \/ CountMessage(p) \/ Invoke(p)
    PROVE  TableInv'
<1> USE DEF TableInv
<1>1. call[p] \in Call
  BY DEF CallsOK
<1>2. CASE Accept(p)
  <2>1. call[p].service \in Services /\ call[p].domain \in Domains
    BY <1>2, NamedCall DEF Accept
  <2> DEFINE c == [call[p] EXCEPT !.handler = handlers[KeyOf(p)]]
  <2>2. c \in Call /\ c.service = call[p].service /\ c.domain = call[p].domain
    <3>1. handlers[KeyOf(p)] \in Handlers
      BY <1>2 DEF Accept
    <3> QED
      BY <1>1, <3>1 DEF Call
  <2>3. call' = [call EXCEPT ![p] = c] /\ pc' = [pc EXCEPT ![p] = "accepted"]
    BY <1>2 DEF Accept, GoTo, CallsOK
  <2> HIDE DEF c
  <2>4. CallsOK' /\ ArgsOK'
    BY <2>1, <2>2, <2>3, CallStep DEF Labels
  <2> QED
    BY <1>2, <2>4, TableQuiet DEF Accept, tables
<1>3. ASSUME NEW l \in {"counted", "handling"}, GoTo(p, l), UNCHANGED call,
             pc[p] \in {"accepted", "counted"}
      PROVE  CallsOK' /\ ArgsOK'
  <2>1. call[p].service \in Services /\ call[p].domain \in Domains
    BY <1>3 DEF ArgsOK
  <2>2. call' = [call EXCEPT ![p] = call[p]]
    BY <1>3 DEF CallsOK
  <2> QED
    BY <1>1, <1>3, <2>1, <2>2, CallStep DEF GoTo, Labels
<1>4. CASE CountMessage(p)
  <2> DEFINE k == KeyOf(p)
             r == [subscriptions[k] EXCEPT !.count = @ + 1]
  <2>1. subscriptions' = [subscriptions EXCEPT ![k] = r]
    BY <1>4 DEF CountMessage
  <2>2. CASE k \in DOMAIN subscriptions
    <3>1. subscriptions[k] \in Record
      BY <2>2 DEF TableOK
    <3>2. r \in Record /\ r.service = subscriptions[k].service /\ r.domain = subscriptions[k].domain
      BY <3>1 DEF Record
    <3>3. TableOK' /\ NamesMatchKeys'
      <4> HIDE DEF r, k
      <4> QED
        BY <2>1, <3>2, EditRecord
    <3> QED
      BY <1>3, <1>4, <3>3 DEF CountMessage
  <2>3. CASE k \notin DOMAIN subscriptions
    <3>1. UNCHANGED subscriptions
      BY <2>1, <2>3 DEF TableOK
    <3> QED
      BY <1>3, <1>4, <3>1, TableQuiet DEF CountMessage
  <2> QED
    BY <2>2, <2>3
<1>5. CASE Invoke(p)
  BY <1>3, <1>5, TableQuiet DEF Invoke, tables
<1> QED
  BY <1>2, <1>4, <1>5

LEMMA GetStep ==
    ASSUME TableInv, NEW p \in Procs,
           GetAll(p) \/ \E x \in Pairs : GetLookup(p, x)
    PROVE  TableInv'
<1>1. ASSUME NEW C \in SUBSET Copy, Called(p, "Get"), GoTo(p, "answered"), UNCHANGED tables,
             call' = [call EXCEPT ![p].copies = C, ![p].ret = "ok"]
      PROVE  TableInv'
  <2> DEFINE c == [call[p] EXCEPT !.copies = C, !.ret = "ok"]
  <2>1. c \in Call
    <3>1. call[p] \in Call
      BY DEF TableInv, CallsOK
    <3> QED
      BY <3>1 DEF Call, Results
  <2>2. call' = [call EXCEPT ![p] = c] /\ pc' = [pc EXCEPT ![p] = "answered"]
    BY <1>1 DEF GoTo, TableInv, CallsOK
  <2> HIDE DEF c
  <2>3. CallsOK' /\ ArgsOK'
    BY <2>1, <2>2, CallStep DEF TableInv, Labels
  <2> QED
    BY <1>1, <2>3, TableQuiet DEF tables
<1>2. CASE GetAll(p)
  <2> DEFINE C == {CopyAs(<<r.service, r.domain>>, r) : r \in Records}
  <2>1. \A r \in Records : r \in Record
    BY DEF Records, TableInv, TableOK
  <2>2. C \in SUBSET Copy
    BY <2>1 DEF CopyAs, Copy, Record, Pairs
  <2>3. call' = [call EXCEPT ![p].copies = C, ![p].ret = "ok"]
    BY <1>2 DEF GetAll
  <2> HIDE DEF C
  <2> QED
    BY <1>1, <1>2, <2>2, <2>3 DEF GetAll
<1>3. ASSUME NEW x \in Pairs, GetLookup(p, x)
      PROVE  TableInv'
  <2> DEFINE k == Key(x[1], x[2])
             C == IF k \in DOMAIN subscriptions THEN {CopyAs(x, subscriptions[k])} ELSE {}
  <2>1. k \in DOMAIN subscriptions => subscriptions[k] \in Record
    BY DEF TableInv, TableOK
  <2>2. C \in SUBSET Copy
    <3> HIDE DEF k
    <3> QED
      BY <2>1 DEF CopyAs, Copy, Record
  <2>3. call' = [call EXCEPT ![p].copies = C, ![p].ret = "ok"]
    BY <1>3 DEF GetLookup
  <2> HIDE DEF C, k
  <2> QED
    BY <1>1, <1>3, <2>2, <2>3 DEF GetLookup
<1> QED
  BY <1>2, <1>3

\* The map of handlers: its entries are handlers and it has none without a record.
HandlersOK ==
    /\ DOMAIN handlers \subseteq DOMAIN subscriptions
    /\ handlers \in [DOMAIN handlers -> Handlers]

\* The handler a Subscribe has been given is not nil.
HandlerGiven ==
    \A p \in Procs : Called(p, "Subscribe") => call[p].handler \in Handlers

Inv == TableInv /\ HandlersOK /\ HandlerGiven /\ delivered \in [Keys -> Nat]

\* Only an accepted SubscribeToService call has "Subscribe" to carry out.
LEMMA GivenStep ==
    ASSUME CallsOK, HandlerGiven, NEW p \in Procs, Start(p) \/ Effect(p) \/ Return(p)
    PROVE  HandlerGiven'
<1>1. ASSUME NEW l \in Labels, NEW c,
             call' = [call EXCEPT ![p] = c], pc' = [pc EXCEPT ![p] = l],
             l = "called" /\ c.op = "Subscribe" => c.handler \in Handlers
      PROVE  HandlerGiven'
  BY <1>1 DEF HandlerGiven, Called, CallsOK
<1>2. ASSUME NEW o, NEW e, Reject(p, o, e)
      PROVE  HandlerGiven'
  BY <1>1, <1>2 DEF Reject, Begin, GoTo, Labels
<1>3. ASSUME NEW o, NEW s, NEW d, NEW h, Begin(p, "called", NewCall(o, s, d, h)),
             o = "Subscribe" => h \in Handlers
      PROVE  HandlerGiven'
  <2>1. NewCall(o, s, d, h).op = o /\ NewCall(o, s, d, h).handler = h
    BY DEF NewCall
  <2> QED
    BY <1>1, <1>3, <2>1 DEF Begin, GoTo, Labels
<1>4. CASE Start(p)
  <2>1. ASSUME NEW s \in Services \cup {Empty}, NEW d \in Domains \cup {Empty},
               NEW h \in Handlers \cup {NoHandler}, BeginSubscribe(p, s, d, h)
        PROVE  HandlerGiven'
    BY <1>2, <1>3, <2>1 DEF BeginSubscribe
  <2>2. ASSUME NEW s \in Services \cup {Empty}, NEW d \in Domains \cup {Empty},
               NEW o \in {"Unsubscribe", "Create"}, BeginNamed(p, o, s, d)
        PROVE  HandlerGiven'
    BY <1>2, <1>3, <2>2 DEF BeginNamed
  <2>3. ASSUME NEW s \in Services \cup {Empty}, NEW d \in Domains \cup {Empty},
               BeginHandle(p, s, d)
        PROVE  HandlerGiven'
    BY <1>2, <1>3, <2>3 DEF BeginHandle
  <2>4. CASE BeginClose(p)
    BY <1>3, <2>4 DEF BeginClose
  <2>5. ASSUME NEW w, BeginGet(p, w)
        PROVE  HandlerGiven'
    <3>1. [NewCall("Get", Empty, Empty, NoHandler) EXCEPT !.want = w].op = "Get"
      BY DEF NewCall
    <3> QED
      BY <1>1, <2>5, <3>1 DEF BeginGet, Begin, GoTo, Labels
  <2> QED
    BY <1>4, <2>1, <2>2, <2>3, <2>4, <2>5 DEF Start
<1>5. ASSUME NEW l \in Labels \ {"called"}, GoTo(p, l),
             \A q \in Procs \ {p} : call'[q] = call[q]
      PROVE  HandlerGiven'
  BY <1>5 DEF HandlerGiven, Called, CallsOK, GoTo
<1>6. CASE Effect(p) \/ Return(p)
  <2>1. \A q \in Procs \ {p} : call'[q] = call[q]
    BY <1>6 DEF Effect, Subscribe, Unsubscribe, Create, Close, Decline, Accept,
                CountMessage, Invoke, HandlerReturns, GetAll, GetLookup, Return, Finish, CallsOK
  <2>2. \E l \in Labels \ {"called"} : GoTo(p, l)
    BY <1>6 DEF Effect, Subscribe, Unsubscribe, Create, Close, Decline, Accept,
                CountMessage, Invoke, HandlerReturns, GetAll, GetLookup, Return, Finish, Labels
  <2> QED
    BY <1>5, <2>1, <2>2
<1> QED
  BY <1>4, <1>6

\* Handlers are added together with their record, and records are never removed.
LEMMA HandlersStep ==
    ASSUME Inv, NEW p \in Procs, Start(p) \/ Effect(p) \/ Return(p)
    PROVE  HandlersOK'
<1> USE DEF Inv, HandlersOK
<1>1. CASE UNCHANGED tables
  BY <1>1 DEF tables
<1>2. CASE Start(p)
  BY <1>1, <1>2 DEF Start, BeginSubscribe, BeginNamed, BeginClose, BeginHandle, BeginGet,
                    Reject, Begin
<1>3. CASE Subscribe(p)
  <2> DEFINE k == KeyOf(p)
  <2>1. call[p].handler \in Handlers
    BY <1>3 DEF Subscribe, HandlerGiven
  <2>2. DOMAIN subscriptions' = DOMAIN subscriptions \cup {k}
    <3>1. CASE k \in DOMAIN subscriptions
      BY <1>3, <3>1 DEF Subscribe, TableInv, TableOK
    <3>2. CASE k \notin DOMAIN subscriptions
      BY <1>3, <3>2 DEF Subscribe, With
    <3> QED
      BY <3>1, <3>2
  <2>3. handlers' = With(handlers, k, call[p].handler)
    BY <1>3 DEF Subscribe
  <2> HIDE DEF k
  <2> QED
    BY <2>1, <2>2, <2>3 DEF With
<1>4. CASE Unsubscribe(p)
  <2>1. DOMAIN subscriptions' = DOMAIN subscriptions
    BY <1>4 DEF Unsubscribe, TableInv, TableOK, tables
  <2>2. handlers' = handlers \/ handlers' = Without(handlers, KeyOf(p))
    BY <1>4 DEF Unsubscribe, tables
  <2> QED
    BY <2>1, <2>2 DEF Without
<1>5. CASE Create(p)
  <2>1. DOMAIN subscriptions \subseteq DOMAIN subscriptions'
    BY <1>5 DEF Create, With
  <2> QED
    BY <1>5, <2>1 DEF Create
<1>6. CASE Close(p)
  BY <1>6 DEF Close
<1>7. CASE CountMessage(p)
  <2>1. DOMAIN subscriptions' = DOMAIN subscriptions
    BY <1>7 DEF CountMessage
  <2> QED
    BY <1>7, <2>1 DEF CountMessage
<1>8. CASE \/ Decline(p) \/ Accept(p) \/ Invoke(p) \/ HandlerReturns(p)
           \/ GetAll(p) \/ (\E x \in Pairs : GetLookup(p, x)) \/ Return(p)
  BY <1>1, <1>8 DEF Decline, Accept, Invoke, HandlerReturns, GetAll, GetLookup, Return
<1> QED
  BY <1>2, <1>3, <1>4, <1>5, <1>6, <1>7, <1>8 DEF Effect

LEMMA InvInductive ==
    ASSUME Inv, [Next]_vars
    PROVE  Inv'
<1>1. CASE UNCHANGED vars
  <2>1. UNCHANGED <<subscriptions, handlers, pc, call, delivered>>
    BY <1>1 DEF vars, tables
  <2>2. TableInv'
    BY <2>1 DEF Inv, TableInv, TableOK, CallsOK, ArgsOK, NamesMatchKeys
  <2>3. HandlersOK' /\ HandlerGiven'
    BY <2>1 DEF Inv, HandlersOK, HandlerGiven, Called
  <2> QED
    BY <2>1, <2>2, <2>3 DEF Inv
<1>2. ASSUME NEW p \in Procs, Start(p) \/ Effect(p) \/ Return(p)
      PROVE  Inv'
  <2>1. TableInv'
    <3>1. TableInv /\ HandlersOK
      BY DEF Inv
    <3>2. CASE Start(p)
      BY <3>1, <3>2, StartStep
    <3>3. CASE Subscribe(p) \/ Unsubscribe(p) \/ Create(p) \/ Close(p)
      BY <3>1, <3>3, TableStep
    <3>4. CASE Decline(p) \/ HandlerReturns(p) \/ Return(p)
      BY <3>1, <3>4, HandleStep
    <3>5. CASE Accept(p) \/ CountMessage(p) \/ Invoke(p)
      BY <3>1, <3>5, MessageStep DEF HandlersOK
    <3>6. CASE GetAll(p) \/ \E x \in Pairs : GetLookup(p, x)
      BY <3>1, <3>6, GetStep
    <3> QED
      BY <1>2, <3>2, <3>3, <3>4, <3>5, <3>6 DEF Effect
  <2>2. HandlersOK' /\ HandlerGiven'
    BY <1>2, HandlersStep, GivenStep DEF Inv, TableInv
  <2>3. delivered' \in [Keys -> Nat]
    <3>1. CASE Invoke(p)
      <4> DEFINE x == KeyOf(p)
      <4>1. x \in Keys
        BY <3>1, KeyNotEmpty DEF Invoke, Inv, TableInv, ArgsOK, KeyOf
      <4>2. delivered' = [delivered EXCEPT ![x] = @ + 1]
        BY <3>1 DEF Invoke
      <4> HIDE DEF x
      <4> QED
        BY <4>1, <4>2 DEF Inv
    <3>2. CASE ~Invoke(p)
      BY <1>2, <3>2 DEF Inv, Start, BeginSubscribe, BeginNamed, BeginClose, BeginHandle, BeginGet,
         Reject, Begin, Effect, Subscribe, Unsubscribe, Create, Close, Decline,
         Accept, CountMessage, HandlerReturns, GetAll, GetLookup, Return
    <3> QED
      BY <3>1, <3>2
  <2> QED
    BY <2>1, <2>2, <2>3 DEF Inv
<1> QED
  BY <1>1, <1>2 DEF Next

LEMMA InvHolds == Spec => []Inv
<1>1. Init => Inv
  <2> SUFFICES ASSUME Init PROVE Inv
    OBVIOUS
  <2>1. DOMAIN subscriptions = {} /\ DOMAIN handlers = {}
    BY DEF Init
  <2>2. NewCall("None", Empty, Empty, NoHandler) \in Call
    BY NewCallType DEF Ops, Results
  <2>3. CallsOK
    BY <2>2 DEF Init, CallsOK, Labels
  <2>4. ArgsOK /\ HandlerGiven
    BY DEF Init, ArgsOK, HandlerGiven, Called
  <2>5. TableOK /\ NamesMatchKeys /\ HandlersOK
    BY <2>1 DEF Init, TableOK, NamesMatchKeys, HandlersOK
  <2> QED
    BY <2>3, <2>4, <2>5 DEF Inv, TableInv, Init
<1>2. Inv /\ [Next]_vars => Inv'
  BY InvInductive
<1> QED
  BY <1>1, <1>2, PTL DEF Spec

LEMMA RecordsUnderKeys ==
    ASSUME Inv
    PROVE  \A k \in DOMAIN subscriptions :
               /\ k \in Keys
               /\ subscriptions[k] \in Record
               /\ <<subscriptions[k].service, subscriptions[k].domain>> \in Pairs
               /\ k = Key(subscriptions[k].service, subscriptions[k].domain)
<1> SUFFICES ASSUME NEW k \in DOMAIN subscriptions
             PROVE  /\ k \in Keys
                    /\ subscriptions[k] \in Record
                    /\ <<subscriptions[k].service, subscriptions[k].domain>> \in Pairs
                    /\ k = Key(subscriptions[k].service, subscriptions[k].domain)
  OBVIOUS
<1>1. subscriptions[k] \in Record /\ k = Key(subscriptions[k].service, subscriptions[k].domain)
  BY DEF Inv, TableInv, TableOK, NamesMatchKeys
<1>2. subscriptions[k].service \in Services /\ subscriptions[k].domain \in Domains
  BY <1>1 DEF Record
<1> QED BY <1>1, <1>2 DEF Keys, Pairs

\* Types hold whatever the names are: every record is filed under some pair's key,
\* and a handler is only ever kept for a key that has a record.
THEOREM TypeCorrect == Spec => []TypeOK
<1>1. Inv => TypeOK
  <2> SUFFICES ASSUME Inv PROVE TypeOK
    OBVIOUS
  <2>1. DOMAIN subscriptions \subseteq Keys
    BY RecordsUnderKeys
  <2> QED
    BY <2>1 DEF TypeOK, Inv, TableInv, TableOK, CallsOK, HandlersOK
<1> QED
  BY <1>1, InvHolds, PTL

\* IsSubscribedToService, GetServicesByDomain and GetAvailableServices agree, whatever
\* the names are: each record carries names its key is joined from, so the question by
\* key is answered yes exactly when a listed record has that key.
THEOREM ListingsAlwaysAgree == Spec => []ListingsAgree
<1>1. Inv => ListingsAgree
  <2> SUFFICES ASSUME Inv PROVE ListingsAgree
    OBVIOUS
  <2>1. \A k \in DOMAIN subscriptions :
          /\ subscriptions[k].service \in Services /\ subscriptions[k].domain \in Domains
          /\ k = Key(subscriptions[k].service, subscriptions[k].domain)
    BY RecordsUnderKeys DEF Pairs
  <2>2. ASSUME NEW s \in Services, NEW d \in Domains, Active(Key(s, d))
        PROVE  \E e \in Domains : \E r \in GetServicesByDomain(e) : Key(r.service, e) = Key(s, d)
    <3> DEFINE k == Key(s, d)
    <3>1. k \in DOMAIN subscriptions /\ subscriptions[k].active /\ subscriptions[k] \in Records
      BY <2>2 DEF Active, Records
    <3> HIDE DEF k
    <3>2. /\ subscriptions[k].domain \in Domains
          /\ subscriptions[k] \in GetServicesByDomain(subscriptions[k].domain)
          /\ Key(subscriptions[k].service, subscriptions[k].domain) = k
      BY <2>1, <3>1 DEF GetServicesByDomain
    <3> QED BY <3>2 DEF k
  <2>3. ASSUME NEW s \in Services, NEW d \in Domains, NEW e \in Domains,
               NEW r \in GetServicesByDomain(e), Key(r.service, e) = Key(s, d)
        PROVE  Active(Key(s, d))
    <3>1. PICK k \in DOMAIN subscriptions : r = subscriptions[k] /\ r.domain = e /\ r.active
      BY DEF GetServicesByDomain, Records
    <3>2. k = Key(s, d)
      BY <2>1, <2>3, <3>1
    <3> QED BY <3>1, <3>2 DEF Active
  <2>4. GetAvailableServices = {r.service : r \in UNION {GetServicesByDomain(d) : d \in Domains}}
    <3>1. \A r \in Records : r.domain \in Domains
      BY <2>1 DEF Records
    <3>2. UNION {GetServicesByDomain(d) : d \in Domains} = {x \in Records : x.active}
      BY <3>1 DEF GetServicesByDomain
    <3> QED BY <3>2 DEF GetAvailableServices
  <2> QED
    BY <2>2, <2>3, <2>4 DEF ListingsAgree, IsSubscribedToService
<1> QED
  BY <1>1, InvHolds, PTL

-----------------------------------------------------------------------------
(* The manager implements the atomic one whose topics are the keys.  What   *)
(* the steps rely on besides Inv: an active record has a handler, so no     *)
(* message fails for want of one, and a message under way has a record to   *)
(* be counted in, since records are never removed.                          *)

ActiveHasHandler == \A k \in DOMAIN subscriptions : Active(k) => k \in DOMAIN handlers

AcceptedHasRecord ==
    \A p \in Procs : pc[p] \in {"accepted", "counted"} => KeyOf(p) \in DOMAIN subscriptions

FullInv == Inv /\ ActiveHasHandler /\ AcceptedHasRecord

\* What each step that touches a table does to the keys and the active flags.
LEMMA TableEffect ==
    ASSUME Inv, NEW p \in Procs, Start(p) \/ Effect(p) \/ Return(p)
    PROVE  /\ DOMAIN subscriptions \subseteq DOMAIN subscriptions'
           /\ ActiveHasHandler => ActiveHasHandler'
<1> DEFINE k == KeyOf(p)
<1>0. subscriptions \in [DOMAIN subscriptions -> Record]
  BY DEF Inv, TableInv, TableOK
<1>1. CASE UNCHANGED tables
  BY <1>1 DEF tables, ActiveHasHandler, Active
<1>2. CASE Subscribe(p)
  <2>1. /\ DOMAIN subscriptions' = DOMAIN subscriptions \cup {k}
        /\ DOMAIN handlers' = DOMAIN handlers \cup {k}
        /\ \A x \in DOMAIN subscriptions \ {k} : subscriptions'[x] = subscriptions[x]
    <3>1. handlers' = With(handlers, k, call[p].handler)
      BY <1>2 DEF Subscribe
    <3>2. CASE k \in DOMAIN subscriptions
      <4>1. subscriptions' = [subscriptions EXCEPT ![k].active = TRUE]
        BY <1>2, <3>2 DEF Subscribe
      <4> HIDE DEF k
      <4> QED BY <1>0, <3>1, <3>2, <4>1 DEF With
    <3>3. CASE k \notin DOMAIN subscriptions
      <4>1. PICK r : subscriptions' = With(subscriptions, k, r)
        BY <1>2, <3>3 DEF Subscribe
      <4> HIDE DEF k
      <4> QED BY <1>0, <3>1, <3>3, <4>1 DEF With
    <3> QED BY <3>2, <3>3
  <2> HIDE DEF k
  <2> QED BY <2>1 DEF ActiveHasHandler, Active
<1>3. CASE Unsubscribe(p)
  <2>1. CASE k \in DOMAIN subscriptions
    <3>1. /\ subscriptions' = [subscriptions EXCEPT ![k].active = FALSE]
          /\ handlers' = Without(handlers, k)
      BY <1>3, <2>1 DEF Unsubscribe
    <3> HIDE DEF k
    <3>2. /\ DOMAIN subscriptions' = DOMAIN subscriptions
          /\ DOMAIN handlers' = DOMAIN handlers \ {k}
          /\ \A x \in DOMAIN subscriptions \ {k} : subscriptions'[x] = subscriptions[x]
      BY <1>0, <3>1 DEF Without
    <3>3. ~subscriptions'[k].active
      BY <1>0, <2>1, <3>1 DEF Record
    <3> QED BY <3>2, <3>3 DEF ActiveHasHandler, Active
  <2>2. CASE k \notin DOMAIN subscriptions
    BY <1>1, <1>3, <2>2 DEF Unsubscribe
  <2> QED BY <2>1, <2>2
<1>4. CASE Create(p)
  <2>1. CASE k \in DOMAIN subscriptions
    BY <1>1, <1>4, <2>1 DEF Create, tables
  <2>2. CASE k \notin DOMAIN subscriptions
    <3> DEFINE r == NewRecord(call[p].service, call[p].domain, FALSE)
    <3>1. subscriptions' = With(subscriptions, k, r) /\ handlers' = handlers
      BY <1>4, <2>2 DEF Create
    <3>2. ~r.active
      BY DEF NewRecord
    <3> HIDE DEF k, r
    <3>3. /\ DOMAIN subscriptions' = DOMAIN subscriptions \cup {k}
          /\ subscriptions'[k] = r
          /\ \A x \in DOMAIN subscriptions \ {k} : subscriptions'[x] = subscriptions[x]
      BY <3>1 DEF With
    <3> QED BY <3>1, <3>2, <3>3 DEF ActiveHasHandler, Active
  <2> QED BY <2>1, <2>2
<1>5. CASE Close(p)
  <2>1. subscriptions' = [x \in DOMAIN subscriptions |-> [subscriptions[x] EXCEPT !.active = FALSE]]
    BY <1>5 DEF Close
  <2>2. DOMAIN subscriptions' = DOMAIN subscriptions
        /\ \A x \in DOMAIN subscriptions : ~subscriptions'[x].active
    BY <1>0, <2>1 DEF Record
  <2> QED BY <2>2 DEF ActiveHasHandler, Active
<1>6. CASE CountMessage(p)
  <2>1. subscriptions' = [subscriptions EXCEPT ![k].count = @ + 1] /\ handlers' = handlers
    BY <1>6 DEF CountMessage
  <2> HIDE DEF k
  <2>2. DOMAIN subscriptions' = DOMAIN subscriptions
        /\ \A x \in DOMAIN subscriptions : subscriptions'[x].active = subscriptions[x].active
    BY <1>0, <2>1 DEF Record
  <2> QED BY <2>1, <2>2 DEF ActiveHasHandler, Active
<1>7. CASE \/ Start(p) \/ Decline(p) \/ Accept(p) \/ Invoke(p) \/ HandlerReturns(p)
           \/ GetAll(p) \/ (\E x \in Pairs : GetLookup(p, x)) \/ Return(p)
  BY <1>1, <1>7 DEF Start, BeginSubscribe, BeginNamed, BeginClose, BeginHandle, BeginGet,
     Reject, Begin, Decline, Accept, Invoke, HandlerReturns, GetAll, GetLookup, Return
<1> QED
  BY <1>2, <1>3, <1>4, <1>5, <1>6, <1>7 DEF Effect

\* A message is accepted with its record in the table and keeps its names until
\* the handler is called.
LEMMA AcceptedStep ==
    ASSUME FullInv, NEW p \in Procs, Start(p) \/ Effect(p) \/ Return(p)
    PROVE  AcceptedHasRecord'
<1> USE DEF FullInv
<1>0. /\ pc \in [Procs -> Labels] /\ call \in [Procs -> Call]
      /\ DOMAIN subscriptions \subseteq DOMAIN subscriptions'
  BY TableEffect DEF Inv, TableInv, CallsOK
<1>1. \A q \in Procs \ {p} : pc'[q] = pc[q] /\ call'[q] = call[q]
  <2>1. CASE Start(p) \/ Return(p)
    BY <1>0, <2>1 DEF Start, BeginSubscribe, BeginNamed, BeginClose, BeginHandle, BeginGet,
       Reject, Begin, GoTo, Return
  <2>2. CASE Effect(p)
    BY <1>0, <2>2 DEF Effect, Subscribe, Unsubscribe, Create, Close, Decline,
       Accept, CountMessage, Invoke, HandlerReturns, GetAll, GetLookup, Finish, GoTo
  <2> QED BY <2>1, <2>2
<1>2. pc'[p] \in {"accepted", "counted"} => KeyOf(p)' \in DOMAIN subscriptions'
  <2>1. CASE Accept(p)
    BY <1>0, <2>1 DEF Accept, Active, KeyOf, Call, tables
  <2>2. CASE CountMessage(p)
    BY <1>0, <2>2 DEF CountMessage, AcceptedHasRecord, KeyOf, GoTo
  <2>3. CASE Start(p) \/ Return(p)
    BY <1>0, <2>3 DEF Start, BeginSubscribe, BeginNamed, BeginClose, BeginHandle, BeginGet,
       Reject, Begin, GoTo, Return
  <2>4. CASE Effect(p) /\ ~Accept(p) /\ ~CountMessage(p)
    BY <1>0, <2>4 DEF Effect, Subscribe, Unsubscribe, Create, Close, Decline,
       Invoke, HandlerReturns, GetAll, GetLookup, Finish, GoTo
  <2> QED BY <2>1, <2>2, <2>3, <2>4
<1> QED BY <1>0, <1>1, <1>2 DEF AcceptedHasRecord, KeyOf

LEMMA FullInvHolds == Spec => []FullInv
<1>1. Init => ActiveHasHandler /\ AcceptedHasRecord
  BY DEF Init, ActiveHasHandler, AcceptedHasRecord
<1>2. FullInv /\ Inv' /\ [Next]_vars => FullInv'
  <2> SUFFICES ASSUME FullInv, Inv', [Next]_vars PROVE ActiveHasHandler' /\ AcceptedHasRecord'
    BY DEF FullInv
  <2>1. CASE UNCHANGED vars
    BY <2>1 DEF vars, tables, FullInv, ActiveHasHandler, AcceptedHasRecord, Active, KeyOf
  <2>2. CASE Next
    BY <2>2, TableEffect, AcceptedStep DEF Next, FullInv
  <2> QED BY <2>1, <2>2
<1> QED BY <1>1, <1>2, InvHolds, PTL DEF Spec, FullInv

-----------------------------------------------------------------------------
(* What the atomic manager sees of a step.                                  *)

LEMMA KeyOfCall ==
    ASSUME Inv, NEW p \in Procs,
           \/ pc[p] \in {"accepted", "counted", "handling"}
           \/ \E o \in {"Subscribe", "Unsubscribe", "Create", "Handle"} : Called(p, o)
    PROVE  KeyOf(p) \in Keys /\ absRequest[p].topic = KeyOf(p)
<1>1. call[p].service \in Services /\ call[p].domain \in Domains
  BY DEF Inv, TableInv, ArgsOK, Called
<1>2. call[p].service # Empty
  BY <1>1, NamesAreStrings
<1>3. absRequest[p].topic = Key(call[p].service, call[p].domain)
  BY <1>2 DEF absRequest, RequestOf
<1> QED BY <1>1, <1>3, KeyNotEmpty DEF KeyOf

\* A step that touches the record of one key only shows as one that touches the
\* abstract record of that key only.
LEMMA RecordView ==
    ASSUME NEW k \in Keys,
           \A x : x # k =>
               /\ x \in DOMAIN subscriptions' <=> x \in DOMAIN subscriptions
               /\ x \in DOMAIN subscriptions => subscriptions'[x] = subscriptions[x]
    PROVE  /\ absIsActive' = [absIsActive EXCEPT ![k] = Active(k)']
           /\ absCount' = [absCount EXCEPT ![k] = Count(k)']
<1>1. \A x \in Keys \ {k} : Active(x)' = Active(x) /\ Count(x)' = Count(x)
  BY DEF Active, Count
<1>2. absIsActive' = [absIsActive EXCEPT ![k] = Active(k)']
  BY <1>1 DEF absIsActive
<1>3. absCount' = [absCount EXCEPT ![k] = Count(k)']
  BY <1>1 DEF absCount
<1> QED BY <1>2, <1>3

LEMMA HandlerView ==
    ASSUME NEW k \in Keys, NEW h,
           \A x : x # k =>
               /\ x \in DOMAIN handlers' <=> x \in DOMAIN handlers
               /\ x \in DOMAIN handlers => handlers'[x] = handlers[x],
           h = IF k \in DOMAIN handlers' THEN handlers'[k] ELSE NoHandler
    PROVE  absHandlers' = [absHandlers EXCEPT ![k] = h]
BY DEF absHandlers

LEMMA TablesView ==
    ASSUME UNCHANGED tables
    PROVE  UNCHANGED <<subscriptions, DOMAIN subscriptions, absIsActive, absCount, absHandlers>>
BY DEF tables, absIsActive, absCount, absHandlers, Active, Count

LEMMA CallView ==
    ASSUME Inv, NEW p \in Procs, NEW c, call' = [call EXCEPT ![p] = c]
    PROVE  /\ absRequest' = [absRequest EXCEPT ![p] = RequestOf(c)]
           /\ absAnswer' = [absAnswer EXCEPT ![p] = AnswerOf(c)]
<1>1. call'[p] = c /\ \A q \in Procs \ {p} : call'[q] = call[q]
  BY DEF Inv, TableInv, CallsOK
<1>2. absRequest' = [absRequest EXCEPT ![p] = RequestOf(call'[p])]
  <2>1. absRequest' = [q \in Procs |-> RequestOf(call'[q])]
    BY DEF absRequest, RequestOf, KeyOfPair, Key
  <2>2. absRequest = [q \in Procs |-> RequestOf(call[q])]
    BY DEF absRequest
  <2> QED BY <1>1, <2>1, <2>2
<1>3. absAnswer' = [absAnswer EXCEPT ![p] = AnswerOf(call'[p])]
  BY <1>1 DEF absAnswer, AnswerOf, absResult
<1> QED BY <1>1, <1>2, <1>3

\* What a call in progress can have answered.
KeyedCopy == {CopyByKey(y) : y \in Copy}

Answered == [ret : {absResult(r) : r \in Results}, copies : SUBSET KeyedCopy]

LEMMA SetAnswer ==
    ASSUME NEW a \in Answered, NEW r \in Results
    PROVE  [a EXCEPT !.ret = absResult(r)] = [ret |-> absResult(r), copies |-> a.copies]
<1>1. /\ [a EXCEPT !.ret = absResult(r)] \in Answered
      /\ [ret |-> absResult(r), copies |-> a.copies] \in Answered
  BY DEF Answered
<1> QED BY <1>1 DEF Answered

\* A call that ends with result r, its request unchanged.
LEMMA FinishView ==
    ASSUME Inv, NEW p \in Procs, NEW r \in Results, Finish(p, r)
    PROVE  /\ Atomic!Answer(p, absResult(r))
           /\ Atomic!Advance(p, "answered")
           /\ UNCHANGED <<absRequest, absNested>>
<1> DEFINE c == [call[p] EXCEPT !.ret = r]
<1>1. call \in [Procs -> Call] /\ call[p] \in Call
  BY DEF Inv, TableInv, CallsOK
<1>2. call' = [call EXCEPT ![p] = c] /\ pc' = [pc EXCEPT ![p] = "answered"]
  BY <1>1 DEF Finish, GoTo
<1>3. RequestOf(c) = RequestOf(call[p])
  BY <1>1 DEF RequestOf, Call
<1> DEFINE K == {CopyByKey(y) : y \in call[p].copies}
<1>4. AnswerOf(c) = [ret |-> absResult(r), copies |-> K]
  BY <1>1 DEF AnswerOf, Call
<1> HIDE DEF c
<1>5. UNCHANGED absRequest
  BY <1>2, <1>3, CallView DEF absRequest
<1>6. absAnswer' = [absAnswer EXCEPT ![p].ret = absResult(r)]
  <2>1. absAnswer' = [absAnswer EXCEPT ![p] = [ret |-> absResult(r), copies |-> K]]
    <3>1. absAnswer' = [absAnswer EXCEPT ![p] = AnswerOf(c)]
      BY <1>2, CallView
    <3> QED BY <1>4, <3>1
  <2>2. absAnswer[p] = AnswerOf(call[p])
    BY DEF absAnswer
  <2>3. absAnswer[p] \in Answered /\ absAnswer[p].copies = K
    <3>1. call[p].copies \subseteq Copy /\ call[p].ret \in Results
      BY <1>1 DEF Call
    <3>2. K \subseteq KeyedCopy
      BY <3>1 DEF KeyedCopy
    <3>3. absAnswer[p] = [ret |-> absResult(call[p].ret), copies |-> K]
      BY <2>2 DEF AnswerOf
    <3> HIDE DEF K
    <3> QED BY <3>1, <3>2, <3>3 DEF Answered
  <2> HIDE DEF K
  <2>4. [absAnswer[p] EXCEPT !.ret = absResult(r)] = [ret |-> absResult(r), copies |-> K]
    BY <2>3, SetAnswer
  <2> QED BY <2>1, <2>4
<1> QED BY <1>2, <1>5, <1>6 DEF Atomic!Answer, Atomic!Advance, absNested

-----------------------------------------------------------------------------
(* Every step maps to a step of the atomic manager.                         *)

LEMMA NotNested ==
    ASSUME NEW p \in Procs, pc[p] = "idle"
    PROVE  absNested' = [absNested EXCEPT ![p] = (pc[p] = "handling")]
BY DEF absNested

LEMMA BeginMaps ==
    ASSUME Inv, NEW p \in Procs, NEW q, NEW c, Begin(p, "called", c),
           Atomic!Refusal(q) = "none", RequestOf(c) = q, c.ret = "none", c.copies = {}
    PROVE  Atomic!Request(p, q)
<1>1. /\ pc[p] = "idle" /\ call' = [call EXCEPT ![p] = c] /\ UNCHANGED <<tables, delivered>>
      /\ pc' = [pc EXCEPT ![p] = "called"]
  BY DEF Begin, GoTo
<1>2. AnswerOf(c) = Atomic!NoAnswer
  BY DEF AnswerOf, absResult, Atomic!NoAnswer
<1>3. /\ absRequest' = [absRequest EXCEPT ![p] = q]
      /\ absAnswer' = [absAnswer EXCEPT ![p] = Atomic!NoAnswer]
  <2>1. /\ absRequest' = [absRequest EXCEPT ![p] = RequestOf(c)]
        /\ absAnswer' = [absAnswer EXCEPT ![p] = AnswerOf(c)]
    BY <1>1, CallView
  <2> QED BY <1>2, <2>1
<1>4. UNCHANGED Atomic!tables /\ UNCHANGED delivered
  BY <1>1, TablesView DEF Atomic!tables
<1> QED BY <1>1, <1>3, <1>4, NotNested DEF Atomic!Request, Atomic!Advance

LEMMA RejectMaps ==
    ASSUME Inv, NEW p \in Procs, NEW q, NEW e \in Results, Reject(p, q.op, e),
           absResult(e) # "none", Atomic!Refusal(q) = absResult(e)
    PROVE  Atomic!Request(p, q)
<1> DEFINE c == [NewCall(q.op, Empty, Empty, NoHandler) EXCEPT !.ret = e]
<1>1. /\ c.op = q.op /\ c.service = Empty /\ c.domain = Empty /\ c.handler = NoHandler
      /\ c.want = {} /\ c.copies = {} /\ c.ret = e
  BY DEF NewCall
<1>2. /\ pc[p] = "idle" /\ call' = [call EXCEPT ![p] = c] /\ UNCHANGED <<tables, delivered>>
      /\ pc' = [pc EXCEPT ![p] = "answered"]
  BY DEF Reject, Begin, GoTo
<1> HIDE DEF c
<1>3. RequestOf(c) = Atomic!NoRequest(q.op)
  BY <1>1 DEF RequestOf, Atomic!NoRequest
<1>4. AnswerOf(c) = [Atomic!NoAnswer EXCEPT !.ret = Atomic!Refusal(q)]
  <2>1. Atomic!NoAnswer \in Answered /\ Atomic!NoAnswer.copies = {}
    <3>1. absResult("none") = "none" /\ "none" \in Results
      BY DEF absResult, Results
    <3> QED BY <3>1 DEF Atomic!NoAnswer, Answered
  <2>2. [Atomic!NoAnswer EXCEPT !.ret = absResult(e)] = [ret |-> absResult(e), copies |-> {}]
    BY <2>1, SetAnswer
  <2> QED BY <1>1, <2>2 DEF AnswerOf
<1>5. /\ absRequest' = [absRequest EXCEPT ![p] = Atomic!NoRequest(q.op)]
      /\ absAnswer' = [absAnswer EXCEPT ![p] = [Atomic!NoAnswer EXCEPT !.ret = Atomic!Refusal(q)]]
  <2>1. /\ absRequest' = [absRequest EXCEPT ![p] = RequestOf(c)]
        /\ absAnswer' = [absAnswer EXCEPT ![p] = AnswerOf(c)]
    BY <1>2, CallView
  <2> QED BY <1>3, <1>4, <2>1
<1>6. UNCHANGED Atomic!tables /\ UNCHANGED delivered
  BY <1>2, TablesView DEF Atomic!tables
<1> QED BY <1>2, <1>5, <1>6, NotNested DEF Atomic!Request, Atomic!Advance

\* An empty name shows as the empty topic: the atomic manager refuses that too.
LEMMA StartMaps ==
    ASSUME Inv, NEW p \in Procs, Start(p)
    PROVE  \E q \in Atomic!Requests : Atomic!Request(p, q)
<1>1. ASSUME NEW s \in Services \cup {Empty}, NEW d \in Domains \cup {Empty}
      PROVE  s # Empty /\ d # Empty => Key(s, d) \in Keys /\ Key(s, d) # Empty
  BY <1>1, KeyNotEmpty
<1>2. ASSUME NEW o \in {"Subscribe", "Unsubscribe", "Create", "Handle"},
             NEW e \in {"errServiceNameEmpty", "errDomainEmpty",
                        "errMessageServiceEmpty", "errMessageDomainEmpty"},
             o = "Handle" <=> e \in {"errMessageServiceEmpty", "errMessageDomainEmpty"},
             Reject(p, o, e)
      PROVE  \E q \in Atomic!Requests : Atomic!Request(p, q)
  <2> DEFINE q == [op |-> o, topic |-> Empty, handler |-> NoHandler, want |-> {}]
  <2>1. q \in Atomic!Requests /\ q.op = o
    BY DEF Atomic!Requests
  <2>2. Atomic!Refusal(q) = absResult(e) /\ absResult(e) # "none" /\ e \in Results
    BY <1>2 DEF Atomic!Refusal, absResult, Results
  <2> HIDE DEF q
  <2> QED BY <1>2, <2>1, <2>2, RejectMaps
<1>3. ASSUME NEW s \in Services, NEW d \in Domains, s # Empty, d # Empty,
             NEW o \in {"Subscribe", "Unsubscribe", "Create", "Handle"},
             NEW h \in Handlers \cup {NoHandler},
             h = NoHandler <=> o # "Subscribe",
             Begin(p, "called", NewCall(o, s, d, h))
      PROVE  \E q \in Atomic!Requests : Atomic!Request(p, q)
  <2> DEFINE q == [op |-> o, topic |-> Key(s, d), handler |-> h, want |-> {}]
             c == NewCall(o, s, d, h)
  <2>1. q \in Atomic!Requests
    BY <1>1, <1>3 DEF Atomic!Requests
  <2>2. RequestOf(c) = q /\ c.ret = "none" /\ c.copies = {}
    BY <1>3 DEF RequestOf, NewCall
  <2>3. Atomic!Refusal(q) = "none"
    BY <1>1, <1>3 DEF Atomic!Refusal
  <2> HIDE DEF q, c
  <2>4. Begin(p, "called", c)
    BY <1>3 DEF c
  <2> QED BY <2>1, <2>2, <2>3, <2>4, BeginMaps
<1>4. ASSUME NEW s \in Services \cup {Empty}, NEW d \in Domains \cup {Empty},
             NEW h \in Handlers \cup {NoHandler}, BeginSubscribe(p, s, d, h)
      PROVE  \E q \in Atomic!Requests : Atomic!Request(p, q)
  <2>1. CASE s = Empty \/ d = Empty
    BY <1>2, <1>4, <2>1 DEF BeginSubscribe
  <2>2. CASE s # Empty /\ d # Empty /\ h = NoHandler
    <3> DEFINE q == [op |-> "Subscribe", topic |-> Key(s, d), handler |-> NoHandler, want |-> {}]
    <3>1. q \in Atomic!Requests /\ q.op = "Subscribe"
      BY <1>1, <2>2 DEF Atomic!Requests
    <3>2. Atomic!Refusal(q) = absResult("errMessageHandlerNil")
      BY <1>1, <2>2 DEF Atomic!Refusal, absResult
    <3>3. absResult("errMessageHandlerNil") # "none" /\ "errMessageHandlerNil" \in Results
      BY DEF absResult, Results
    <3>4. Reject(p, "Subscribe", "errMessageHandlerNil")
      BY <1>4, <2>2 DEF BeginSubscribe
    <3> HIDE DEF q
    <3> QED BY <3>1, <3>2, <3>3, <3>4, RejectMaps
  <2>3. CASE s # Empty /\ d # Empty /\ h # NoHandler
    BY <1>3, <1>4, <2>3 DEF BeginSubscribe
  <2> QED BY <2>1, <2>2, <2>3
<1>5. ASSUME NEW s \in Services \cup {Empty}, NEW d \in Domains \cup {Empty},
             NEW o \in {"Unsubscribe", "Create"}, BeginNamed(p, o, s, d)
      PROVE  \E q \in Atomic!Requests : Atomic!Request(p, q)
  BY <1>2, <1>3, <1>5 DEF BeginNamed
<1>6. ASSUME NEW s \in Services \cup {Empty}, NEW d \in Domains \cup {Empty}, BeginHandle(p, s, d)
      PROVE  \E q \in Atomic!Requests : Atomic!Request(p, q)
  BY <1>2, <1>3, <1>6 DEF BeginHandle
<1>7. CASE BeginClose(p)
  <2> DEFINE q == Atomic!NoRequest("Close")
             c == NewCall("Close", Empty, Empty, NoHandler)
  <2>1. q \in Atomic!Requests
    BY DEF Atomic!Requests
  <2>2. RequestOf(c) = q /\ c.ret = "none" /\ c.copies = {}
    BY DEF RequestOf, NewCall, Atomic!NoRequest
  <2>3. Atomic!Refusal(q) = "none"
    BY DEF Atomic!Refusal, Atomic!NoRequest
  <2> HIDE DEF q, c
  <2>4. Begin(p, "called", c)
    BY <1>7 DEF c, BeginClose
  <2> QED BY <2>1, <2>2, <2>3, <2>4, BeginMaps
<1>8. ASSUME NEW w \in SUBSET Pairs, BeginGet(p, w)
      PROVE  \E q \in Atomic!Requests : Atomic!Request(p, q)
  <2> DEFINE W == {KeyOfPair(x) : x \in w}
             q == [op |-> "Get", topic |-> Empty, handler |-> NoHandler, want |-> W]
             c == [NewCall("Get", Empty, Empty, NoHandler) EXCEPT !.want = w]
  <2>1. q \in Atomic!Requests
    <3>1. \A x \in Pairs : KeyOfPair(x) \in Keys
      BY KeyNotEmpty DEF Pairs, KeyOfPair
    <3>2. W \in SUBSET Keys
      BY <3>1
    <3> HIDE DEF W
    <3> QED BY <3>2 DEF Atomic!Requests
  <2>2. RequestOf(c) = q /\ c.ret = "none" /\ c.copies = {}
    BY DEF RequestOf, NewCall
  <2>3. Atomic!Refusal(q) = "none"
    BY DEF Atomic!Refusal
  <2> HIDE DEF q, c
  <2>4. Begin(p, "called", c)
    BY <1>8 DEF c, BeginGet
  <2> QED BY <2>1, <2>2, <2>3, <2>4, BeginMaps
<1> QED
  <2>1. \A x \in Pairs : {x} \in SUBSET Pairs
    OBVIOUS
  <2> QED BY <1>4, <1>5, <1>6, <1>7, <1>8, <2>1 DEF Start

LEMMA ReturnMaps ==
    ASSUME Inv, NEW p \in Procs, Return(p)
    PROVE  Atomic!Return(p)
<1> DEFINE c == NewCall("None", Empty, Empty, NoHandler)
<1>1. /\ pc[p] = "answered" /\ call' = [call EXCEPT ![p] = c] /\ UNCHANGED <<tables, delivered>>
      /\ pc' = [pc EXCEPT ![p] = "idle"]
  BY DEF Return, GoTo
<1>2. RequestOf(c) = Atomic!NoRequest("None") /\ AnswerOf(c) = Atomic!NoAnswer
  BY DEF NewCall, RequestOf, AnswerOf, absResult, Atomic!NoRequest, Atomic!NoAnswer
<1> HIDE DEF c
<1>3. /\ absRequest' = [absRequest EXCEPT ![p] = Atomic!NoRequest("None")]
      /\ absAnswer' = [absAnswer EXCEPT ![p] = Atomic!NoAnswer]
  <2>1. /\ absRequest' = [absRequest EXCEPT ![p] = RequestOf(c)]
        /\ absAnswer' = [absAnswer EXCEPT ![p] = AnswerOf(c)]
    BY <1>1, CallView
  <2> QED BY <1>2, <2>1
<1>4. UNCHANGED Atomic!tables /\ UNCHANGED delivered
  BY <1>1, TablesView DEF Atomic!tables
<1>5. ~absNested[p] /\ absNested' = [absNested EXCEPT ![p] = FALSE]
  BY DEF absNested
<1> QED BY <1>1, <1>3, <1>4, <1>5 DEF Atomic!Return, Atomic!Advance

LEMMA SubscribeMaps ==
    ASSUME FullInv, NEW p \in Procs, Subscribe(p)
    PROVE  Atomic!Subscribe(p)
<1>0. PICK k : k = KeyOf(p) /\ k \in Keys
  BY KeyOfCall DEF Subscribe, FullInv
<1> USE <1>0
<1>1. Called(p, "Subscribe") /\ absRequest[p].topic = k
  BY KeyOfCall DEF Subscribe, FullInv
<1>2. call[p].handler \in Handlers /\ absRequest[p].handler = call[p].handler
      /\ absRequest[p].op = "Subscribe"
  BY <1>1 DEF FullInv, Inv, HandlerGiven, absRequest, RequestOf, Called
<1>3. /\ k \in DOMAIN subscriptions' /\ subscriptions'[k].active
      /\ DOMAIN subscriptions' = DOMAIN subscriptions \cup {k}
      /\ \A x \in DOMAIN subscriptions \ {k} : subscriptions'[x] = subscriptions[x]
      /\ subscriptions'[k].count = IF k \in DOMAIN subscriptions THEN subscriptions[k].count ELSE 0
  <2>1. CASE k \in DOMAIN subscriptions
    <3>1. subscriptions' = [subscriptions EXCEPT ![k].active = TRUE]
      BY <2>1 DEF Subscribe
    <3>2. subscriptions \in [DOMAIN subscriptions -> Record] /\ subscriptions[k] \in Record
      BY <2>1 DEF FullInv, Inv, TableInv, TableOK
    <3> QED BY <2>1, <3>1, <3>2 DEF Record
  <2>2. CASE k \notin DOMAIN subscriptions
    <3> DEFINE r == NewRecord(call[p].service, call[p].domain, TRUE)
    <3>1. subscriptions' = With(subscriptions, k, r)
      BY <2>2 DEF Subscribe
    <3>2. r.active /\ r.count = 0
      BY DEF NewRecord
    <3> HIDE DEF r
    <3> QED BY <2>2, <3>1, <3>2 DEF With
  <2> QED BY <2>1, <2>2
<1>4. /\ DOMAIN handlers' = DOMAIN handlers \cup {k} /\ handlers'[k] = call[p].handler
      /\ \A x \in DOMAIN handlers \ {k} : handlers'[x] = handlers[x]
  <2>1. handlers' = With(handlers, k, call[p].handler)
    BY DEF Subscribe
  <2> QED BY <2>1 DEF With
<1>5. /\ Atomic!Answer(p, "ok") /\ Atomic!Advance(p, "answered")
      /\ UNCHANGED <<absRequest, absNested, delivered>>
  <2>1. absResult("ok") = "ok"
    BY DEF absResult
  <2> QED BY <2>1, FinishView DEF Subscribe, FullInv, Results
<1>6. /\ DOMAIN subscriptions' = DOMAIN subscriptions \cup {k}
      /\ absIsActive' = [absIsActive EXCEPT ![k] = TRUE]
      /\ absCount' = absCount
  <2>1. /\ DOMAIN subscriptions' = DOMAIN subscriptions \cup {k}
        /\ absIsActive' = [absIsActive EXCEPT ![k] = Active(k)']
        /\ absCount' = [absCount EXCEPT ![k] = Count(k)']
    BY <1>1, <1>3, RecordView
  <2>2. Active(k)'
    BY <1>1, <1>3 DEF Active
  <2>3. Count(k)' = absCount[k]
    BY <1>1, <1>3 DEF Count, absCount
  <2>4. absCount' = absCount
    BY <2>1, <2>3 DEF absCount
  <2> QED BY <2>1, <2>2, <2>4
<1>7. absHandlers' = [absHandlers EXCEPT ![k] = call[p].handler]
  <2>1. /\ \A x : x # k => /\ (x \in DOMAIN handlers') <=> (x \in DOMAIN handlers)
                           /\ (x \in DOMAIN handlers) => (handlers'[x] = handlers[x])
        /\ k \in DOMAIN handlers'
    BY <1>4
  <2> QED BY <1>4, <2>1, HandlerView
<1> QED BY <1>1, <1>2, <1>5, <1>6, <1>7 DEF Atomic!Subscribe, Atomic!Called, Called

LEMMA UnsubscribeMaps ==
    ASSUME FullInv, NEW p \in Procs, Unsubscribe(p)
    PROVE  Atomic!Unsubscribe(p)
<1>0. PICK k : k = KeyOf(p) /\ k \in Keys
  BY KeyOfCall DEF Unsubscribe, FullInv
<1> USE <1>0
<1>1. /\ Called(p, "Unsubscribe") /\ absRequest[p].topic = k
      /\ absRequest[p].op = "Unsubscribe" /\ delivered' = delivered
  BY KeyOfCall DEF Unsubscribe, FullInv, Called, absRequest, RequestOf
<1>3. CASE k \in DOMAIN subscriptions
  <2>1. /\ subscriptions' = [subscriptions EXCEPT ![k].active = FALSE]
        /\ handlers' = Without(handlers, k)
        /\ Finish(p, "ok")
    BY <1>3 DEF Unsubscribe
  <2>2. subscriptions \in [DOMAIN subscriptions -> Record] /\ subscriptions[k] \in Record
    BY <1>3 DEF FullInv, Inv, TableInv, TableOK
  <2>3. /\ Atomic!Answer(p, "ok") /\ Atomic!Advance(p, "answered")
        /\ UNCHANGED <<absRequest, absNested>>
    <3>1. absResult("ok") = "ok"
      BY DEF absResult
    <3> QED BY <2>1, <3>1, FinishView DEF FullInv, Results
  <2>4. /\ DOMAIN subscriptions' = DOMAIN subscriptions
        /\ ~subscriptions'[k].active /\ subscriptions'[k].count = subscriptions[k].count
        /\ \A x \in DOMAIN subscriptions \ {k} : subscriptions'[x] = subscriptions[x]
        /\ DOMAIN handlers' = DOMAIN handlers \ {k}
        /\ \A x \in DOMAIN handlers \ {k} : handlers'[x] = handlers[x]
    BY <1>3, <2>1, <2>2 DEF Record, Without
  <2>5. /\ DOMAIN subscriptions' = DOMAIN subscriptions
        /\ absIsActive' = [absIsActive EXCEPT ![k] = FALSE]
        /\ absCount' = absCount
    <3>1. /\ absIsActive' = [absIsActive EXCEPT ![k] = Active(k)']
          /\ absCount' = [absCount EXCEPT ![k] = Count(k)']
      BY <1>1, <1>3, <2>4, RecordView
    <3>2. Active(k)' = FALSE
      BY <1>1, <1>3, <2>4 DEF Active
    <3>3. Count(k)' = absCount[k]
      BY <1>1, <1>3, <2>4 DEF Count, absCount
    <3>4. absCount' = absCount
      BY <3>1, <3>3 DEF absCount
    <3> QED BY <2>4, <3>1, <3>2, <3>4
  <2>6. absHandlers' = [absHandlers EXCEPT ![k] = NoHandler]
    BY <1>1, <2>4, HandlerView
  <2> QED BY <1>1, <1>3, <2>3, <2>5, <2>6 DEF Atomic!Unsubscribe, Atomic!Called, Called
<1>4. CASE k \notin DOMAIN subscriptions
  <2>1. UNCHANGED tables /\ Finish(p, "errNotSubscribedToService")
    BY <1>4 DEF Unsubscribe
  <2>2. absResult("errNotSubscribedToService") = "errNotSubscribedToTopic"
    BY DEF absResult
  <2>3. /\ Atomic!Answer(p, "errNotSubscribedToTopic") /\ Atomic!Advance(p, "answered")
        /\ UNCHANGED <<absRequest, absNested>>
    BY <2>1, <2>2, FinishView DEF FullInv, Results
  <2>4. UNCHANGED <<DOMAIN subscriptions, absIsActive, absCount, absHandlers>>
    BY <2>1, TablesView
  <2> QED BY <1>1, <1>4, <2>3, <2>4 DEF Atomic!Unsubscribe, Atomic!Called, Called
<1> QED BY <1>3, <1>4

LEMMA CreateMaps ==
    ASSUME FullInv, NEW p \in Procs, Create(p)
    PROVE  Atomic!Create(p)
<1>0. PICK k : k = KeyOf(p) /\ k \in Keys
  BY KeyOfCall DEF Create, FullInv
<1> USE <1>0
<1>1. /\ Called(p, "Create") /\ absRequest[p].topic = k
      /\ absRequest[p].op = "Create"
  BY KeyOfCall DEF Create, FullInv, Called, absRequest, RequestOf
<1>2. /\ Atomic!Answer(p, "ok") /\ Atomic!Advance(p, "answered")
      /\ UNCHANGED <<absRequest, absNested, delivered>>
  <2>1. absResult("ok") = "ok"
    BY DEF absResult
  <2> QED BY <2>1, FinishView DEF Create, FullInv, Results
<1>3. absHandlers' = absHandlers
  BY DEF Create, absHandlers
<1>4. /\ DOMAIN subscriptions' = DOMAIN subscriptions \cup {k}
      /\ absIsActive' = absIsActive /\ absCount' = absCount
  <2>1. CASE k \in DOMAIN subscriptions
    <3>1. UNCHANGED tables
      BY <2>1 DEF Create, tables
    <3> QED BY <2>1, <3>1, TablesView
  <2>2. CASE k \notin DOMAIN subscriptions
    <3> DEFINE r == NewRecord(call[p].service, call[p].domain, FALSE)
    <3>1. subscriptions' = With(subscriptions, k, r)
      BY <2>2 DEF Create
    <3>2. ~r.active /\ r.count = 0
      BY DEF NewRecord
    <3> HIDE DEF r
    <3>3. /\ DOMAIN subscriptions' = DOMAIN subscriptions \cup {k}
          /\ subscriptions'[k] = r
          /\ \A x \in DOMAIN subscriptions : subscriptions'[x] = subscriptions[x]
      BY <2>2, <3>1 DEF With
    <3>4. /\ absIsActive' = [absIsActive EXCEPT ![k] = Active(k)']
          /\ absCount' = [absCount EXCEPT ![k] = Count(k)']
      BY <1>1, <3>3, RecordView
    <3>5. Active(k)' = FALSE /\ Active(k) = FALSE
      BY <1>1, <2>2, <3>2, <3>3 DEF Active
    <3>6. Count(k)' = 0 /\ Count(k) = 0
      BY <1>1, <2>2, <3>2, <3>3 DEF Count
    <3>7. absIsActive' = absIsActive
      BY <1>1, <3>4, <3>5 DEF absIsActive
    <3>8. absCount' = absCount
      BY <1>1, <3>4, <3>6 DEF absCount
    <3> QED BY <3>3, <3>7, <3>8
  <2> QED BY <2>1, <2>2
<1> QED BY <1>1, <1>2, <1>3, <1>4 DEF Atomic!Create, Atomic!Called, Called

LEMMA CloseMaps ==
    ASSUME FullInv, NEW p \in Procs, Close(p)
    PROVE  Atomic!Close(p)
<1>1. Called(p, "Close") /\ absRequest[p].op = "Close"
  BY DEF Close, Called, absRequest, RequestOf
<1>2. /\ Atomic!Answer(p, "ok") /\ Atomic!Advance(p, "answered")
      /\ UNCHANGED <<absRequest, absNested, delivered>>
  <2>1. absResult("ok") = "ok"
    BY DEF absResult
  <2> QED BY <2>1, FinishView DEF Close, FullInv, Results
<1>3. /\ DOMAIN subscriptions' = DOMAIN subscriptions
      /\ \A k \in DOMAIN subscriptions :
           ~subscriptions'[k].active /\ subscriptions'[k].count = subscriptions[k].count
      /\ handlers' = <<>>
  <2>1. \A k \in DOMAIN subscriptions : subscriptions[k] \in Record
    BY DEF FullInv, Inv, TableInv, TableOK
  <2>2. subscriptions' = [k \in DOMAIN subscriptions |-> [subscriptions[k] EXCEPT !.active = FALSE]]
    BY DEF Close
  <2> QED BY <2>1, <2>2 DEF Record, Close
<1>4. DOMAIN subscriptions' = DOMAIN subscriptions /\ absCount' = absCount
  BY <1>3 DEF absCount, Count
<1>5. absIsActive' = [x \in Keys |-> FALSE]
  <2>1. \A x \in Keys : Active(x)' = FALSE
    BY <1>3 DEF Active
  <2> QED BY <2>1 DEF absIsActive
<1>6. absHandlers' = [x \in Keys |-> NoHandler]
  BY <1>3 DEF absHandlers
<1> QED BY <1>1, <1>2, <1>4, <1>5, <1>6 DEF Atomic!Close, Atomic!Called, Called

\* A message is declined only when its pair is inactive: an active one has a handler.
LEMMA DeclineMaps ==
    ASSUME FullInv, NEW p \in Procs, Decline(p)
    PROVE  Atomic!Ignore(p)
<1>1. /\ Called(p, "Handle") /\ KeyOf(p) \in Keys /\ absRequest[p].topic = KeyOf(p)
      /\ absRequest[p].op = "Handle"
  BY KeyOfCall DEF Decline, FullInv, Called, absRequest, RequestOf
<1>2. Active(KeyOf(p)) = FALSE
  BY DEF Decline, FullInv, ActiveHasHandler, Active
<1>3. ~absIsActive[KeyOf(p)]
  BY <1>1, <1>2 DEF absIsActive
<1>4. Finish(p, "ok") /\ UNCHANGED <<tables, delivered>>
  BY <1>2 DEF Decline
<1>5. /\ Atomic!Answer(p, "ok") /\ Atomic!Advance(p, "answered")
      /\ UNCHANGED <<absRequest, absNested>>
  <2>1. absResult("ok") = "ok"
    BY DEF absResult
  <2> QED BY <1>4, <2>1, FinishView DEF FullInv, Results
<1>6. UNCHANGED Atomic!tables
  BY <1>4, TablesView DEF Atomic!tables
<1> QED BY <1>1, <1>3, <1>4, <1>5, <1>6 DEF Atomic!Ignore, Atomic!Called, Called

LEMMA AcceptMaps ==
    ASSUME FullInv, NEW p \in Procs, Accept(p)
    PROVE  Atomic!Accept(p)
<1>0. PICK k, h : k = KeyOf(p) /\ k \in Keys /\ h = handlers[k]
  BY KeyOfCall DEF Accept, FullInv
<1> USE <1>0
<1>1. /\ Called(p, "Handle") /\ absRequest[p].topic = k /\ absRequest[p].op = "Handle"
      /\ UNCHANGED <<tables, delivered>> /\ pc' = [pc EXCEPT ![p] = "accepted"]
  BY KeyOfCall DEF Accept, FullInv, Called, absRequest, RequestOf, GoTo
<1>2. absIsActive[k]
  <2>1. Active(k) = TRUE
    BY DEF Accept, Active
  <2> QED BY <2>1 DEF absIsActive
<1>3. absHandlers[k] = h /\ h # NoHandler
  BY NilIsNoHandler DEF Accept, absHandlers, FullInv, Inv, HandlersOK
<1> DEFINE c == [call[p] EXCEPT !.handler = h]
<1>4. call[p] \in Call /\ call' = [call EXCEPT ![p] = c]
  BY DEF Accept, FullInv, Inv, TableInv, CallsOK
<1> DEFINE W == {KeyOfPair(x) : x \in call[p].want}
<1>5. RequestOf(c) = [op |-> call[p].op, topic |-> k, handler |-> h, want |-> W]
      /\ AnswerOf(c) = AnswerOf(call[p])
  <2>1. /\ c.op = call[p].op /\ c.service = call[p].service /\ c.domain = call[p].domain
        /\ c.handler = h /\ c.want = call[p].want /\ c.copies = call[p].copies
        /\ c.ret = call[p].ret
    BY <1>4 DEF Call
  <2>2. call[p].service # Empty
    BY <1>1, NamesAreStrings DEF FullInv, Inv, TableInv, ArgsOK, Called
  <2> QED BY <2>1, <2>2 DEF RequestOf, AnswerOf, KeyOf
<1>6. absRequest' = [absRequest EXCEPT ![p].handler = h]
  <2>1. absRequest[p] = [op |-> call[p].op, topic |-> k,
                         handler |-> call[p].handler, want |-> W]
    <3>1. call[p].service # Empty
      BY <1>1, NamesAreStrings DEF FullInv, Inv, TableInv, ArgsOK, Called
    <3> QED BY <3>1 DEF absRequest, RequestOf, KeyOf
  <2> HIDE DEF W, c
  <2>2. [absRequest[p] EXCEPT !.handler = h]
          = [op |-> call[p].op, topic |-> k, handler |-> h, want |-> W]
    BY <2>1
  <2>3. absRequest' = [absRequest EXCEPT ![p] = RequestOf(c)]
    BY <1>4, CallView DEF FullInv
  <2> QED BY <1>5, <2>2, <2>3
<1> HIDE DEF c, W
<1>7. absAnswer' = absAnswer
  <2>1. absAnswer' = [absAnswer EXCEPT ![p] = AnswerOf(c)]
    BY <1>4, CallView DEF FullInv
  <2> QED BY <1>5, <2>1 DEF absAnswer
<1>8. UNCHANGED Atomic!tables /\ absNested' = absNested
  BY <1>1, TablesView DEF Atomic!tables, absNested
<1> QED BY <1>1, <1>2, <1>3, <1>6, <1>7, <1>8 DEF Atomic!Accept, Atomic!Called, Called, Atomic!Advance

LEMMA CountMaps ==
    ASSUME FullInv, NEW p \in Procs, CountMessage(p)
    PROVE  Atomic!Count(p)
<1>0. PICK k : k = KeyOf(p) /\ k \in Keys
  BY KeyOfCall DEF CountMessage, FullInv
<1> USE <1>0
<1>1. /\ pc[p] = "accepted" /\ absRequest[p].topic = k /\ pc' = [pc EXCEPT ![p] = "counted"]
      /\ k \in DOMAIN subscriptions /\ UNCHANGED <<handlers, call, delivered>>
  BY KeyOfCall DEF CountMessage, FullInv, AcceptedHasRecord, GoTo
<1>2. /\ DOMAIN subscriptions' = DOMAIN subscriptions
      /\ \A x \in DOMAIN subscriptions \ {k} : subscriptions'[x] = subscriptions[x]
      /\ subscriptions'[k].active = subscriptions[k].active
      /\ subscriptions'[k].count = subscriptions[k].count + 1
  <2>1. subscriptions' = [subscriptions EXCEPT ![k].count = @ + 1]
    BY DEF CountMessage
  <2>2. subscriptions \in [DOMAIN subscriptions -> Record] /\ subscriptions[k] \in Record
    BY <1>1 DEF FullInv, Inv, TableInv, TableOK
  <2> QED BY <1>1, <2>1, <2>2 DEF Record
<1>3. /\ DOMAIN subscriptions' = DOMAIN subscriptions \cup {k}
      /\ absIsActive' = [absIsActive EXCEPT ![k] = Active(k)']
      /\ absCount' = [absCount EXCEPT ![k] = Count(k)']
  BY <1>1, <1>2, RecordView
<1>4. DOMAIN subscriptions' = DOMAIN subscriptions
  BY <1>2
<1>5. absIsActive' = absIsActive
  <2>1. Active(k)' = Active(k)
    BY <1>1, <1>2 DEF Active
  <2> QED BY <1>3, <2>1 DEF absIsActive
<1>6. absCount' = [absCount EXCEPT ![k] = @ + 1]
  <2>1. Count(k)' = Count(k) + 1
    BY <1>1, <1>2 DEF Count
  <2> QED BY <1>3, <2>1 DEF absCount
<1>7. UNCHANGED <<absHandlers, absRequest, absAnswer, absNested>>
  BY <1>1 DEF absHandlers, absRequest, absAnswer, absNested
<1> QED BY <1>1, <1>4, <1>5, <1>6, <1>7 DEF Atomic!Count, Atomic!Advance

LEMMA InvokeMaps ==
    ASSUME FullInv, NEW p \in Procs, Invoke(p)
    PROVE  Atomic!Invoke(p)
<1>1. /\ pc[p] = "counted" /\ absRequest[p].topic = KeyOf(p)
      /\ pc' = [pc EXCEPT ![p] = "handling"] /\ UNCHANGED <<tables, call>>
      /\ delivered' = [delivered EXCEPT ![KeyOf(p)] = @ + 1]
  BY KeyOfCall DEF Invoke, FullInv, GoTo
<1>2. UNCHANGED <<absRequest, absAnswer, absNested>>
  BY <1>1 DEF absRequest, absAnswer, absNested
<1>3. UNCHANGED Atomic!tables
  BY <1>1, TablesView DEF Atomic!tables
<1> QED BY <1>1, <1>2, <1>3 DEF Atomic!Invoke, Atomic!Advance

LEMMA HandlerReturnsMaps ==
    ASSUME FullInv, NEW p \in Procs, HandlerReturns(p)
    PROVE  Atomic!HandlerReturns(p)
<1>1. PICK r \in {"ok", "errHandler"} : Finish(p, r)
  BY DEF HandlerReturns
<1>2. absResult(r) = r /\ r \in Results
  BY DEF absResult, Results
<1>3. /\ Atomic!Answer(p, r) /\ Atomic!Advance(p, "answered")
      /\ UNCHANGED <<absRequest, absNested>>
  BY <1>1, <1>2, FinishView DEF FullInv
<1>4. UNCHANGED Atomic!tables /\ pc[p] = "handling" /\ UNCHANGED delivered
  BY TablesView DEF Atomic!tables, HandlerReturns
<1> QED BY <1>3, <1>4 DEF Atomic!HandlerReturns

\* The records a getter copies show as those of the keys it is asked about: a record
\* copied under the names it holds is the one filed under the key of these names.
LEMMA CopiesShown ==
    ASSUME Inv, NEW w \in SUBSET Pairs, NEW C,
           \/ /\ w = Pairs
              /\ C = {CopyAs(<<r.service, r.domain>>, r) : r \in Records}
           \/ \E x \in Pairs :
              /\ w = {x}
              /\ C = IF KeyOfPair(x) \in DOMAIN subscriptions
                     THEN {CopyAs(x, subscriptions[KeyOfPair(x)])} ELSE {}
    PROVE  {CopyByKey(y) : y \in C}
             = {[topic |-> k, active |-> absIsActive[k], count |-> absCount[k]]
                    : k \in {KeyOfPair(x) : x \in w} \cap DOMAIN subscriptions}
<1> DEFINE View(k) == [topic |-> k, active |-> absIsActive[k], count |-> absCount[k]]
<1>1. ASSUME NEW x \in Pairs, NEW k \in DOMAIN subscriptions, k = KeyOfPair(x)
      PROVE  CopyByKey(CopyAs(x, subscriptions[k])) = View(k)
  <2>1. k \in Keys /\ subscriptions[k].active \in BOOLEAN
    BY <1>1, RecordsUnderKeys DEF Record
  <2>2. absIsActive[k] = subscriptions[k].active
    BY <1>1, <2>1 DEF absIsActive, Active
  <2>3. absCount[k] = subscriptions[k].count
    BY <1>1, <2>1 DEF absCount, Count
  <2> QED BY <1>1, <2>2, <2>3 DEF CopyAs, CopyByKey
<1>2. CASE /\ w = Pairs
           /\ C = {CopyAs(<<r.service, r.domain>>, r) : r \in Records}
  <2>1. \A k \in DOMAIN subscriptions :
          CopyByKey(CopyAs(<<subscriptions[k].service, subscriptions[k].domain>>,
                           subscriptions[k])) = View(k)
    <3> SUFFICES ASSUME NEW k \in DOMAIN subscriptions
                 PROVE  CopyByKey(CopyAs(<<subscriptions[k].service, subscriptions[k].domain>>,
                                         subscriptions[k])) = View(k)
      OBVIOUS
    <3>1. PICK x \in Pairs : x = <<subscriptions[k].service, subscriptions[k].domain>>
      BY RecordsUnderKeys
    <3>2. k = KeyOfPair(x)
      BY <3>1, RecordsUnderKeys DEF KeyOfPair
    <3> HIDE DEF View
    <3>3. CopyByKey(CopyAs(x, subscriptions[k])) = View(k)
      BY <1>1, <3>2
    <3> QED BY <3>1, <3>3
  <2>2. {KeyOfPair(x) : x \in w} \cap DOMAIN subscriptions = DOMAIN subscriptions
    <3> SUFFICES ASSUME NEW k \in DOMAIN subscriptions
                 PROVE  \E x \in w : k = KeyOfPair(x)
      OBVIOUS
    <3>1. PICK x \in Pairs : x = <<subscriptions[k].service, subscriptions[k].domain>>
      BY RecordsUnderKeys
    <3> QED BY <1>2, <3>1, RecordsUnderKeys DEF KeyOfPair
  <2> HIDE DEF View
  <2>3. {CopyByKey(y) : y \in C} = {View(k) : k \in DOMAIN subscriptions}
    <3>1. {CopyByKey(y) : y \in C}
            = {CopyByKey(CopyAs(<<r.service, r.domain>>, r)) : r \in Records}
      BY <1>2
    <3> QED BY <2>1, <3>1 DEF Records
  <2> QED BY <2>2, <2>3 DEF View
<1>3. ASSUME NEW x \in Pairs, w = {x},
             C = IF KeyOfPair(x) \in DOMAIN subscriptions
                 THEN {CopyAs(x, subscriptions[KeyOfPair(x)])} ELSE {}
      PROVE  {CopyByKey(y) : y \in C}
               = {View(k) : k \in {KeyOfPair(y) : y \in w} \cap DOMAIN subscriptions}
  <2>1. PICK k : k = KeyOfPair(x)
    OBVIOUS
  <2>2. {KeyOfPair(y) : y \in w} = {k}
    BY <1>3, <2>1
  <2>3. CASE k \in DOMAIN subscriptions
    <3>1. CopyByKey(CopyAs(x, subscriptions[k])) = View(k)
      BY <1>1, <2>1, <2>3
    <3>2. C = {CopyAs(x, subscriptions[k])}
      BY <1>3, <2>1, <2>3
    <3> HIDE DEF View
    <3>3. {CopyByKey(y) : y \in C} = {View(k)}
      BY <3>1, <3>2
    <3> QED BY <2>2, <2>3, <3>3
  <2>4. CASE k \notin DOMAIN subscriptions
    <3>1. C = {}
      BY <1>3, <2>1, <2>4
    <3> HIDE DEF View
    <3> QED BY <2>2, <2>4, <3>1
  <2> QED BY <2>3, <2>4
<1> QED BY <1>2, <1>3

LEMMA GetMaps ==
    ASSUME FullInv, NEW p \in Procs,
           GetAll(p) \/ \E x \in Pairs : GetLookup(p, x)
    PROVE  Atomic!Get(p)
<1> DEFINE w == call[p].want
           W == {KeyOfPair(x) : x \in w}
           V == {[topic |-> k, active |-> absIsActive[k], count |-> absCount[k]]
                    : k \in W \cap DOMAIN subscriptions}
<1>1. call[p] \in Call /\ w \in SUBSET Pairs
  BY DEF FullInv, Inv, TableInv, CallsOK, Call
<1>2. /\ Called(p, "Get") /\ pc' = [pc EXCEPT ![p] = "answered"] /\ UNCHANGED <<tables, delivered>>
      /\ absRequest[p].op = "Get" /\ absRequest[p].want = W
  BY DEF GetAll, GetLookup, GoTo, Called, absRequest, RequestOf
<1>3. PICK C : /\ call' = [call EXCEPT ![p] = [call[p] EXCEPT !.copies = C, !.ret = "ok"]]
               /\ {CopyByKey(y) : y \in C} = V
  <2>1. CASE GetAll(p)
    <3> DEFINE D == {CopyAs(<<r.service, r.domain>>, r) : r \in Records}
    <3>1. {CopyByKey(y) : y \in D} = V
      <4>1. w = Pairs
        BY <2>1 DEF GetAll
      <4> HIDE DEF w
      <4> QED BY <1>1, <4>1, CopiesShown DEF FullInv
    <3>2. call' = [call EXCEPT ![p].copies = D, ![p].ret = "ok"]
      BY <2>1 DEF GetAll
    <3> HIDE DEF V, D
    <3>3. call' = [call EXCEPT ![p] = [call[p] EXCEPT !.copies = D, !.ret = "ok"]]
      BY <3>2 DEF FullInv, Inv, TableInv, CallsOK
    <3> QED BY <3>1, <3>3
  <2>2. ASSUME NEW x \in Pairs, GetLookup(p, x)
        PROVE  \E C : /\ call' = [call EXCEPT ![p] = [call[p] EXCEPT !.copies = C, !.ret = "ok"]]
                      /\ {CopyByKey(y) : y \in C} = V
    <3> DEFINE D == IF KeyOfPair(x) \in DOMAIN subscriptions
                    THEN {CopyAs(x, subscriptions[KeyOfPair(x)])} ELSE {}
    <3>1. {CopyByKey(y) : y \in D} = V
      <4>1. w = {x}
        BY <2>2 DEF GetLookup
      <4> HIDE DEF w
      <4> QED BY <1>1, <4>1, CopiesShown DEF FullInv
    <3>2. call' = [call EXCEPT ![p].copies = D, ![p].ret = "ok"]
      BY <2>2 DEF GetLookup, KeyOfPair
    <3> HIDE DEF V, D
    <3>3. call' = [call EXCEPT ![p] = [call[p] EXCEPT !.copies = D, !.ret = "ok"]]
      BY <3>2 DEF FullInv, Inv, TableInv, CallsOK
    <3> QED BY <3>1, <3>3
  <2> QED BY <2>1, <2>2
<1> DEFINE c == [call[p] EXCEPT !.copies = C, !.ret = "ok"]
<1>4. RequestOf(c) = RequestOf(call[p]) /\ AnswerOf(c) = [ret |-> "ok", copies |-> V]
  <2> HIDE DEF V
  <2>1. /\ c.op = call[p].op /\ c.service = call[p].service /\ c.domain = call[p].domain
        /\ c.handler = call[p].handler /\ c.want = call[p].want
        /\ c.copies = C /\ c.ret = "ok"
    BY <1>1 DEF Call
  <2> QED BY <1>3, <2>1 DEF RequestOf, AnswerOf, absResult
<1>5. absRequest' = absRequest
  <2> HIDE DEF V, c
  <2>1. absRequest' = [absRequest EXCEPT ![p] = RequestOf(c)]
    BY <1>3, CallView DEF FullInv, c
  <2> QED BY <1>4, <2>1 DEF absRequest
<1> HIDE DEF V
<1>6. absAnswer' = [absAnswer EXCEPT ![p] = [ret |-> "ok", copies |-> V]]
  <2>1. absAnswer' = [absAnswer EXCEPT ![p] = AnswerOf(c)]
    BY <1>3, CallView DEF FullInv
  <2> QED BY <1>4, <2>1
<1> HIDE DEF c, W
<1>7. UNCHANGED Atomic!tables /\ absNested' = absNested
  BY <1>2, TablesView DEF Atomic!tables, absNested
<1> QED BY <1>2, <1>5, <1>6, <1>7 DEF Atomic!Get, Atomic!Called, Called, Atomic!Advance, V

LEMMA StepMaps ==
    ASSUME FullInv, NEW p \in Procs, Start(p) \/ Effect(p) \/ Return(p)
    PROVE  (\E q \in Atomic!Requests : Atomic!Request(p, q)) \/ Atomic!Effect(p) \/ Atomic!Return(p)
<1>1. CASE Start(p)
  BY <1>1, StartMaps DEF FullInv
<1>2. CASE Return(p)
  BY <1>2, ReturnMaps DEF FullInv
<1>3. CASE Effect(p)
  BY <1>3, SubscribeMaps, UnsubscribeMaps, CreateMaps, CloseMaps, DeclineMaps, AcceptMaps,
     CountMaps, InvokeMaps, HandlerReturnsMaps, GetMaps DEF Effect, Atomic!Effect
<1> QED BY <1>1, <1>2, <1>3

LEMMA InitMaps == Init => Atomic!Init
<1> SUFFICES ASSUME Init PROVE Atomic!Init
  OBVIOUS
<1>1. DOMAIN subscriptions = {} /\ absCount = [x \in Keys |-> 0]
      /\ absHandlers = [x \in Keys |-> NoHandler]
  BY DEF Init, absCount, Count, absHandlers
<1>2. absIsActive = [x \in Keys |-> FALSE]
  <2>1. \A k : Active(k) = FALSE
    BY DEF Init, Active
  <2> QED BY <2>1 DEF absIsActive
<1>3. \A p \in Procs : RequestOf(call[p]) = Atomic!NoRequest("None")
                       /\ AnswerOf(call[p]) = Atomic!NoAnswer
  BY DEF Init, NewCall, RequestOf, AnswerOf, absResult, Atomic!NoRequest, Atomic!NoAnswer
<1>4. absRequest = [p \in Procs |-> Atomic!NoRequest("None")]
      /\ absAnswer = [p \in Procs |-> Atomic!NoAnswer]
  BY <1>3 DEF absRequest, absAnswer
<1> QED BY <1>1, <1>2, <1>4 DEF Init, Atomic!Init, absNested

\* Keys do not interfere, whatever the names are: a call acts on the record, the count
\* and the handler of its key, a message reaches the handler its key had when it was
\* accepted, and a getter reports each record under its key.  The maps keyed by joined
\* names implement the atomic manager whose topics are the keys.
THEOREM KeysNeverInterfere == Spec => KeysAreSeparate
<1>2. Init => Atomic!Init
  BY InitMaps
<1>3. FullInv /\ [Next]_vars => [Atomic!Next]_(Atomic!vars)
  <2> SUFFICES ASSUME FullInv, [Next]_vars PROVE Atomic!Next \/ UNCHANGED Atomic!vars
    OBVIOUS
  <2>1. CASE Next
    BY <2>1, StepMaps DEF Next, Atomic!Next
  <2>2. CASE UNCHANGED vars
    <3>1. UNCHANGED <<tables, pc, call, delivered>>
      BY <2>2 DEF vars
    <3>2. UNCHANGED <<absRequest, absAnswer, absNested>>
      BY <3>1 DEF absRequest, absAnswer, absNested
    <3> QED BY <3>1, <3>2, TablesView DEF Atomic!vars, Atomic!tables
  <2> QED BY <2>1, <2>2
<1> QED BY <1>2, <1>3, FullInvHolds, PTL DEF Spec, KeysAreSeparate, Atomic!Spec
=============================================================================
