---------------------------- MODULE Subscriptions ----------------------------
(***************************************************************************)
(* What a topic manager promises its callers, without locks: every operation *)
(* of pkg/ship/topic_manager.go takes effect at one moment between its call  *)
(* and its return.  The one operation with more than one moment is           *)
(* HandleTopicMessage, which accepts a message, counts it and starts the     *)
(* handler, each at a moment of its own: a handler may start after the topic *)
(* was unsubscribed, but only for a message accepted while it was active,    *)
(* and then it is the handler the topic had at that moment.                  *)
(***************************************************************************)
EXTENDS Integers

CONSTANTS Procs, Topics, Handlers, EmptyTopic, NoHandler, MaxMessages

VARIABLES
    subscriptions, isActive, messageCount, handlers,  (* the two tables     *)
    stage,      (* how far the current call of each goroutine is            *)
    request,    (* its operation and arguments                              *)
    answer,     (* its result                                               *)
    nested,     (* was it made from inside a handler?                       *)
    delivered   (* handler invocations started, per topic                   *)

tables == <<subscriptions, isActive, messageCount, handlers>>
vars   == <<tables, stage, request, answer, nested, delivered>>

NoRequest(o) == [op |-> o, topic |-> EmptyTopic, handler |-> NoHandler, want |-> {}]
NoAnswer == [ret |-> "none", copies |-> {}]

Init ==
    /\ subscriptions = {}
    /\ isActive = [t \in Topics |-> FALSE]
    /\ messageCount = [t \in Topics |-> 0]
    /\ handlers = [t \in Topics |-> NoHandler]
    /\ stage = [p \in Procs |-> "idle"]
    /\ request = [p \in Procs |-> NoRequest("None")]
    /\ answer = [p \in Procs |-> NoAnswer]
    /\ nested = [p \in Procs |-> FALSE]
    /\ delivered = [t \in Topics |-> 0]

Advance(p, s) == stage' = [stage EXCEPT ![p] = s]
Answer(p, r)  == answer' = [answer EXCEPT ![p].ret = r]

-----------------------------------------------------------------------------
(* A call is made, with an empty topic or a nil handler rejected at once.   *)

Refusal(q) ==
    IF q.op \notin {"Close", "Get"} /\ q.topic = EmptyTopic
    THEN IF q.op = "Handle" THEN "errMessageTopicEmpty" ELSE "errTopicNameEmpty"
    ELSE IF q.op = "Subscribe" /\ q.handler = NoHandler THEN "errMessageHandlerNil"
    ELSE "none"

Requests ==
    [op : {"Subscribe"}, topic : Topics \cup {EmptyTopic},
     handler : Handlers \cup {NoHandler}, want : {{}}]
    \cup [op : {"Unsubscribe", "Create", "Handle"}, topic : Topics \cup {EmptyTopic},
          handler : {NoHandler}, want : {{}}]
    \cup [op : {"Get"}, topic : {EmptyTopic}, handler : {NoHandler}, want : SUBSET Topics]
    \cup {NoRequest("Close")}

Request(p, q) ==
    /\ \/ stage[p] = "idle"
       \/ stage[p] = "handling" /\ ~nested[p]
    /\ nested' = [nested EXCEPT ![p] = (stage[p] = "handling")]
    /\ IF Refusal(q) = "none"
       THEN /\ request' = [request EXCEPT ![p] = q]
            /\ answer' = [answer EXCEPT ![p] = NoAnswer]
            /\ Advance(p, "called")
       ELSE /\ request' = [request EXCEPT ![p] = NoRequest(q.op)]
            /\ answer' = [answer EXCEPT ![p] = [NoAnswer EXCEPT !.ret = Refusal(q)]]
            /\ Advance(p, "answered")
    /\ UNCHANGED <<tables, delivered>>

Return(p) ==
    /\ stage[p] = "answered"
    /\ Advance(p, IF nested[p] THEN "resumed" ELSE "idle")
    /\ request' = [request EXCEPT ![p] = NoRequest(IF nested[p] THEN "Handle" ELSE "None")]
    /\ answer' = [answer EXCEPT ![p] = NoAnswer]
    /\ nested' = [nested EXCEPT ![p] = FALSE]
    /\ UNCHANGED <<tables, delivered>>

-----------------------------------------------------------------------------
(* The operations on the tables, each in one step.                          *)

Called(p, o) == stage[p] = "called" /\ request[p].op = o

Subscribe(p) ==
    LET t == request[p].topic IN
    /\ Called(p, "Subscribe")
    /\ subscriptions' = subscriptions \cup {t}
    /\ isActive' = [isActive EXCEPT ![t] = TRUE]
    /\ handlers' = [handlers EXCEPT ![t] = request[p].handler]
    /\ Answer(p, "ok")
    /\ Advance(p, "answered")
    /\ UNCHANGED <<messageCount, request, nested, delivered>>

Unsubscribe(p) ==
    LET t == request[p].topic IN
    /\ Called(p, "Unsubscribe")
    /\ IF t \in subscriptions
       THEN /\ isActive' = [isActive EXCEPT ![t] = FALSE]
            /\ handlers' = [handlers EXCEPT ![t] = NoHandler]
            /\ Answer(p, "ok")
       ELSE UNCHANGED <<isActive, handlers>> /\ Answer(p, "errNotSubscribedToTopic")
    /\ Advance(p, "answered")
    /\ UNCHANGED <<subscriptions, messageCount, request, nested, delivered>>

Create(p) ==
    /\ Called(p, "Create")
    /\ subscriptions' = subscriptions \cup {request[p].topic}
    /\ Answer(p, "ok")
    /\ Advance(p, "answered")
    /\ UNCHANGED <<isActive, messageCount, handlers, request, nested, delivered>>

Close(p) ==
    /\ Called(p, "Close")
    /\ isActive' = [t \in Topics |-> FALSE]
    /\ handlers' = [t \in Topics |-> NoHandler]
    /\ Answer(p, "ok")
    /\ Advance(p, "answered")
    /\ UNCHANGED <<subscriptions, messageCount, request, nested, delivered>>

Get(p) ==
    /\ Called(p, "Get")
    /\ answer' = [answer EXCEPT ![p] =
           [ret |-> "ok",
            copies |-> {[topic |-> t, active |-> isActive[t], count |-> messageCount[t]]
                            : t \in request[p].want \cap subscriptions}]]
    /\ Advance(p, "answered")
    /\ UNCHANGED <<tables, request, nested, delivered>>

Ignore(p) ==
    /\ Called(p, "Handle")
    /\ ~isActive[request[p].topic]
    /\ Answer(p, "ok")
    /\ Advance(p, "answered")
    /\ UNCHANGED <<tables, request, nested, delivered>>

Accept(p) ==
    LET t == request[p].topic IN
    /\ Called(p, "Handle")
    /\ isActive[t]
    /\ handlers[t] # NoHandler
    /\ request' = [request EXCEPT ![p].handler = handlers[t]]
    /\ Advance(p, "accepted")
    /\ UNCHANGED <<tables, answer, nested, delivered>>

Count(p) ==
    /\ stage[p] = "accepted"
    /\ messageCount' = [messageCount EXCEPT ![request[p].topic] = @ + 1]
    /\ Advance(p, "counted")
    /\ UNCHANGED <<subscriptions, isActive, handlers, request, answer, nested, delivered>>

Invoke(p) ==
    /\ stage[p] = "counted"
    /\ delivered' = [delivered EXCEPT ![request[p].topic] = @ + 1]
    /\ Advance(p, "handling")
    /\ UNCHANGED <<tables, request, answer, nested>>

HandlerReturns(p) ==
    /\ stage[p] \in {"handling", "resumed"}
    /\ \E r \in {"ok", "errHandler"} : Answer(p, r)
    /\ Advance(p, "answered")
    /\ UNCHANGED <<tables, request, nested, delivered>>

-----------------------------------------------------------------------------
Effect(p) ==
    \/ Subscribe(p) \/ Unsubscribe(p) \/ Create(p) \/ Close(p) \/ Get(p)
    \/ Ignore(p) \/ Accept(p) \/ Count(p) \/ Invoke(p) \/ HandlerReturns(p)

Next == \E p \in Procs : (\E q \in Requests : Request(p, q)) \/ Effect(p) \/ Return(p)

Spec == Init /\ [][Next]_vars
=============================================================================
