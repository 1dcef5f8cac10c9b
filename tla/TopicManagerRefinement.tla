----------------------- MODULE TopicManagerRefinement -----------------------
(***************************************************************************)
(* The locked, step-by-step topic manager implements the atomic one.        *)
(*                                                                          *)
(* A mutator takes effect at its first write (Close: when it gets the lock): *)
(* from then on the abstract tables already show the writes it still has to  *)
(* make, which nobody can observe because the lock is held.  A getter and    *)
(* HandleTopicMessage take effect at their last read.                        *)
(***************************************************************************)
EXTENDS TopicManager

\* The holder of the lock is in the loop of Close, or has yet to write the handler of t.
Closing == writer # NoProc /\ At(writer, "first", "Close")

Pending(t) ==
    /\ writer # NoProc
    /\ pc[writer] = "second" /\ call[writer].op \in {"Subscribe", "Unsubscribe"}
    /\ call[writer].topic = t

absIsActive == [t \in Topics |-> isActive[t] /\ ~Closing]

\* The handler of the call is the new one of a Subscribe, NoHandler in an Unsubscribe.
absHandlers ==
    [t \in Topics |-> IF Closing THEN NoHandler
                      ELSE IF Pending(t) THEN call[writer].handler
                      ELSE handlers[t]]

-----------------------------------------------------------------------------
(* How far a call c is whose goroutine is at label l, and what it shows.     *)

Accepted(c) == c.live /\ c.handler # NoHandler

StageOf(l, c) ==
    IF l \in {"idle", "handling", "resumed"} THEN l
    ELSE IF \/ l = "invoke"
            \/ l = "unlock" /\ c.op = "Handle" THEN "counted"
    ELSE IF \/ l = "runlock" /\ Accepted(c)
            \/ l \in {"lock", "drain", "first", "second"} /\ c.op = "Handle" THEN "accepted"
    ELSE IF \/ l \in {"return", "unlock", "second", "runlock"}
            \/ l = "first" /\ c.op = "Close" THEN "answered"
    ELSE "called"

RequestOf(c) == [op |-> c.op, topic |-> c.topic, handler |-> c.handler, want |-> c.want]

AnswerOf(l, c) ==
    IF StageOf(l, c) = "answered"
    THEN [ret |-> IF c.ret = "none" THEN "ok" ELSE c.ret, copies |-> c.copies]
    ELSE [ret |-> c.ret, copies |-> {}]

absStage   == [p \in Procs |-> StageOf(pc[p], call[p])]
absRequest == [p \in Procs |-> RequestOf(call[p])]
absAnswer  == [p \in Procs |-> AnswerOf(pc[p], call[p])]

Atomic == INSTANCE Subscriptions WITH
    isActive <- absIsActive,
    handlers <- absHandlers,
    stage    <- absStage,
    request  <- absRequest,
    answer   <- absAnswer

\* The topic manager is linearizable: whatever the interleaving of its steps,
\* callers see operations that take effect one at a time, in full, between their
\* call and their return; and a handler only starts for a message that was
\* accepted while its topic was active, with the handler of that moment.
Linearizable == Atomic!Spec
=============================================================================
