---------------------------- MODULE ProcessEngine ---------------------------
(***************************************************************************)
(* One process instance of the BPMN engine (pkg/bpmn): its rows in the     *)
(* database, the goroutines that serve API calls on it, and the timer loop.*)
(*                                                                         *)
(* Every call locks the instance, computes a batch from the rows it reads  *)
(* and flushes the batch, which also unlocks; most calls then run the      *)
(* tokens they moved, in RunProcessInstance, which locks again and keeps   *)
(* the tokens in memory.  What happens between one lock and the unlock is  *)
(* one step, except for the main loop, where every flush is one.  Only     *)
(* JobAssignByKey writes without the lock.                                 *)
(*                                                                         *)
(* In the operators below, db is what a query reads and b the database as  *)
(* the batch will leave it.  Variables, expressions and payloads are left  *)
(* out: what depends on them is a choice.  The process definition is a     *)
(* constant.                                                               *)
(***************************************************************************)
EXTENDS Naturals, Sequences, FiniteSets

CONSTANTS
    Node,          \* flow nodes of the process definition
    Kind,          \* type of each node
    Out,           \* targets of the outgoing sequence flows, in order
    Boundary,      \* boundary events attached to each node, in order
    Interrupting,  \* boundary events with cancelActivity
    Message,       \* name of the message of each message event
    StartEvents,   \* start events, in order
    CatchEvents,   \* intermediate catch events, in order
    Handled,       \* nodes whose jobs have a handler in the engine itself
    MayFail,       \* nodes with an expression that may fail to evaluate
    Client,        \* goroutines that serve API calls
    TimerLoop,     \* the goroutine of the timer manager
    NoOne,         \* the lock is free
    Nobody,        \* the lock is held by a call that has returned
    Calls,         \* the calls that clients make
    ModifyAt,      \* nodes at which ModifyInstance starts tokens
    StaleTimers,   \* a timer may fall due just after it was cancelled
    MaxTokens, MaxRows, MaxFailures, MaxCrashes  \* bounds of the model

Proc == Client \union {TimerLoop}

JobKinds      == {"task", "throw", "messageEnd"}
EndKinds      == {"end", "terminate", "messageEnd"}
MessageKinds  == {"messageCatch", "boundaryMessage"}
TimerKinds    == {"timerCatch", "boundaryTimer"}
BoundaryKinds == {"boundaryMessage", "boundaryTimer"}
CatchKinds    == {"messageCatch", "timerCatch"}
Kinds == JobKinds \union EndKinds \union MessageKinds \union TimerKinds \union
         {"start", "linkThrow", "linkCatch", "exclusive", "inclusive", "parallel", "eventGateway"}

ASSUME ProcessDefinition ==
    /\ Kind \in [Node -> Kinds]
    /\ Out \in [Node -> Seq(Node)]
    /\ Boundary \in [Node -> Seq(Node)]
    /\ Interrupting \subseteq Node
    /\ DOMAIN Message = {n \in Node : Kind[n] \in MessageKinds}
    /\ StartEvents \in Seq(Node)
    /\ CatchEvents \in Seq(Node)
    /\ {CatchEvents[i] : i \in DOMAIN CatchEvents}
         = {n \in Node : Kind[n] \in CatchKinds \union {"linkCatch"}}
    /\ Handled \subseteq {n \in Node : Kind[n] \in JobKinds}
    /\ MayFail \subseteq Node
    /\ ModifyAt \subseteq Node
    /\ \A n \in Node : Out[n] = <<>> <=> Kind[n] \in EndKinds
    /\ \A n \in Node : Boundary[n] # <<>> => Kind[n] = "task"
    /\ \A n \in Node : Kind[n] = "linkThrow" => Kind[Out[n][1]] = "linkCatch"

ASSUME EngineAssumption ==
    /\ TimerLoop \notin Client
    /\ {NoOne, Nobody} \intersect Proc = {} /\ NoOne # Nobody
    /\ StaleTimers \in BOOLEAN
    /\ MaxTokens \in Nat /\ MaxRows \in Nat /\ MaxFailures \in Nat /\ MaxCrashes \in Nat
    /\ StaleTimers => MaxCrashes = 0

VARIABLES
    db,        \* rows of the instance: instance, token, job, sub, incident
    lock,      \* the instance's entry in RunningInstancesCache
    proc,      \* per goroutine, the call it serves and the tokens it carries
    up,        \* the node runs
    failures,  \* flushes that have failed
    crashes

engineVars == <<db, lock, proc, up, failures, crashes>>

TokenKey == 1..MaxTokens
Idle     == [pc |-> "idle", op |-> "none", arg |-> 0, node |-> "none", at |-> "none",
             tokens |-> <<>>, failed |-> FALSE]

Init ==
    /\ db = [instance |-> "none",
             token    |-> [k \in TokenKey |-> [at |-> "none", state |-> "none"]],
             job      |-> <<>>,   \* [token, at, state]
             sub      |-> <<>>,   \* message subscriptions and timers: [event, token, at, state]
             incident |-> <<>>]   \* [token, resolved]
    /\ lock = NoOne
    /\ proc = [p \in Proc |-> Idle]
    /\ up = TRUE
    /\ failures = 0
    /\ crashes = 0

-----------------------------------------------------------------------------
\* Queries.
Ended           == db.instance \in {"completed", "terminated"}
ActiveTokens    == {k \in TokenKey : db.token[k].state \in {"running", "waiting", "failed"}}
PendingJobs     == {j \in DOMAIN db.job : db.job[j].state \in {"active", "failed"}}
ActiveSubs      == {s \in DOMAIN db.sub : db.sub[s].state = "active"}
ActiveMessages  == {s \in ActiveSubs : Kind[db.sub[s].event] \in MessageKinds}
TokenSubs(k)    == {s \in ActiveSubs : db.sub[s].token = k}
At(k)           == db.token[k].at

\* Keys come from a generator: neither a row nor a goroutine knows a new one.
Unused == {k \in TokenKey : /\ db.token[k].state = "none"
                            /\ \A p \in Proc : \A i \in DOMAIN proc[p].tokens :
                                  proc[p].tokens[i].key # k}
Fresh(i) == CHOOSE k \in Unused : Cardinality({j \in Unused : j < k}) = i - 1

\* The keys of K in ascending order.
InOrder(K) == [i \in 1..Cardinality(K) |->
                  CHOOSE k \in K : Cardinality({j \in K : j < k}) = i - 1]

\* The elements of the sequence s at the positions K.
Kept(s, K) == [i \in DOMAIN InOrder(K) |-> s[InOrder(K)[i]]]

Token(k, n, s) == [key |-> k, at |-> n, state |-> s]

\* Writes to the batch.
SaveTokens(b, toks) ==
    [b EXCEPT !.token = [k \in TokenKey |->
        IF \E i \in DOMAIN toks : toks[i].key = k
        THEN LET i == CHOOSE i \in DOMAIN toks : toks[i].key = k
             IN  [at |-> toks[i].at, state |-> toks[i].state]
        ELSE b.token[k]]]
SaveJob(b, t, s) ==
    [b EXCEPT !.job = Append(@, [token |-> t.key, at |-> t.at, state |-> s])]
Subscribe(b, t, events) ==
    [b EXCEPT !.sub = @ \o [i \in DOMAIN events |->
        [event |-> events[i], token |-> t.key, at |-> t.at, state |-> "active"]]]
SetSubs(b, S, s) ==
    [b EXCEPT !.sub = [i \in DOMAIN b.sub |-> IF i \in S THEN [b.sub[i] EXCEPT !.state = s]
                                                       ELSE b.sub[i]]]
SetJobs(b, S, s) ==
    [b EXCEPT !.job = [i \in DOMAIN b.job |-> IF i \in S THEN [b.job[i] EXCEPT !.state = s]
                                                       ELSE b.job[i]]]
ResolveIncidents(b, S) ==
    [b EXCEPT !.incident = [i \in DOMAIN b.incident |->
        IF i \in S THEN [b.incident[i] EXCEPT !.resolved = TRUE] ELSE b.incident[i]]]
WriteTokenIncident(b, t) ==
    [b EXCEPT !.token[t.key] = [at |-> t.at, state |-> "failed"],
              !.instance = "failed",
              !.incident = Append(@, [token |-> t.key, resolved |-> FALSE])]

-----------------------------------------------------------------------------
\* handleDefaultElementTransition: the token moves along the first flow, new
\* tokens along the others; at an end event it is completed.
Transition(n, k) ==
    IF Out[n] = <<>> THEN <<Token(k, n, "completed")>>
    ELSE [i \in DOMAIN Out[n] |->
            Token(IF i = 1 THEN k ELSE Fresh(i - 1), Out[n][i], "running")]

Complete(t) == <<Token(t.key, t.at, "completed")>>

\* Gateways complete the token and start a new one per flow.
Fork(t, targets) ==
    Complete(t) \o [i \in DOMAIN targets |-> Token(Fresh(i), targets[i], "running")]

\* createMessageCatchEvent and createTimerCatchEvent for boundary events,
\* jobs and catch events leave the token waiting.
Wait(t) == <<Token(t.key, t.at, "waiting")>>

Outcome(b, toks) == [b |-> b, tokens |-> toks, ends |-> FALSE]

\* createInternalTask: a job for a worker, or one that a handler in the engine
\* completes on the spot, unless the handler returns without doing so.
CreateJob(t) ==
    {Outcome(Subscribe(SaveJob(db, t, "active"), t, Boundary[t.at]), Wait(t))}
    \union {Outcome(SaveJob(db, t, "completed"), Transition(t.at, t.key)) : h \in {t.at} \intersect Handled}

\* handleIntermediateThrowLinkEvent looks for the catch event of the link among
\* all of them, and panics at the first that is not of a link.
LinkPanics(n) ==
    /\ Kind[n] = "linkThrow"
    /\ \E i \in DOMAIN CatchEvents : /\ Kind[CatchEvents[i]] # "linkCatch"
                                     /\ \A j \in 1..i : CatchEvents[j] # Out[n][1]
ThrowLink(t) ==
    {Outcome(db, <<Token(t.key, n, "running")>>) : n \in IF LinkPanics(t.at) THEN {} ELSE {Out[t.at][1]}}

CatchEvent(t) == {Outcome(Subscribe(db, t, <<t.at>>), Wait(t))}

HandleExclusiveGateway(t) ==
    {Outcome(db, <<Token(t.key, Out[t.at][i], "running")>>) : i \in DOMAIN Out[t.at]}

\* The flows whose condition holds, or the default flow; never none.
HandleInclusiveGateway(t) ==
    {Outcome(db, Fork(t, Kept(Out[t.at], I))) : I \in (SUBSET DOMAIN Out[t.at]) \ {{}}}

Incoming(n) == UNION {{<<m, i>> : i \in {i \in DOMAIN Out[m] : Out[m][i] = n}} : m \in Node}

\* Every completed token that ever stopped at the gateway counts as arrived.
HandleParallelGateway(t) ==
    LET arrived == {k \in TokenKey : At(k) = t.at /\ db.token[k].state = "completed"}
    IN  {Outcome(db, IF Cardinality(arrived) + 1 = Cardinality(Incoming(t.at))
                     THEN Fork(t, Out[t.at]) ELSE Complete(t))}

\* A new token waits at the gateway for any of the events that follow it.
HandleEventBasedGateway(t) ==
    LET g == Token(Fresh(1), t.at, "waiting")
    IN  {Outcome(Subscribe(db, g, Out[t.at]), Complete(t) \o <<g>>)}

\* handlePlainEndEvent: may the instance complete?
Drained(onJobCompletion) ==
    /\ ActiveMessages = {}
    /\ Cardinality(PendingJobs) <= IF onJobCompletion THEN 1 ELSE 0
    /\ Cardinality(ActiveTokens) <= 1

HandlePlainEndEvent(t) ==
    {[b |-> db, tokens |-> Complete(t), ends |-> Drained(FALSE)]}

\* handleProcessInstanceInnerCancel, one query and its writes after the other:
\* messages, timers, jobs, incidents, and then the tokens but for `omit'.
CancelledWork ==
    LET messages  == SetSubs(db, ActiveMessages, "terminated")
        timers    == SetSubs(db, ActiveSubs, "terminated")
        jobs      == SetJobs(timers, PendingJobs, "terminated")
        incidents == ResolveIncidents(jobs, DOMAIN db.incident)
    IN  <<db, messages, timers, jobs, incidents>>
CancelTokens(b, K) ==
    [b EXCEPT !.token = [k \in TokenKey |-> IF k \in K THEN [b.token[k] EXCEPT !.state = "canceled"]
                                                       ELSE b.token[k]]]
\* Mutant of InnerCancel: jobs are left alone.
InnerCancelKeepsJobs(omit) == CancelTokens(CancelledWork[3], ActiveTokens \ omit)

InnerCancel(omit) == CancelTokens(CancelledWork[5], ActiveTokens \ omit)

\* Its callers ignore the error when a query fails and save what they have.
CutShort ==
    {CancelledWork[i] : i \in 1..4}
    \union {CancelTokens(CancelledWork[5], {k \in ActiveTokens : k < m}) : m \in ActiveTokens}

HandleTerminateEndEvent(t) ==
    {[b |-> InnerCancel({t.key}), tokens |-> Complete(t), ends |-> TRUE]}

\* The outcomes of one step of a token; the flush has not happened yet.
ProcessFlowNode(t) ==
    LET kind == Kind[t.at]
    IN  CASE kind \in {"start", "linkCatch"}-> {Outcome(db, Transition(t.at, t.key))}
          [] kind \in JobKinds            -> CreateJob(t)
          [] kind = "linkThrow"           -> ThrowLink(t)
          [] kind \in CatchKinds          -> CatchEvent(t)
          [] kind = "exclusive"           -> HandleExclusiveGateway(t)
          [] kind = "inclusive"           -> HandleInclusiveGateway(t)
          [] kind = "parallel"            -> HandleParallelGateway(t)
          [] kind = "eventGateway"        -> HandleEventBasedGateway(t)
          [] kind = "end"                 -> HandlePlainEndEvent(t)
          [] kind = "terminate"           -> HandleTerminateEndEvent(t)
          [] OTHER -> {}   \* boundary events are no flow nodes: getExecutionTokenActivity fails

-----------------------------------------------------------------------------
\* What the calls do to the batch.  Each yields [b, tokens].
\* Mutant of CancelBoundarySubscriptions: they stay.
KeepBoundarySubscriptions(b, k) == b
CancelBoundarySubscriptions(b, k) == SetSubs(b, TokenSubs(k), "terminated")

\* The job of an interrupted activity; one that has failed stays as it is.
CancelJobs(b, k) ==
    SetJobs(b, {j \in DOMAIN db.job : db.job[j].token = k /\ db.job[j].state = "active"},
            "terminated")

ElementId(s) == IF Kind[db.sub[s].event] \in BoundaryKinds THEN db.sub[s].at
                                                            ELSE db.sub[s].event

\* The tokens that these three return are not part of the batch.
\* PublishKeepsSiblings is a mutant: the other events stay on.
PublishKeepsSiblings(g, s) ==
    [b |-> SetSubs(db, {s}, "completed"), tokens |-> Transition(ElementId(s), db.sub[s].token)]

PublishEventOnEventGateway(g, s) ==
    LET k == db.sub[s].token
    IN  IF \E i \in DOMAIN Out[g] : Out[g][i] = ElementId(s)
        THEN [b |-> SetSubs(SetSubs(db, {s}, "completed"), TokenSubs(k) \ {s}, "terminated"),
              tokens |-> Transition(ElementId(s), k)]
        ELSE [b |-> db, tokens |-> <<>>]

PublishOnListener(n, s) ==
    [b |-> SetSubs(db, {s}, "completed"), tokens |-> Transition(n, db.sub[s].token)]

Interrupt(l, s) ==
    LET k == db.sub[s].token
    IN  [b |-> CancelBoundarySubscriptions(CancelJobs(SetSubs(db, {s}, "completed"), k), k),
         tokens |-> Transition(l, k)]

\* A non-interrupting message event subscribes again and starts a token at the
\* boundary event, which is saved there ...
FireBoundaryMessage(l, s) ==
    LET k == db.sub[s].token
        n == Token(Fresh(1), l, "running")
    IN  IF l \in Interrupting THEN Interrupt(l, s)
        ELSE [b |-> SaveTokens(Subscribe(SetSubs(db, {s}, "completed"),
                                         Token(k, At(k), "waiting"), <<l>>), <<n>>),
              tokens |-> Transition(l, n.key)]

\* ... and a non-interrupting timer sets a new timer and moves the activity's
\* own token.
FireBoundaryTimer(l, s) ==
    LET k == db.sub[s].token
    IN  IF l \in Interrupting THEN Interrupt(l, s)
        ELSE [b |-> Subscribe(SetSubs(db, {s}, "completed"), Token(k, At(k), "waiting"), <<l>>),
              tokens |-> Transition(l, k)]

\* The first boundary event of the activity that is one of L; a set of at most
\* one.
FirstBoundary(n, L) ==
    {Boundary[n][i] : i \in {i \in DOMAIN Boundary[n] :
        Boundary[n][i] \in L /\ \A j \in 1..(i - 1) : Boundary[n][j] \notin L}}
MessageListener(n, s) ==
    FirstBoundary(n, {l \in Node : /\ Kind[l] = "boundaryMessage"
                                   /\ Message[l] = Message[db.sub[s].event]})
TimerListener(n) == FirstBoundary(n, {l \in Node : Kind[l] = "boundaryTimer"})

-----------------------------------------------------------------------------
\* Bound of the model: a batch that would make too many rows is not written.
Room    == Unused # {} /\ \A n \in Node : Len(Out[n]) <= Cardinality(Unused)
Fits(b) == Len(b.job) <= MaxRows /\ Len(b.sub) <= MaxRows /\ Len(b.incident) <= MaxRows

Running(toks) == Kept(toks, {i \in DOMAIN toks : toks[i].state = "running"})

Return(p) == proc' = [proc EXCEPT ![p] = Idle]

\* The call goes on to RunProcessInstance with these tokens; the ones that are
\* not running are skipped there.
ThenRun(p, toks) ==
    proc' = [proc EXCEPT ![p] = [Idle EXCEPT !.pc = "run", !.tokens = Running(toks)]]

\* Timers are registered before the flush: the manager knows the ones of a
\* batch that was lost.
LostTimers(b) ==
    LET timers == Kept(b.sub, {i \in DOMAIN b.sub :
                                  i > Len(db.sub) /\ Kind[b.sub[i].event] \in TimerKinds})
        lost   == [i \in DOMAIN timers |-> [timers[i] EXCEPT !.state = "lost"]]
    IN  IF StaleTimers THEN [db EXCEPT !.sub = @ \o lost] ELSE db

FlushFails(b) ==
    /\ failures < MaxFailures
    /\ failures' = failures + 1
    /\ db' = LostTimers(b)

\* EngineBatch.Flush at the end of a call, which then returns or goes on with
\* the tokens it has moved.
FlushAndReturn(p, b) ==
    \/ Fits(b) /\ db' = b /\ Return(p) /\ UNCHANGED failures
    \/ FlushFails(b) /\ Return(p)
FlushAndRun(p, b, toks) ==
    \/ Fits(b) /\ db' = b /\ ThenRun(p, toks) /\ UNCHANGED failures
    \/ FlushFails(b) /\ Return(p)

-----------------------------------------------------------------------------
\* CreateInstance.
CreateInstance(c) ==
    /\ up /\ proc[c].pc = "idle"
    /\ db.instance = "none"
    /\ Len(StartEvents) <= Cardinality(Unused)   \* bound of the model
    /\ LET toks == [i \in DOMAIN StartEvents |-> Token(Fresh(i), StartEvents[i], "running")]
       IN  FlushAndRun(c, SaveTokens([db EXCEPT !.instance = "ready"], toks), toks)
    /\ UNCHANGED <<lock, up, crashes>>

\* A call reads the row it is about, unlocked, and then waits for the lock.  A
\* row that is settled already makes it return with nothing changed.
Call(p, op, arg, n) ==
    /\ up /\ proc[p].pc = "idle"
    /\ proc' = [proc EXCEPT ![p] = [Idle EXCEPT !.pc = "lock", !.op = op, !.arg = arg, !.node = n,
                                             !.at = IF op = "modify" /\ arg # 0 THEN At(arg) ELSE "none"]]
    /\ UNCHANGED <<db, lock, up, failures, crashes>>

\* Bound of the model: a boundary message that subscribes again comes only while
\* there is room for the new subscription.
MayRepeat(s) ==
    Kind[db.sub[s].event] = "boundaryMessage" /\ db.sub[s].event \notin Interrupting
    => Len(db.sub) < MaxRows

ClientCalls(c) ==
    \/ \E op \in {"complete", "fail"} \intersect Calls, j \in DOMAIN db.job :
          db.job[j].state = "active" /\ Call(c, op, j, "none")
    \/ /\ "message" \in Calls
       /\ \E s \in ActiveMessages : MayRepeat(s) /\ Call(c, "message", s, "none")
    \/ /\ "resolve" \in Calls
       /\ \E i \in DOMAIN db.incident : ~db.incident[i].resolved /\ Call(c, "resolve", i, "none")
    \/ /\ "cancel" \in Calls
       /\ db.instance \in {"active", "failed"} /\ Call(c, "cancel", 0, "none")
    \/ /\ "modify" \in Calls /\ db.instance # "none" /\ ~Ended
       /\ \E k \in ActiveTokens \union {0}, n \in ModifyAt : Call(c, "modify", k, n)

\* The manager hands a timer over; its token is as it was when the timer was
\* made or polled.  A timer that was cancelled or lost may still come.
TimerFires ==
    \E s \in DOMAIN db.sub :
        /\ Kind[db.sub[s].event] \in TimerKinds
        /\ \/ db.sub[s].state = "active"
           \/ StaleTimers /\ db.sub[s].state \in {"terminated", "lost"}
        /\ \E n \in {db.sub[s].at, At(db.sub[s].token)} :
              n # "none" /\ Call(TimerLoop, "timer", s, n)

\* NewEngineBatch got the lock; Flush and Clear give it back.
Handles(p, op) == proc[p].pc = "lock" /\ proc[p].op = op /\ lock = NoOne /\ Room
Refuse(p)      == Return(p) /\ UNCHANGED <<db, failures>>

\* Mutant of JobCompleteByKey: the job is not read again under the lock.
CompleteStaleJob(c) ==
    /\ Handles(c, "complete")
    /\ LET j == proc[c].arg
           k == db.job[j].token
           toks == Transition(At(k), k)
       IN  \/ Ended /\ Refuse(c)
           \/ /\ ~Ended
              /\ FlushAndRun(c, SetJobs(SaveTokens(CancelBoundarySubscriptions(db, k), toks),
                                        {j}, "completed"), toks)
    /\ UNCHANGED <<lock, up, crashes>>

JobCompleteByKey(c) ==
    /\ Handles(c, "complete")
    /\ LET j == proc[c].arg
           k == db.job[j].token
           n == At(k)
           toks == Transition(n, k)
           b == SetJobs(SaveTokens(CancelBoundarySubscriptions(db, k), toks), {j}, "completed")
       IN  \/ /\ Ended \/ db.job[j].state # "active" \/ Kind[n] \notin JobKinds \/ n \in MayFail
              /\ Refuse(c)
           \/ /\ ~Ended /\ db.job[j].state = "active"
              /\ \/ Kind[n] \in JobKinds \ {"messageEnd"} /\ FlushAndRun(c, b, toks)
                 \/ /\ Kind[n] = "messageEnd"
                    /\ FlushAndReturn(c, IF Drained(TRUE) THEN [b EXCEPT !.instance = "completed"]
                                                          ELSE b)
    /\ UNCHANGED <<lock, up, crashes>>

\* Mutant of JobFailByKey: the lock is kept when the call is refused.
FailLeaksLock(c) ==
    /\ Handles(c, "fail")
    /\ LET j == proc[c].arg
           k == db.job[j].token
       IN  \/ /\ Ended \/ db.job[j].state # "active"
              /\ Refuse(c) /\ lock' = Nobody
           \/ /\ ~Ended /\ db.job[j].state = "active"
              /\ FlushAndReturn(c, WriteTokenIncident(SetJobs(db, {j}, "failed"),
                                                      Token(k, At(k), "failed")))
              /\ UNCHANGED lock
    /\ UNCHANGED <<up, crashes>>

JobFailByKey(c) ==
    /\ Handles(c, "fail")
    /\ LET j == proc[c].arg
           k == db.job[j].token
       IN  \/ (Ended \/ db.job[j].state # "active") /\ Refuse(c)
           \/ /\ ~Ended /\ db.job[j].state = "active"
              /\ FlushAndReturn(c, WriteTokenIncident(SetJobs(db, {j}, "failed"),
                                                      Token(k, At(k), "failed")))
    /\ UNCHANGED <<lock, up, crashes>>

\* A failed mapping marks the subscription and the instance as failed.
PublishMessage(c) ==
    /\ Handles(c, "message")
    /\ LET s == proc[c].arg
           n == At(db.sub[s].token)
           fails == FlushAndReturn(c, [SetSubs(db, {s}, "failed") EXCEPT !.instance = "failed"])
           goesOn(r) == FlushAndRun(c, r.b, r.tokens)
       IN  \/ /\ \/ Ended
                 \/ db.sub[s].state # "active"
                 \/ Kind[n] = "eventGateway" /\ db.sub[s].event \in MayFail
                 \/ Kind[n] \notin {"eventGateway", "task"} \union CatchKinds
              /\ Refuse(c)
           \/ /\ ~Ended /\ db.sub[s].state = "active"
              /\ \/ Kind[n] = "eventGateway" /\ goesOn(PublishEventOnEventGateway(n, s))
                 \/ Kind[n] \in CatchKinds /\ goesOn(PublishOnListener(n, s))
                 \/ Kind[n] \in CatchKinds /\ n \in MayFail /\ fails
                 \/ /\ Kind[n] = "task"
                    /\ \/ \E l \in MessageListener(n, s) : \/ goesOn(FireBoundaryMessage(l, s))
                                                           \/ l \in MayFail /\ fails
                       \/ MessageListener(n, s) = {} /\ fails
    /\ UNCHANGED <<lock, up, crashes>>

\* ProcessTimer.  Some ways out of TriggerTimer forget to unlock.
TriggerTimer ==
    /\ Handles(TimerLoop, "timer")
    /\ LET s == proc[TimerLoop].arg
           n == proc[TimerLoop].node
           k == db.sub[s].token
           goesOn(r) == FlushAndRun(TimerLoop, r.b, r.tokens)
       IN  \/ Ended /\ Refuse(TimerLoop) /\ UNCHANGED lock
           \/ /\ ~Ended
              /\ \/ db.sub[s].state # "active"
                 \/ Kind[n] \notin {"eventGateway", "task"} \union CatchKinds
              /\ lock' = Nobody
              /\ Refuse(TimerLoop)
           \/ /\ ~Ended /\ FlushFails(db)      \* GetTimer fails
              /\ lock' = Nobody
              /\ Return(TimerLoop)
           \/ /\ ~Ended /\ db.sub[s].state = "active"
              /\ \/ Kind[n] = "eventGateway" /\ goesOn(PublishEventOnEventGateway(n, s))
                 \/ Kind[n] \in CatchKinds /\ goesOn(PublishOnListener(n, s))
                 \/ /\ Kind[n] = "task"
                    /\ \/ \E l \in TimerListener(At(k)) : goesOn(FireBoundaryTimer(l, s))
                       \/ TimerListener(At(k)) = {} /\ Refuse(TimerLoop)
              /\ UNCHANGED lock
    /\ UNCHANGED <<up, crashes>>

\* The token of a job waits again for its job; any other is run again.
ResolveIncident(c) ==
    /\ Handles(c, "resolve")
    /\ LET i == proc[c].arg
           k == db.incident[i].token
           jobs == {j \in PendingJobs : db.job[j].token = k}
           t == Token(k, At(k), IF jobs = {} THEN "running" ELSE "waiting")
           first == {j \in jobs : \A h \in jobs : j <= h}
           b == SetJobs(SaveTokens(ResolveIncidents(db, {i}), <<t>>), first, "active")
       IN  \/ (Ended \/ db.incident[i].resolved) /\ Refuse(c)
           \/ /\ ~Ended /\ ~db.incident[i].resolved
              /\ FlushAndRun(c, [b EXCEPT !.instance = "active"], <<t>>)
    /\ UNCHANGED <<lock, up, crashes>>

CancelInstance(c) ==
    /\ Handles(c, "cancel")
    /\ \/ Ended /\ Refuse(c)
       \/ ~Ended /\ FlushAndReturn(c, [InnerCancel({}) EXCEPT !.instance = "terminated"])
       \/ /\ ~Ended /\ failures < MaxFailures /\ failures' = failures + 1
          /\ \E b \in CutShort : db' = [b EXCEPT !.instance = "terminated"]
          /\ Return(c)
    /\ UNCHANGED <<lock, up, crashes>>

\* terminateExecutionTokens for one element instance, or none, and
\* startExecutionTokens for one new token; the active tokens that
\* terminateExecutionTokens leaves are run as well.
ModifyInstance(c) ==
    /\ Handles(c, "modify")
    /\ LET hit  == {k \in ActiveTokens : k = proc[c].arg /\ At(k) = proc[c].at}
           jobs == {j \in PendingJobs : db.job[j].token \in hit}
           incs == {i \in DOMAIN db.incident : db.incident[i].token \in hit}
           b    == ResolveIncidents(SetJobs(SetSubs(db, UNION {TokenSubs(k) : k \in hit},
                                                    "terminated"),
                                            jobs, "terminated"), incs)
           gone == [i \in DOMAIN InOrder(hit) |-> Token(InOrder(hit)[i], proc[c].at, "canceled")]
           left == IF proc[c].arg = 0 THEN <<>> ELSE InOrder(ActiveTokens \ hit)
           new  == Token(Fresh(1), proc[c].node, "running")
       IN  \/ Ended /\ Refuse(c)
           \/ /\ ~Ended
              /\ FlushAndRun(c, SaveTokens(b, Append(gone, new)),
                       Append([i \in DOMAIN left |->
                                 Token(left[i], At(left[i]), db.token[left[i]].state)], new))
    /\ UNCHANGED <<lock, up, crashes>>

\* JobAssignByKey reads a row and writes it back, whatever happened meanwhile.
JobAssignReads(c) ==
    /\ up /\ proc[c].pc = "idle" /\ "assign" \in Calls
    /\ \E j \in DOMAIN db.job :
          proc' = [proc EXCEPT ![c] = [Idle EXCEPT !.pc = "assign", !.arg = j,
                                                   !.node = db.job[j].state]]
    /\ UNCHANGED <<db, lock, up, failures, crashes>>

JobAssignWrites(c) ==
    /\ proc[c].pc = "assign"
    /\ db' = SetJobs(db, {proc[c].arg}, proc[c].node)
    /\ Return(c)
    /\ UNCHANGED <<lock, up, failures, crashes>>

-----------------------------------------------------------------------------
\* Mutant of RunBegins: the instance is not read again under the lock.
RunBeginsUnchecked(p) ==
    /\ proc[p].pc = "run" /\ lock = NoOne
    /\ lock' = p
    /\ db' = [db EXCEPT !.instance = "active"]
    /\ proc' = [proc EXCEPT ![p].pc = "loop"]
    /\ UNCHANGED <<failures, up, crashes>>

\* RunProcessInstance, up to the main loop.
RunBegins(p) ==
    /\ proc[p].pc = "run" /\ lock = NoOne
    /\ \/ Ended /\ Refuse(p) /\ UNCHANGED lock
       \/ /\ ~Ended
          /\ lock' = p
          /\ db' = [db EXCEPT !.instance = "active"]
          /\ proc' = [proc EXCEPT ![p].pc = "loop"]
          /\ UNCHANGED failures
       \/ /\ ~Ended                          \* SaveProcessInstance fails
          /\ FlushFails(db) /\ Return(p) /\ UNCHANGED lock
    /\ UNCHANGED <<up, crashes>>

\* One turn of the main loop.  After an error the instance is saved as failed
\* whatever the node made of it, and the loop goes on with the other tokens;
\* after a failed flush also with the ones the step has moved.  A token whose
\* node fails, or that is at a boundary event, gets an incident instead.
RunStep(p) ==
    /\ proc[p].pc = "loop" /\ proc[p].tokens # <<>> /\ Room
    /\ LET t    == Head(proc[p].tokens)
           rest == Tail(proc[p].tokens)
           after(toks, e) == proc' = [proc EXCEPT ![p].tokens = toks, ![p].failed = e]
           errs == proc[p].failed
       IN  \/ \E r \in ProcessFlowNode(t) :
                LET state == IF errs THEN "failed" ELSE IF r.ends THEN "completed" ELSE "active"
                    b     == SaveTokens([r.b EXCEPT !.instance = state], r.tokens)
                    more  == IF state = "completed" THEN <<>> ELSE rest \o Running(r.tokens)
                IN  \/ Fits(b) /\ db' = b /\ after(more, errs) /\ UNCHANGED failures
                    \/ FlushFails(b) /\ after(more, TRUE)
                    \/ /\ failures < MaxFailures /\ failures' = failures + 1
                       /\ LET i == WriteTokenIncident(LostTimers(b), t) IN Fits(i) /\ db' = i
                       /\ after(more, TRUE)
           \/ /\ t.at \in MayFail \/ Kind[t.at] \in BoundaryKinds
              /\ \E d \in {db} \union {LostTimers(r.b) : r \in ProcessFlowNode(t)} :
                    \/ LET i == WriteTokenIncident(d, t) IN Fits(i) /\ db' = i /\ UNCHANGED failures
                    \/ failures < MaxFailures /\ failures' = failures + 1 /\ db' = d
              /\ after(rest, TRUE)
           \/ /\ Kind[t.at] = "terminate" /\ failures < MaxFailures /\ failures' = failures + 1
              /\ \E b \in CutShort :
                    db' = SaveTokens([b EXCEPT !.instance = IF errs THEN "failed" ELSE "completed"],
                                     Complete(t))
              /\ after(IF errs THEN rest ELSE <<>>, errs)
    /\ UNCHANGED <<lock, up, crashes>>

RunEnds(p) ==
    /\ proc[p].pc = "loop" /\ proc[p].tokens = <<>>
    /\ lock' = NoOne
    /\ Return(p)
    /\ UNCHANGED <<db, up, failures, crashes>>

\* The node stops at any point; what it had in memory is gone.
Dies ==
    /\ up' = FALSE
    /\ proc' = [p \in Proc |-> Idle]
    /\ lock' = NoOne
    /\ UNCHANGED <<db, failures>>
Crash == up /\ crashes < MaxCrashes /\ crashes' = crashes + 1 /\ Dies

\* It also dies when the main loop panics.
Panic(p) ==
    /\ proc[p].pc = "loop" /\ proc[p].tokens # <<>> /\ LinkPanics(Head(proc[p].tokens).at)
    /\ Dies /\ UNCHANGED crashes

\* Mutant of Start: it looks for waiting tokens instead of running ones.
StartWaiting ==
    /\ ~up /\ up' = TRUE
    /\ LET ks == InOrder({k \in TokenKey : db.token[k].state = "waiting"})
       IN  \/ ks = <<>> /\ UNCHANGED proc
           \/ /\ ks # <<>>
              /\ \E c \in Client :
                    ThenRun(c, [i \in DOMAIN ks |-> Token(ks[i], At(ks[i]), "waiting")])
    /\ UNCHANGED <<db, lock, failures, crashes>>

\* Engine.Start runs the tokens that are in state running.
Start ==
    /\ ~up /\ up' = TRUE
    /\ LET ks == InOrder({k \in TokenKey : db.token[k].state = "running"})
       IN  \/ ks = <<>> /\ UNCHANGED proc
           \/ /\ ks # <<>>
              /\ \E c \in Client :
                    ThenRun(c, [i \in DOMAIN ks |-> Token(ks[i], At(ks[i]), "running")])
    /\ UNCHANGED <<db, lock, failures, crashes>>

Next ==
    \/ \E c \in Client :
          \/ CreateInstance(c) \/ ClientCalls(c)
          \/ JobCompleteByKey(c) \/ JobFailByKey(c) \/ PublishMessage(c)
          \/ ResolveIncident(c) \/ CancelInstance(c) \/ ModifyInstance(c)
          \/ JobAssignReads(c) \/ JobAssignWrites(c)
    \/ TimerFires \/ TriggerTimer
    \/ \E p \in Proc : RunBegins(p) \/ RunStep(p) \/ RunEnds(p) \/ Panic(p)
    \/ Crash \/ Start

Spec == Init /\ [][Next]_engineVars

\* Every goroutine goes on, and Go's mutex starves no waiter: a goroutine that
\* waits for the lock gets it if the lock is free again and again.  Clients owe
\* no calls.
Fairness ==
    /\ \A p \in Proc : /\ SF_engineVars(RunBegins(p))
                       /\ WF_engineVars(RunStep(p)) /\ WF_engineVars(RunEnds(p))
                       /\ WF_engineVars(Panic(p))
    /\ \A c \in Client :
          /\ SF_engineVars(\/ JobCompleteByKey(c) \/ JobFailByKey(c) \/ PublishMessage(c)
                           \/ ResolveIncident(c) \/ CancelInstance(c) \/ ModifyInstance(c))
          /\ WF_engineVars(JobAssignWrites(c))
    /\ SF_engineVars(TriggerTimer)
    /\ WF_engineVars(Start)
FairSpec == Spec /\ Fairness

-----------------------------------------------------------------------------
\* The rows have the states that the code gives them, and a goroutine is in the
\* main loop of RunProcessInstance exactly while it holds the instance.
TypeOK ==
    /\ db.instance \in {"none", "ready", "active", "failed", "completed", "terminated"}
    /\ db.token \in [TokenKey -> [at : Node \union {"none"},
                                  state : {"none", "running", "waiting", "completed",
                                           "canceled", "failed"}]]
    /\ \A j \in DOMAIN db.job : db.job[j] \in
          [token : TokenKey, at : Node, state : {"active", "completed", "failed", "terminated"}]
    /\ \A s \in DOMAIN db.sub : db.sub[s] \in
          [event : Node, token : TokenKey, at : Node,
           state : {"active", "completed", "failed", "terminated", "lost"}]
    /\ \A i \in DOMAIN db.incident : db.incident[i] \in [token : TokenKey, resolved : BOOLEAN]
    /\ lock \in Proc \union {NoOne, Nobody}
    /\ \A p \in Proc : proc[p].pc \in {"idle", "lock", "run", "loop", "assign"}
    /\ \A p \in Proc : proc[p].pc = "loop" <=> lock = p
    /\ up \in BOOLEAN /\ failures \in 0..MaxFailures /\ crashes \in 0..MaxCrashes

\* A process instance that has completed or was terminated stays so: no call
\* that waited for its lock, and no run of its tokens, brings it back.
EndedIsFinal == [][Ended => db'.instance = db.instance]_engineVars

\* An ended instance has left nothing behind that could still move: no active
\* token, no pending job, no message subscription and no timer.
EndedHasNoWork == Ended => ActiveTokens = {} /\ PendingJobs = {} /\ ActiveSubs = {}

Carries(p, k) == \E i \in DOMAIN proc[p].tokens : proc[p].tokens[i].key = k
Unresolved(k) == \E i \in DOMAIN db.incident :
                    db.incident[i].token = k /\ ~db.incident[i].resolved

\* Every active token has something that moves it on: a goroutine that carries
\* it, a job, subscription or timer it waits for, an incident to resolve, or,
\* while the node is down, the restart that runs it.  And while no call is under
\* way, an instance that has not ended has such a token: joins and end events
\* lose no instance.
NothingIsStranded ==
    /\ \A k \in ActiveTokens :
          \/ \E p \in Proc : Carries(p, k)
          \/ /\ db.token[k].state = "waiting"
             /\ TokenSubs(k) # {} \/ \E j \in PendingJobs : db.job[j].token = k
          \/ db.token[k].state = "failed" /\ Unresolved(k)
          \/ db.token[k].state = "running" /\ ~up
    /\ (db.instance \in {"active", "failed"} /\ \A p \in Proc : proc[p].pc = "idle")
       => ActiveTokens # {}

\* What was completed, cancelled or terminated is not revived, whichever calls
\* race for it: neither a token, which does not move any more, nor a job.
SettledRowsStay ==
    [][/\ \A k \in TokenKey : db.token[k].state \in {"completed", "canceled"}
                              => db'.token[k] = db.token[k]
       /\ \A j \in DOMAIN db.job : db.job[j].state \in {"completed", "terminated"}
                                   => db'.job[j].state = db.job[j].state]_engineVars

\* A pending job belongs to a token that is still at the job's element, waiting
\* for it, or failed with it; an active message subscription or timer belongs to
\* a token that is still at the element it was made for: an activity that is
\* left takes them along.
WaitsMatchTokens ==
    /\ \A j \in PendingJobs :
          LET t == db.token[db.job[j].token]
          IN  /\ t.at = db.job[j].at
              /\ t.state = IF db.job[j].state = "active" THEN "waiting" ELSE "failed"
    /\ \A s \in ActiveSubs :
          LET t == db.token[db.sub[s].token]
          IN  t.at = db.sub[s].at /\ t.state \in {"waiting", "failed"}

\* Of the events behind an event-based gateway at most one happens, and when it
\* has, the others are off.
ExactlyOnePath ==
    \A r, s \in DOMAIN db.sub :
        /\ r # s /\ db.sub[r].token = db.sub[s].token /\ db.sub[r].at = db.sub[s].at
        /\ Kind[db.sub[r].at] = "eventGateway" /\ db.sub[r].state = "completed"
        => db.sub[s].state \notin {"completed", "active"}

\* A timer that comes after it was cancelled changes nothing; above all, the
\* instance is not left locked.  It does not hold: TriggerTimer returns without
\* clearing its batch.
StaleTimersHaveNoEffect ==
    [][/\ proc[TimerLoop].pc = "lock" /\ proc'[TimerLoop].pc = "idle" /\ up'
       /\ db.sub[proc[TimerLoop].arg].state # "active"
       => lock' = lock]_engineVars

\* Every call returns: nobody waits forever for the lock of the instance.
EveryCallReturns == \A p \in Proc : proc[p].pc # "idle" ~> proc[p].pc = "idle"

\* A token that is to be run is run, by the call that moved it or, after a
\* crash, by the restarted engine.
RunningTokensResume ==
    \A k \in TokenKey : db.token[k].state = "running" ~> db.token[k].state # "running"
=============================================================================
