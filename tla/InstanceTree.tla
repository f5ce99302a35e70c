---------------------------- MODULE InstanceTree ----------------------------
(***************************************************************************)
(* A tree of process instances (pkg/bpmn/sub_process.go): a root process   *)
(* whose activity is a subprocess, a call activity or a multi-instance     *)
(* activity starts child instances, and each of them has its own rows, its *)
(* own lock and its own goroutine.  A child that completes continues its   *)
(* parent in the same batch, for which it holds both locks; a call that    *)
(* cancels a parent locks every child below it.  The first goes up the     *)
(* tree and only tries, six times, the second goes down and waits.         *)
(*                                                                         *)
(* All rows of an instance are written by the holder of its lock, so what  *)
(* a batch takes from them can be computed when it is flushed.  A call     *)
(* that locks a single instance is one step; a call that is still waiting  *)
(* for its first lock holds nothing and has no state of its own.           *)
(*                                                                         *)
(* Variables and mappings are left out: a mapping that fails is one of the *)
(* ways a token may fail.  ModifyInstance and crashes are those of         *)
(* ProcessEngine.                                                          *)
(***************************************************************************)
EXTENDS Naturals, Sequences, FiniteSets

CONSTANTS
    Shapes,       \* the activities of the root process that are explored
    MaxFailures   \* bound of the model: tokens that fail, for whatever reason

(***************************************************************************)
(* The root process: its start event forks to the activity "act", with an  *)
(* interrupting boundary message, and to the task "other", which leads to  *)
(* a terminate end event.  A called process or subprocess has one task.    *)
(* A shape tells what "act" does: its inner activity, whether it is        *)
(* multi-instance, then over how many items, and whether in sequence; it   *)
(* always has children, a plain task is that of ProcessEngine.             *)
(***************************************************************************)
ASSUME TreeAssumption ==
    /\ Shapes \subseteq [inner : {"task", "call", "sub"}, multi : BOOLEAN,
                         sequential : BOOLEAN, items : Nat]
    /\ \A s \in Shapes : s.multi \/ s.inner # "task"
    /\ MaxFailures \in Nat

Out == [start |-> <<"act", "other">>, act |-> <<"end">>, message |-> <<"end">>,
        other |-> <<"terminate">>, begin |-> <<"task">>, task |-> <<"end">>]

VARIABLES
    shape,     \* the definition of the root process
    inst,      \* rows of process_instance: [kind, token, target, state, started]
    tok,       \* rows of execution_token: [inst, at, eik, state]
    job,       \* rows of job: [token, state]
    sub,       \* tokens with an active boundary subscription
    incident,  \* tokens with an unresolved incident
    lock,      \* per instance, the base instance of the goroutine that holds it, or 0
    go,        \* goroutines of RunProcessInstance waiting for their lock: [inst, toks]
    held,      \* per instance, the goroutine that holds it as its base
    failures

treeVars == <<shape, inst, tok, job, sub, incident, lock, go, held, failures>>
rows     == <<inst, tok, job, sub, incident>>

NoCall  == [op |-> "none", pc |-> "none", toks |-> <<>>, todo |-> <<>>, dead |-> {},
            token |-> 0, failed |-> FALSE]
EndedStates == {"completed", "terminated"}
Live(t) == tok[t].state \in {"running", "waiting", "failed"}

Instance(kind, t, eik) ==
    [kind |-> kind, token |-> t, target |-> eik, state |-> "ready", started |-> 0]
NewToken(i, at) == [inst |-> i, at |-> at, eik |-> 1, state |-> "running"]

Init ==
    /\ shape \in Shapes
    /\ inst = <<Instance("default", 0, 0)>>
    /\ tok = <<NewToken(1, "start")>>
    /\ job = <<>> /\ sub = {} /\ incident = {}
    /\ lock = <<0>>
    /\ go = {[inst |-> 1, toks |-> <<1>>]}
    /\ held = <<NoCall>>
    /\ failures = 0

-----------------------------------------------------------------------------
\* Queries.
TokensOf(i)   == {t \in DOMAIN tok : tok[t].inst = i}
ActiveTokens(i) == {t \in TokensOf(i) : Live(t)}
PendingJobs(i) == {j \in DOMAIN job : /\ tok[job[j].token].inst = i
                                     /\ job[j].state \in {"active", "failed"}}
InOrder(K)    == [n \in 1..Cardinality(K) |-> CHOOSE k \in K : Cardinality({j \in K : j < k}) = n - 1]
Children(T)   == InOrder({c \in DOMAIN inst : inst[c].token \in T})
ParentOf(c)   == tok[inst[c].token].inst
Multi(i)      == inst[i].kind = "multi"

-----------------------------------------------------------------------------
(***************************************************************************)
(* The rows as a batch leaves them: r.inst, r.tok, r.job, r.sub and r.inc, *)
(* and r.go for the goroutines its post-flush actions start.               *)
(***************************************************************************)
Rows == [inst |-> inst, tok |-> tok, job |-> job, sub |-> sub, inc |-> incident, go |-> {}]

SetState(r, i, s) == [r EXCEPT !.inst[i].state = s]
Moved(row, at, s) == [row EXCEPT !.at = at, !.eik = @ + 1, !.state = s]
Move(r, t, at, s) == [r EXCEPT !.tok[t] = Moved(r.tok[t], at, s)]

\* handleDefaultElementTransition: the first flow takes the token, the others
\* get new ones.  The tokens that run next are those in state running.
handleDefaultElementTransition(r, t) ==
    LET flows == Out[r.tok[t].at]
        moved == Move(r, t, flows[1], "running")
    IN  [moved EXCEPT !.tok = @ \o [k \in 1..(Len(flows) - 1) |->
                                      NewToken(r.tok[t].inst, flows[k + 1])]]

\* What could go wrong: every item is taken for the last one.
EveryItemIsTheLast(r, t) == Move(r, t, "act", "running")

\* handleMultiInstanceElementTransition: one item is done.  In sequence the token
\* runs again; in parallel only the token of the last item does.
handleMultiInstanceElementTransition(r, t) ==
    IF \/ shape.sequential
       \/ Cardinality({u \in DOMAIN r.tok : /\ r.tok[u].inst = r.tok[t].inst
                                           /\ r.tok[u].state = "completed"}) = shape.items - 1
    THEN Move(r, t, "act", "running")
    ELSE [r EXCEPT !.tok[t].state = "completed"]

handleElementTransition(r, t) ==
    IF r.inst[r.tok[t].inst].kind = "multi" THEN handleMultiInstanceElementTransition(r, t)
                                            ELSE handleDefaultElementTransition(r, t)

\* createInstanceWithStartingElements: a child of token t with n tokens at node
\* "at"; a post-flush action runs it.
createInstanceWithStartingElements(r, t, kind, at, n) ==
    LET c    == Len(r.inst) + 1
        keys == [k \in 1..n |-> Len(r.tok) + k]
    IN  [r EXCEPT !.inst = Append(@, Instance(kind, t, r.tok[t].eik)),
                  !.tok  = @ \o [k \in 1..n |-> NewToken(c, at)],
                  !.go   = @ \union {[inst |-> c, toks |-> keys]}]

createCallActivity(r, t) == createInstanceWithStartingElements(r, t, "call", "begin", 1)
createSubProcess(r, t)   == createInstanceWithStartingElements(r, t, "sub", "begin", 1)
createTask(r, t)         == [r EXCEPT !.job = Append(@, [token |-> t, state |-> "active"])]

\* The activity itself, in the instance of token t: the token waits for it.
StartActivity(r, t, inner) ==
    LET s == CASE inner = "task" -> createTask(r, t)
               [] inner = "call" -> createCallActivity(r, t)
               [] inner = "sub"  -> createSubProcess(r, t)
    IN  [s EXCEPT !.tok[t].state = "waiting"]

createBoundaryEventSubscriptions(r, t) == [r EXCEPT !.sub = @ \union {t}]
cancelBoundarySubscriptions(r, t)      == [r EXCEPT !.sub = @ \ {t}]

handleActivity(r, t) ==
    IF r.tok[t].at = "act"
    THEN createBoundaryEventSubscriptions(StartActivity(r, t, shape.inner), t)
    ELSE StartActivity(r, t, "task")

\* An instance whose tokens all stand at the activity, one for each item or one for
\* all of them; an empty collection needs none.
StartMultiInstance(r, t, n) ==
    LET s == createInstanceWithStartingElements(r, t, "multi", "act", n)
    IN  createBoundaryEventSubscriptions([s EXCEPT !.tok[t].state = "waiting"], t)

startParallelMultiInstance(r, t) ==
    IF shape.items = 0 THEN handleElementTransition(r, t)
                       ELSE StartMultiInstance(r, t, shape.items)

startSequentialMultiInstance(r, t) ==
    IF shape.items = 0 THEN handleElementTransition(r, t) ELSE StartMultiInstance(r, t, 1)

\* handleMultiInstanceActivity: below the multi-instance, the next item is the one
\* after those already started; when there is none, the instance is complete.
handleMultiInstanceActivity(r, t) ==
    LET i == r.tok[t].inst
    IN  IF r.inst[i].kind # "multi"
        THEN IF shape.sequential THEN startSequentialMultiInstance(r, t)
                                 ELSE startParallelMultiInstance(r, t)
        ELSE IF r.inst[i].started = shape.items
             THEN SetState([r EXCEPT !.tok[t].state = "completed"], i, "completed")
             ELSE [StartActivity(r, t, shape.inner) EXCEPT !.inst[i].started = @ + 1]

\* handlePlainEndEvent: the instance completes unless something else is left in it.
handlePlainEndEvent(r, t) ==
    LET i == r.tok[t].inst
        done == [r EXCEPT !.tok[t].state = "completed"]
    IN  IF \/ sub \intersect TokensOf(i) # {}
           \/ PendingJobs(i) # {}
           \/ Cardinality(ActiveTokens(i)) > 1
        THEN done ELSE SetState(done, i, "completed")

\* processFlowNode, for every node but the terminate end event.
processFlowNode(r, t) ==
    LET at == r.tok[t].at
    IN  CASE at \in {"start", "begin"} -> handleElementTransition(r, t)
          [] at = "act" /\ shape.multi -> handleMultiInstanceActivity(r, t)
          [] at \in {"task", "other"} \/ (at = "act" /\ ~shape.multi) -> handleActivity(r, t)
          [] at = "end" -> handlePlainEndEvent(r, t)

\* What could go wrong: cancelling leaves the jobs of the instance to their workers.
CancelKeepsJobs(r, D, omit) ==
    [r EXCEPT !.inst = [i \in DOMAIN @ |-> IF i \in D THEN [@[i] EXCEPT !.state = "terminated"] ELSE @[i]],
              !.tok  = [t \in DOMAIN @ |-> IF @[t].inst \in D /\ t # omit /\ Live(t)
                                           THEN [@[t] EXCEPT !.state = "canceled"] ELSE @[t]],
              !.sub  = {t \in @ : tok[t].inst \notin D},
              !.inc  = {t \in @ : tok[t].inst \notin D}]

\* handleProcessInstanceInnerCancel and cancelInstance, for all the instances of D.
cancelInstance(r, D, omit) ==
    [r EXCEPT !.inst = [i \in DOMAIN @ |-> IF i \in D THEN [@[i] EXCEPT !.state = "terminated"] ELSE @[i]],
              !.tok  = [t \in DOMAIN @ |-> IF @[t].inst \in D /\ t # omit /\ Live(t)
                                           THEN [@[t] EXCEPT !.state = "canceled"] ELSE @[t]],
              !.job  = [j \in DOMAIN @ |-> IF tok[@[j].token].inst \in D /\ @[j].state \in {"active", "failed"}
                                           THEN [@[j] EXCEPT !.state = "terminated"] ELSE @[j]],
              !.sub  = {t \in @ : tok[t].inst \notin D},
              !.inc  = {t \in @ : tok[t].inst \notin D}]

\* WriteTokenIncident: what the batch held is dropped.
WriteTokenIncident(t) ==
    LET i == tok[t].inst
    IN  [SetState(Rows, i, "failed") EXCEPT !.tok[t].state = "failed", !.inc = @ \union {t}]

-----------------------------------------------------------------------------
\* The flush writes the rows, unlocks what the batch has locked (U) and starts
\* the goroutines of the post-flush actions.
Flush(r, U) ==
    /\ inst' = r.inst /\ tok' = r.tok /\ job' = r.job /\ sub' = r.sub /\ incident' = r.inc
    /\ lock' = [i \in DOMAIN r.inst |-> IF i \notin DOMAIN lock \/ i \in U THEN 0 ELSE lock[i]]
    /\ go' = go \union r.go

Held(h) == held' = [i \in DOMAIN inst' |-> IF i \in DOMAIN h THEN h[i] ELSE NoCall]
Busy(i, c) == [held EXCEPT ![i] = c]

\* What a step on token t leaves running in its instance: t itself and new tokens.
RunningIn(r, t) ==
    InOrder({u \in DOMAIN r.tok : /\ r.tok[u].state = "running"
                                  /\ r.tok[u].inst = r.tok[t].inst
                                  /\ u = t \/ u > Len(tok)})
Run(i, toks) == {[inst |-> i, toks |-> toks]}

(***************************************************************************)
(* RunProcessInstance: wait for the lock, leave an ended instance alone,   *)
(* then take one token after the other.                                    *)
(***************************************************************************)
RunBegins ==
    \E g \in go :
        LET i == g.inst
        IN  /\ lock[i] = 0
            /\ go' = go \ {g}
            /\ IF inst[i].state \in EndedStates
               THEN UNCHANGED <<inst, lock, held>>
               ELSE /\ inst' = [inst EXCEPT ![i].state = "active"]
                    /\ lock' = [lock EXCEPT ![i] = i]
                    /\ held' = Busy(i, [NoCall EXCEPT !.op = "run", !.pc = "loop", !.toks = g.toks])
            /\ UNCHANGED <<shape, tok, job, sub, incident, failures>>

RunEnds(i) ==
    /\ held[i].pc = "loop" /\ held[i].toks = <<>>
    /\ lock' = [lock EXCEPT ![i] = 0]
    /\ held' = Busy(i, NoCall)
    /\ UNCHANGED <<shape, rows, go, failures>>

\* One round of the main loop.  A child that has completed keeps its batch until
\* the parent is continued; after a failed token the instance is saved as failed.
ProcessToken(i) ==
    /\ held[i].pc = "loop" /\ held[i].toks # <<>>
    /\ LET t == Head(held[i].toks)
           r == processFlowNode(Rows, t)
           next == Tail(held[i].toks) \o RunningIn(r, t)
           completed == r.inst[i].state = "completed" /\ ~held[i].failed
       IN  /\ tok[t].at # "terminate"
           /\ IF completed /\ inst[i].kind # "default"
              THEN /\ held' = Busy(i, [held[i] EXCEPT !.pc = "parent"])
                   /\ UNCHANGED <<rows, lock, go>>
              ELSE /\ Flush([r EXCEPT !.inst[i].state =
                                IF held[i].failed THEN "failed" ELSE @], {})
                   /\ Held(Busy(i, [held[i] EXCEPT !.toks =
                                IF completed THEN <<>> ELSE next]))
    /\ UNCHANGED <<shape, failures>>

\* The node fails (no definition to call, an expression, a mapping): the token
\* gets an incident and the loop goes on.
TokenFails(i) ==
    /\ held[i].pc = "loop" /\ held[i].toks # <<>>
    /\ failures < MaxFailures
    /\ tok[Head(held[i].toks)].at \in {"act", "task"}
    /\ Flush(WriteTokenIncident(Head(held[i].toks)), {})
    /\ Held(Busy(i, [held[i] EXCEPT !.toks = Tail(@), !.failed = TRUE]))
    /\ failures' = failures + 1
    /\ UNCHANGED shape

\* handleTerminateEndEvent: first the children of every other token are locked.
TerminateEndEvent(i) ==
    /\ held[i].pc = "loop" /\ held[i].toks # <<>>
    /\ LET t == Head(held[i].toks)
       IN  /\ tok[t].at = "terminate"
           /\ held' = Busy(i, [held[i] EXCEPT !.pc = "cancel", !.token = t,
                                              !.todo = Children(ActiveTokens(i))])
    /\ UNCHANGED <<shape, rows, lock, go, failures>>

-----------------------------------------------------------------------------
(***************************************************************************)
(* handleParentProcessContinuation: the batch of a completing child takes  *)
(* the parent's lock and moves the parent's token, if that still waits for *)
(* this child.                                                             *)
(***************************************************************************)
Completing(i) == processFlowNode(Rows, Head(held[i].toks))

Continues(i) ==
    LET t == inst[i].token
        p == ParentOf(i)
    IN  /\ inst[p].state \notin EndedStates
        /\ tok[t].eik = inst[i].target

\* Its boundary events go, it moves on, and the parent runs again after the flush.
MoveParentToken(r, i) ==
    LET t == inst[i].token
        s == handleElementTransition(cancelBoundarySubscriptions(r, t), t)
    IN  [s EXCEPT !.go = @ \union Run(ParentOf(i), RunningIn(s, t))]

\* The three kinds of children differ in the variables they hand over.
handleParentProcessContinuationForSubProcess(r, i) ==
    IF Continues(i) THEN MoveParentToken(r, i) ELSE r

handleParentProcessContinuationForCallActivity(r, i) ==
    IF Continues(i) THEN MoveParentToken(r, i) ELSE r

handleParentProcessContinuationForMultiInstance(r, i) ==
    IF Continues(i) THEN MoveParentToken(r, i) ELSE r

handleParentProcessContinuation(r, i) ==
    CASE inst[i].kind = "sub"   -> handleParentProcessContinuationForSubProcess(r, i)
      [] inst[i].kind = "call"  -> handleParentProcessContinuationForCallActivity(r, i)
      [] inst[i].kind = "multi" -> handleParentProcessContinuationForMultiInstance(r, i)

\* AddParentLockedInstance finds the parent free within six attempts.
ContinueParent(i) ==
    /\ held[i].pc = "parent"
    /\ lock[ParentOf(i)] = 0
    /\ Flush(handleParentProcessContinuation(Completing(i), i), {})
    /\ Held(Busy(i, [held[i] EXCEPT !.pc = "loop", !.toks = <<>>]))
    /\ UNCHANGED <<shape, failures>>

\* What could go wrong: a continuation that waits for its parent like any other call.
WaitsForParent(i) == FALSE /\ UNCHANGED treeVars

\* It does not: the child is left with an incident, its lock is given back.
ParentIsBusy(i) ==
    /\ held[i].pc = "parent"
    /\ lock[ParentOf(i)] # 0
    /\ Flush(WriteTokenIncident(Head(held[i].toks)), {})
    /\ Held(Busy(i, [held[i] EXCEPT !.pc = "loop", !.toks = <<>>]))
    /\ UNCHANGED <<shape, failures>>

\* The continuation itself fails, with both locks held.
ContinuationFails(i) ==
    /\ held[i].pc = "parent"
    /\ lock[ParentOf(i)] = 0
    /\ Continues(i)
    /\ failures < MaxFailures
    /\ Flush(WriteTokenIncident(Head(held[i].toks)), {})
    /\ Held(Busy(i, [held[i] EXCEPT !.pc = "loop", !.toks = <<>>]))
    /\ failures' = failures + 1
    /\ UNCHANGED shape

-----------------------------------------------------------------------------
(***************************************************************************)
(* Calls that cancel: CancelInstanceByKey on the root, the boundary        *)
(* message that interrupts the activity, and the terminate end event above.*)
(***************************************************************************)
CancelInstanceByKey ==
    /\ lock[1] = 0
    /\ inst[1].state \in {"active", "failed"}
    /\ lock' = [lock EXCEPT ![1] = 1]
    /\ held' = Busy(1, [NoCall EXCEPT !.op = "cancel", !.pc = "cancel", !.dead = {1},
                                      !.todo = Children(ActiveTokens(1))])
    /\ UNCHANGED <<shape, rows, go, failures>>

HandleBoundaryMessage(t) ==
    LET i == tok[t].inst
    IN  /\ t \in sub
        /\ lock[i] = 0
        /\ inst[i].state \notin EndedStates
        /\ lock' = [lock EXCEPT ![i] = i]
        /\ held' = Busy(i, [NoCall EXCEPT !.op = "boundary", !.pc = "cancel", !.token = t,
                                          !.todo = Children({t})])
        /\ UNCHANGED <<shape, rows, go, failures>>

\* What could go wrong: a child whose goroutine has not begun yet is skipped.
CancelSkipsReady(i) ==
    /\ held[i].pc = "cancel" /\ held[i].todo # <<>>
    /\ LET c == Head(held[i].todo)
           rest == Tail(held[i].todo)
       IN  /\ lock[c] = 0
           /\ lock' = [lock EXCEPT ![c] = i]
           /\ held' = Busy(i, IF inst[c].state \in EndedStates \union {"ready"}
                              THEN [held[i] EXCEPT !.todo = rest]
                              ELSE [held[i] EXCEPT !.dead = @ \union {c},
                                                   !.todo = Children(ActiveTokens(c)) \o rest])
    /\ UNCHANGED <<shape, rows, go, failures>>

\* cancelSubProcessInstance: AddLockedInstance waits for the child's lock; an ended
\* child stays locked but is left alone.
cancelSubProcessInstance(i) ==
    /\ held[i].pc = "cancel" /\ held[i].todo # <<>>
    /\ LET c == Head(held[i].todo)
           rest == Tail(held[i].todo)
       IN  /\ lock[c] = 0
           /\ lock' = [lock EXCEPT ![c] = i]
           /\ held' = Busy(i, IF inst[c].state \in EndedStates
                              THEN [held[i] EXCEPT !.todo = rest]
                              ELSE [held[i] EXCEPT !.dead = @ \union {c},
                                                   !.todo = Children(ActiveTokens(c)) \o rest])
    /\ UNCHANGED <<shape, rows, go, failures>>

Locked(i) == {c \in DOMAIN lock : lock[c] = i}

\* The jobs of the token that a boundary event takes away.
CancelTokenJobs(r, t) ==
    [r EXCEPT !.job = [j \in DOMAIN @ |-> IF @[j].token = t /\ @[j].state = "active"
                                          THEN [@[j] EXCEPT !.state = "terminated"] ELSE @[j]]]

\* Everything below is locked: the batch is flushed.
CancelFlushes(i) ==
    /\ held[i].pc = "cancel" /\ held[i].todo = <<>>
    /\ LET t == held[i].token
           r == cancelInstance(Rows, held[i].dead, 0)
           b == CancelTokenJobs(cancelBoundarySubscriptions(r, t), t)
           moved == Move(b, t, Out["message"][1], "running")
           e == SetState(cancelInstance(Rows, held[i].dead \union {i}, t), i,
                         IF held[i].failed THEN "failed" ELSE "completed")
       IN  CASE held[i].op = "cancel" ->
                  Flush(r, Locked(i)) /\ Held(Busy(i, NoCall))
             [] held[i].op = "boundary" ->
                  /\ Flush([moved EXCEPT !.go = Run(i, <<t>>)], Locked(i))
                  /\ Held(Busy(i, NoCall))
             [] held[i].op = "run" ->
                  /\ Flush([e EXCEPT !.tok[t].state = "completed"], Locked(i) \ {i})
                  /\ Held(Busy(i, [held[i] EXCEPT !.pc = "loop", !.toks =
                                IF held[i].failed THEN Tail(@) ELSE <<>>]))
    /\ UNCHANGED <<shape, failures>>

-----------------------------------------------------------------------------
\* Calls that lock one instance: they are done in one step and then run the tokens.
JobCompleteByKey(j) ==
    LET t == job[j].token
        i == tok[t].inst
        r == handleElementTransition(
                 cancelBoundarySubscriptions([Rows EXCEPT !.job[j].state = "completed"], t), t)
    IN  /\ job[j].state = "active"
        /\ lock[i] = 0 /\ inst[i].state \notin EndedStates
        /\ Flush([r EXCEPT !.go = Run(i, RunningIn(r, t))], {})
        /\ Held(held)
        /\ UNCHANGED <<shape, failures>>

JobFailByKey(j) ==
    LET t == job[j].token
        i == tok[t].inst
        r == [WriteTokenIncident(t) EXCEPT !.job[j].state = "failed"]
    IN  /\ job[j].state = "active" /\ failures < MaxFailures
        /\ lock[i] = 0 /\ inst[i].state \notin EndedStates
        /\ Flush(r, {}) /\ Held(held)
        /\ failures' = failures + 1
        /\ UNCHANGED shape

\* ResolveIncident: a pending job of the token is active again and waited for;
\* otherwise the token runs again.
ResolveIncident(t) ==
    LET i  == tok[t].inst
        js == {j \in PendingJobs(i) : job[j].token = t}
        r  == SetState([Rows EXCEPT
                  !.inc = @ \ {t},
                  !.tok[t].state = IF js = {} THEN "running" ELSE "waiting",
                  !.job = [j \in DOMAIN @ |-> IF j \in js THEN [@[j] EXCEPT !.state = "active"] ELSE @[j]]],
                  i, "active")
    IN  /\ t \in incident
        /\ lock[i] = 0 /\ inst[i].state \notin EndedStates
        /\ Flush([r EXCEPT !.go = Run(i, IF js = {} THEN <<t>> ELSE <<>>)], {})
        /\ Held(held)
        /\ UNCHANGED <<shape, failures>>

-----------------------------------------------------------------------------
Step(i) ==
    \/ RunEnds(i) \/ ProcessToken(i) \/ TokenFails(i) \/ TerminateEndEvent(i)
    \/ ContinueParent(i) \/ ParentIsBusy(i) \/ ContinuationFails(i)
    \/ cancelSubProcessInstance(i) \/ CancelFlushes(i)

Next ==
    \/ RunBegins
    \/ \E i \in DOMAIN inst : Step(i)
    \/ CancelInstanceByKey
    \/ \E t \in sub : HandleBoundaryMessage(t)
    \/ \E j \in DOMAIN job : JobCompleteByKey(j) \/ JobFailByKey(j)
    \/ \E t \in incident : ResolveIncident(t)

Spec == Init /\ [][Next]_treeVars

-----------------------------------------------------------------------------
\* The children that token t still waits for.
Awaited(t) == {c \in DOMAIN inst : /\ inst[c].token = t /\ inst[c].target = tok[t].eik
                                   /\ inst[c].state \notin EndedStates}
HasChild(t) == tok[t].at = "act" /\ (shape.inner # "task" \/ (shape.multi /\ tok[t].inst = 1))

\* A token that waits at a subprocess, call activity or multi-instance has exactly
\* one child that has not ended, and a child that has not ended has a parent that
\* has not ended either, with a token that still waits for it: neither a cancelled,
\* interrupted or completed parent leaves a child behind, nor does a child end
\* without continuing its parent (createCallActivity, createSubProcess,
\* handleParentProcessContinuation, handleProcessInstanceInnerCancel).
ParentsMatchChildren ==
    /\ \A t \in DOMAIN tok : tok[t].state = "waiting" /\ HasChild(t) => Cardinality(Awaited(t)) = 1
    /\ \A c \in DOMAIN inst \ {1} :
          inst[c].state \notin EndedStates =>
              /\ tok[inst[c].token].state = "waiting" /\ c \in Awaited(inst[c].token)
              /\ inst[ParentOf(c)].state \notin EndedStates

\* The executions of the inner activity of a multi-instance.
ItemsOf(m) == IF shape.inner = "task"
              THEN {job[j].state : j \in {k \in DOMAIN job : tok[job[k].token].inst = m}}
              ELSE {inst[c].state : c \in {k \in DOMAIN inst : k # 1 /\ ParentOf(k) = m}}
Executions(m) == IF shape.inner = "task"
                 THEN Cardinality({k \in DOMAIN job : tok[job[k].token].inst = m})
                 ELSE Cardinality({k \in DOMAIN inst : k # 1 /\ ParentOf(k) = m})

\* A multi-instance executes its activity at most once for every item, one at a
\* time when it is sequential, and completes only after all of them have completed,
\* whatever failed and was resolved in between (handleMultiInstanceActivity counts
\* the flow element instances, handleMultiInstanceElementTransition the tokens).
EveryItemOnce ==
    \A m \in DOMAIN inst : Multi(m) =>
        /\ Executions(m) <= shape.items
        /\ inst[m].state = "completed" => Executions(m) = shape.items /\ ItemsOf(m) = {"completed"}
        /\ shape.sequential => Cardinality(ActiveTokens(m)) <= 1

\* Nothing is left open in an ended instance of the tree: no token, no job that a
\* worker could complete, no boundary subscription, no incident (cancelInstance,
\* handlePlainEndEvent).
EndedTreesAreQuiet ==
    \A i \in DOMAIN inst : inst[i].state \in EndedStates =>
        /\ ActiveTokens(i) = {} /\ PendingJobs(i) = {}
        /\ (sub \union incident) \intersect TokensOf(i) = {}

Holding(i) == held[i].pc # "none"

\* The calls on the tree never wait for each other in a circle: as long as some call
\* holds a lock, one of those that do can take its next step, so neither a parent
\* that locks its children nor a child that continues its parent waits for the
\* other (AddLockedInstance waits, AddParentLockedInstance gives up).
NoCircularWait ==
    (\E i \in DOMAIN inst : Holding(i)) => \E i \in DOMAIN inst : Holding(i) /\ ENABLED Step(i)
=============================================================================
