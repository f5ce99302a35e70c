------------------------------ MODULE Decisions ------------------------------
(***************************************************************************)
(* Goroutines that evaluate decisions at the same time (business rule      *)
(* tasks and calls of EvaluateDecision): they share the pool of runners,   *)
(* each FEEL evaluation takes a runner and puts it back, and an evaluation *)
(* that ends saves a decision instance.  How many FEEL evaluations a       *)
(* decision makes is left open.  The diagram and the variables of the      *)
(* callers are chosen at the start; a diagram without cycles, as Validate  *)
(* should make sure of and does not.                                       *)
(*                                                                         *)
(* A decision is evaluated for a caller of the API or for a business rule  *)
(* task [decision, in, result, out]: input mappings, the name of its       *)
(* result and output mappings.  The input of a task is what the variables  *)
(* of its instance are then.                                               *)
(***************************************************************************)
EXTENDS RunnerPool, VariableHolder

CONSTANTS Diagram,    \* diagrams to evaluate
          Variables,  \* variables of the callers
          Task        \* business rule tasks

VARIABLES drd, input,
          saved       \* the decision instance saved last, and the task it was for

vars == <<pool, activeRunnersCount, muHeld, at, using, cleaner, drd, input, saved>>

NoTask == [decision |-> "", in |-> <<>>, result |-> "", out |-> <<>>]

Nothing == [id |-> "", given |-> NoVars, evaluated |-> <<>>, task |-> NoTask, after |-> NoVars]

Init ==
    /\ NewRunnerPool
    /\ drd \in Diagram
    /\ input \in Variables
    /\ saved = Nothing

\* A caller asks for a runner, and gets it at once, after it made one or after a wait.
GetRunnerFromPool(c) == Get(c) /\ UNCHANGED <<drd, input, saved>>

\* One FEEL evaluation ends and the decision needs another one.
EvaluateMore(c) == ReturnRunnerToPool(c) /\ UNCHANGED <<drd, input, saved>>

\* The variables of the instance once the task is done, where r is the result of the
\* decision.  A mapping or a decision that fails makes an incident: the instance is
\* saved as it is then.
handleLocalBusinessRuleTask(task, vh, r) ==
    IF ~Fine(task.in) \/ ~r.ok THEN vh.parent
    ELSE IF task.out # <<>>
    THEN PropagateOutputVariablesToParent(vh, task.out, task.result :> r.output).parent
    ELSE PropagateVariable(vh, task.result, r.output).parent

\* What is saved when the evaluation ends with r: nothing unless it succeeded.
DecisionInstance(id, r) ==
    IF r.ok THEN [Nothing EXCEPT !.id = id, !.given = input, !.evaluated = r.evaluated]
    ELSE saved

\* The same for a task with the scope vh: the decision instance is saved before the
\* output mappings are evaluated, and stays when one of them fails.
TaskDecisionInstance(task, vh, r) ==
    [(IF Fine(task.in) /\ r.ok
      THEN [Nothing EXCEPT !.id = task.decision, !.given = vh.local, !.evaluated = r.evaluated]
      ELSE Nothing)
     EXCEPT !.task = task, !.after = handleLocalBusinessRuleTask(task, vh, r)]

\* The last FEEL evaluation of a decision ends.
SaveDecisionInstance(c) ==
    \E id \in DOMAIN drd :
       /\ ReturnRunnerToPool(c)
       /\ saved' = DecisionInstance(id, evaluateDRD(drd, id, input))
       /\ UNCHANGED <<drd, input>>

EndBusinessRuleTask(c) ==
    \E task \in Task :
       LET vh == EvaluateAndSetMappingsToLocalVariables(NewVariableHolder(input), task.in)
       IN /\ ReturnRunnerToPool(c)
          /\ saved' = TaskDecisionInstance(task, vh, evaluateDRD(drd, task.decision, vh.local))
          /\ UNCHANGED <<drd, input>>

Next ==
    \/ \E c \in Caller : GetRunnerFromPool(c) \/ EvaluateMore(c)
                            \/ SaveDecisionInstance(c) \/ EndBusinessRuleTask(c)
    \/ Clean /\ UNCHANGED <<drd, input, saved>>

Spec == Init /\ [][Next]_vars

\* A goroutine that can go on does; a receiver blocked on the channel and a goroutine
\* blocked on the mutex are served in turn by the Go runtime, hence the strong fairness.
\* Nobody has to ask for a runner, and the ticker need not tick.  An evaluation ends:
\* EvaluateMore stays enabled until the runner is put back in one of the three ways.
Fairness ==
    /\ \A c \in Caller :
          /\ SF_vars((CreateOrWait(c) \/ WaitForRunner(c)) /\ UNCHANGED <<drd, input, saved>>)
          /\ WF_vars(EvaluateMore(c))
    /\ SF_vars((CleanerLocks \/ CleanerTakes) /\ UNCHANGED <<drd, input, saved>>)

FairSpec == Spec /\ Fairness

-----------------------------------------------------------------------------
\* Every decision in a saved evaluation has the output it has when it is asked for by
\* itself with the same variables: what was evaluated before it does not reach it
\* (evaluateDecision hands on the caller's variables, not its own).
RequirementsAreEvaluatedAlone ==
    \A e \in ToSet(saved.evaluated) :
       evaluateDecision(drd, e.id, saved.given).out = e.out

\* A business rule task changes its result variable in the instance, or the targets of
\* its output mappings when it has any, and nothing else: what its input mappings set
\* stays in the task, whether or not it ends with an incident
\* (handleLocalBusinessRuleTask; varholder.go).
TasksWriteOnlyTheirResults ==
    saved.task # NoTask =>
    LET mine == IF saved.task.out = <<>> THEN {saved.task.result}
                ELSE {m.target : m \in ToSet(saved.task.out)}
    IN \A v \in (DOMAIN input \cup DOMAIN saved.after) \ mine :
          v \in DOMAIN input \cap DOMAIN saved.after /\ saved.after[v] = input[v]

\* The output of a UNIQUE table with several matches is empty.
Ambiguous(id, given) ==
    /\ drd[id].logic.kind = "table"
    /\ drd[id].logic.policy = "UNIQUE"
    /\ LET all == evaluateDecision([drd EXCEPT ![id].logic.policy = "COLLECT"], id, given)
       IN all.ok /\ Len(all.out[decisionName(drd, id)][2]) > 1

\* A decision sees the output of the decisions it requires, never a variable of the
\* caller that happens to have the same name: changing such a variable changes nothing
\* as long as the required decisions do not change.  The exception is a required UNIQUE
\* table with several matches, which leaves the caller's variable visible.
OnlyAmbiguousTablesExposeInputs ==
    saved.id # "" /\ saved.task = NoTask =>
    LET reqs == {r.ref : r \in {q \in ToSet(drd[saved.id].reqs) : q.kind = "decision"}}
        shadowed == {outputName(drd, r) : r \in reqs}
        others(given) == [v \in DOMAIN given \ shadowed |-> given[v]]
    IN \A alt \in Variables :
          \/ others(alt) # others(input)
          \/ \E r \in reqs : evaluateDecision(drd, r, alt) # evaluateDecision(drd, r, input)
          \/ \E r \in reqs : Ambiguous(r, input)
          \/ evaluateDecision(drd, saved.id, alt).out
                = evaluateDecision(drd, saved.id, input).out

\* Who asks for a runner gets one, although the cleaner may throw idle runners away
\* while it waits: minVmPoolSize is positive, so that one is left to come back.
EveryCallGetsARunner ==
    \A c \in Caller : at[c] \in {"locking", "waiting"} ~> at[c] = "using"

=============================================================================
