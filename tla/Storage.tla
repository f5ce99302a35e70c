------------------------------- MODULE Storage -------------------------------
(***************************************************************************)
(* The two implementations of storage.Storage side by side under the calls *)
(* of the engine, with the history cleanup of the partition's database     *)
(* (DB.scheduleDataCleanup) running statement by statement between them.   *)
(*                                                                         *)
(* db is the SQLite database of the partition, mem the maps of the         *)
(* in-memory storage.  An engine call reads the rows it needs from each    *)
(* store with that store's readers, changes them and saves them in one     *)
(* batch, the way the engine does: what a reader leaves out of a struct is *)
(* saved back as missing.  mem has no cleanup and keeps whole structs, so  *)
(* it serves as the reference for what db still has to answer.             *)
(*                                                                         *)
(* An instance has one token (with the instance's key) that visits the     *)
(* elements in Elem, waits at most once in each and may raise one incident *)
(* in each; the rows it owns there have the key K(i, e).  ended and        *)
(* selected record when an instance ended and which ones a cleanup chose.  *)
(***************************************************************************)
EXTENDS Integers, Sequences, FiniteSets, SequencesExt

CONSTANTS Null,        \* SQL NULL and Go's nil
          Inst,        \* keys of process instances
          Child,       \* those of them that a token of instance Parent starts
          Parent,
          Elem,        \* number of elements of the process
          Does,        \* what the token of an instance may meet: "job", "timer", "message",
                       \* "decision", "incident"
          TTLs,        \* history time to live of a start call, or Null
          Threshold,   \* historyDeleteThreshold
          MaxTime,     \* bound of the clock
          MaxVersion,  \* bound of the versions deployed
          MaxFaults    \* bound of the cleanup statements that fail

ASSUME ThresholdAssumption == Threshold \in Nat \ {0}

D == INSTANCE PartitionPersistence
M == INSTANCE InMemoryStorage

VARIABLES db, mem, now, pass, ended, selected, faults

vars == <<db, mem, now, pass, ended, selected, faults>>

K(i, e) == Elem * i + e

Idle == [keys |-> {}, pc |-> 0, touched |-> FALSE, faulty |-> FALSE]

Definition(v) == [key |-> v, version |-> v, id |-> "p", name |-> "p", checksum |-> v]

Init ==
    /\ db  = D!Run(D!Q!EmptyDB, D!SaveProcessDefinitionWith(Definition(1)))
    /\ mem = M!Flush(M!NewStorage, D!SaveProcessDefinitionWith(Definition(1)))
    /\ now = 0
    /\ pass = Idle
    /\ ended = [i \in Inst |-> Null]
    /\ selected = {}
    /\ faults = 0

-----------------------------------------------------------------------------
(* Saving *)

\* What a struct keeps beside the columns of its table.
Columns(r) == [c \in DOMAIN r \ {"tok", "parent"} |-> r[c]]

\* The batch's SaveXxx for each of the rows.
Saves(q, rows) == SetToSeq({D!Stmt(q, r) : r \in rows})

\* Flush of a DBBatch and of a StorageBatch with the same calls on them.
Flush(dbStmts, memStmts) ==
    /\ db'  = D!ExecuteStatements(db, [n \in DOMAIN dbStmts |->
                  IF "key" \in DOMAIN dbStmts[n].row
                  THEN [dbStmts[n] EXCEPT !.row = Columns(@)] ELSE dbStmts[n]])
    /\ mem' = M!Flush(mem, memStmts)

\* An engine call on instance i while a cleanup pass has selected it.
Touches(i) == pass' = IF i \in pass.keys THEN [pass EXCEPT !.touched = TRUE] ELSE pass

DbInstance(i)  == D!FindProcessInstanceByKey(db, i)
MemInstance(i) == M!FindProcessInstanceByKey(mem, i)

HasState(rows, S) == \E r \in rows \ {D!Error} : r.state \in S

SetState(rows, s) == {[r EXCEPT !.state = s] : r \in rows}

SaveDbInstance(i, s) ==
    FlattenSeq(SetToSeq({D!SaveProcessInstanceWith(db, r, Null, now) :
                            r \in SetState(DbInstance(i), s)}))

SaveMemInstance(i, s) == Saves("SaveProcessInstance", SetState(MemInstance(i), s))

DbToken(i)  == D!GetActiveTokensForProcessInstance(db, i)
MemToken(i) == M!GetActiveTokensForProcessInstance(mem, i)

Move(i, toks, s, e) == {[t EXCEPT !.state = s, !.elem = e, !.element_instance = K(i, e)] : t \in toks}

At(i) == CHOOSE e \in 1..Elem : \A t \in DbToken(i) : t.elem = e

Runs(i) == HasState(DbInstance(i), {"active"}) /\ HasState(DbToken(i), {"running"})

-----------------------------------------------------------------------------
(* Rows that the engine creates *)

Instance(i, p) ==
    [key |-> i, def |-> 1, state |-> "ready", variables |-> "v0", business_key |-> Null,
     parent_token |-> p, process_type |-> IF p = Null THEN "default" ELSE "sub",
     history_ttl_sec |-> Null, history_delete_sec |-> Null]

Token(i) == [key |-> i, inst |-> i, elem |-> 1, element_instance |-> K(i, 1), state |-> "running"]

FlowElement(i, e) == [key |-> K(i, e), inst |-> i, elem |-> e, token |-> i,
                      input |-> "in", output |-> "none"]

Waiting(kind, i, e) ==
    CASE kind = "job" ->
           [key |-> K(i, e), inst |-> i, token |-> i, elem |-> e, type |-> "t",
            state |-> "active", variables |-> "in", assignee |-> Null]
      [] kind = "timer" ->
           [key |-> K(i, e), inst |-> i, token |-> i, elem |-> e, def |-> 1,
            state |-> "created", due |-> now + 1]
      [] kind = "message" ->
           [key |-> K(i, e), inst |-> i, token |-> i, elem |-> e, def |-> 1,
            state |-> "active", name |-> "m", corr |-> K(i, e)]

SaveOf(kind) == CASE kind = "job"     -> "SaveJob"
                  [] kind = "timer"   -> "SaveTimer"
                  [] kind = "message" -> "SaveMessageSubscription"

Incident(i, e) == [key |-> K(i, e), inst |-> i, token |-> i, elem |-> e, resolved_at |-> Null]

-----------------------------------------------------------------------------
(* Calls *)

DeployProcess ==
    LET v == Cardinality(db.process_definition) + 1
        s == D!SaveProcessDefinitionWith(Definition(v))
    IN  /\ v <= MaxVersion /\ mem.process_instance = {}   \* bounds
        /\ Flush(s, s)
        /\ UNCHANGED <<now, pass, ended, selected, faults>>

DeployDecision ==
    LET v == Cardinality(db.dmn_resource_definition) + 1
        s == D!SaveDmnResourceDefinitionWith([key |-> v, version |-> v, id |-> "r", checksum |-> v])
             \o D!SaveDecisionDefinitionWith(
                   [key |-> v, version |-> v, id |-> "d", tag |-> v, drd_id |-> "r", drd |-> v])
    IN  /\ v <= MaxVersion /\ mem.process_instance = {}   \* bounds
        /\ Flush(s, s)
        /\ UNCHANGED <<now, pass, ended, selected, faults>>

\* A business rule task of a running instance, at its first element.
EvaluateDecision(i) ==
    LET s == D!SaveDecisionInstance([key |-> i, drd |-> 1, decision |-> 1], i)
    IN  /\ Runs(i) /\ At(i) = 1 /\ "decision" \in Does[i]
        /\ db.decision_definition # {}
        /\ i \notin D!Q!Keys(mem.decision_instance)
        /\ Flush(s, s) /\ Touches(i)
        /\ UNCHANGED <<now, ended, selected, faults>>

\* A child is started by the parent's token, in the call that runs it: with the
\* context of the parent's start call (and its TTL) or of a later call.
CreateInstance(i, ttl) ==
    LET p == IF i \in Child THEN Parent ELSE Null
        r == Instance(i, p)
    IN  /\ MemInstance(i) = {}
        /\ i \in Child => /\ Runs(Parent)
                          /\ ttl # Null => \E q \in DbInstance(Parent) : q.history_ttl_sec = ttl
        /\ Flush(D!SaveProcessInstanceWith(db, r, ttl, now) \o D!SaveToken(Token(i)),
                 <<D!Stmt("SaveProcessInstance", r), D!Stmt("SaveToken", Token(i))>>)
        /\ UNCHANGED <<now, pass, ended, selected, faults>>

\* RunProcessInstance sets the instance active with a statement of its own.
RunInstance(i) ==
    /\ HasState(D!RefreshProcessInstance(db, i), {"ready"})
    /\ Flush(SaveDbInstance(i, "active"), SaveMemInstance(i, "active"))
    /\ Touches(i)
    /\ UNCHANGED <<now, ended, selected, faults>>

Park(i, kind) ==
    LET e == At(i)
        s(toks, extra) == Saves("SaveToken", SetState(toks, "waiting"))
                          \o <<D!Stmt("SaveFlowElementInstance", FlowElement(i, e))>>
                          \o <<D!Stmt(SaveOf(kind), extra)>>
        row == Waiting(kind, i, e)
    IN  /\ Runs(i)
        /\ K(i, e) \notin D!Q!Keys(mem.job) \cup D!Q!Keys(mem.timer)
                             \cup D!Q!Keys(mem.message_subscription)
        /\ \E t \in MemToken(i) : Flush(s(DbToken(i), row), s(MemToken(i), [tok |-> t] @@ row))
        /\ Touches(i)
        /\ UNCHANGED <<now, ended, selected, faults>>

AssignJob(i) ==
    LET k == K(i, At(i))
        set(rows) == Saves("SaveJob", {[j EXCEPT !.assignee = "user"] : j \in rows})
    IN  /\ HasState(DbToken(i), {"waiting"})
        /\ HasState(D!FindJobByJobKey(db, k), {"active"})
        /\ Flush(set(D!FindJobByJobKey(db, k)), set(M!FindJobByJobKey(mem, k)))
        /\ Touches(i)
        /\ UNCHANGED <<now, ended, selected, faults>>

(* The wait is over: the row is settled, the element gets its output, and   *)
(* the token that the row carries moves on.                                 *)
Resume(i, q, dbRows, memRows, settled) ==
    LET next == IF At(i) < Elem THEN At(i) + 1 ELSE At(i)
        s(rows) == Saves(q, SetState(rows, settled))
                   \o <<D!Stmt("UpdateOutputFlowElementInstance",
                               [FlowElement(i, At(i)) EXCEPT !.output = "out"])>>
                   \o Saves("SaveToken", Move(i, {r.tok : r \in rows}, "running", next))
    IN  /\ HasState(DbInstance(i), {"active"}) /\ D!Error \notin dbRows
        /\ Flush(s(dbRows), s(memRows))
        /\ Touches(i)
        /\ UNCHANGED <<now, ended, selected, faults>>

CompleteJob(i) ==
    LET k == K(i, At(i))
    IN  /\ HasState(D!FindJobByJobKey(db, k), {"active"})
        /\ Resume(i, "SaveJob", D!FindJobByJobKey(db, k), M!FindJobByJobKey(mem, k), "completed")

TriggerTimer(i) ==
    LET k == K(i, At(i))
    IN  /\ k \in {r.key : r \in D!FindTimersTo(db, now + 1)}
        /\ Resume(i, "SaveTimer", D!GetTimer(db, k), M!GetTimer(mem, k), "triggered")

PublishMessage(i) ==
    \E k \in D!FindActiveMessageSubscriptionKey(db, "m", K(i, At(i))) :
        Resume(i, "SaveMessageSubscription", D!FindMessageSubscriptionById(db, k, "active"),
               M!FindMessageSubscriptionById(mem, k, "active"), "completed")

\* The job, if there is one, fails with the token; the instance fails too.
Fail(i) ==
    LET e == At(i)
        s(toks, jobs) == Saves("SaveJob", SetState(jobs, "failed"))
                         \o Saves("SaveToken", SetState(toks, "failed"))
        inc == Incident(i, e)
    IN  /\ "incident" \in Does[i]
        /\ HasState(DbInstance(i), {"active"})
        /\ Runs(i) \/ HasState(D!GetJobsInStateByTokenKey(db, i, {"active"}), {"active"})
        /\ K(i, e) \notin D!Q!Keys(mem.incident)
        /\ \E t \in MemToken(i) :
             Flush(s(DbToken(i), D!GetJobsInStateByTokenKey(db, i, {"active"}))
                      \o D!SaveIncidentWith(inc) \o SaveDbInstance(i, "failed"),
                   s(MemToken(i), M!GetJobsInStateByTokenKey(mem, i, {"active"}))
                      \o <<D!Stmt("SaveIncident", [tok |-> t] @@ inc)>>
                      \o SaveMemInstance(i, "failed"))
        /\ Touches(i)
        /\ UNCHANGED <<now, ended, selected, faults>>

\* The token of the incident waits again when a job of it is pending.
ResolveIncident(i) ==
    LET k == K(i, At(i))
        s(incs, jobs) ==
            LET mine == {j \in jobs : j.tok.key = i}
            IN  Saves("SaveIncident", {[r EXCEPT !.resolved_at = "set"] : r \in incs})
                \o Saves("SaveJob", SetState(mine, "active"))
                \o Saves("SaveToken", SetState({r.tok : r \in incs},
                                               IF mine = {} THEN "running" ELSE "waiting"))
    IN  /\ HasState(DbInstance(i), {"failed"})
        /\ \E r \in D!FindIncidentByKey(db, k) : r.key # Null /\ r.resolved_at = Null
        /\ Flush(s(D!FindIncidentByKey(db, k), D!FindPendingProcessInstanceJobs(db, i))
                    \o SaveDbInstance(i, "active"),
                 s(M!FindIncidentByKey(mem, k), M!FindPendingProcessInstanceJobs(mem, i))
                    \o SaveMemInstance(i, "active"))
        /\ Touches(i)
        /\ UNCHANGED <<now, ended, selected, faults>>

\* The token runs into the end event; a parent waits for its child.
Complete(i) ==
    /\ Runs(i) /\ At(i) = Elem
    /\ \A c \in Child : i = Parent /\ MemInstance(c) # {} => ended[c] # Null
    /\ Flush(Saves("SaveToken", SetState(DbToken(i), "completed")) \o SaveDbInstance(i, "completed"),
             Saves("SaveToken", SetState(MemToken(i), "completed")) \o SaveMemInstance(i, "completed"))
    /\ ended' = [ended EXCEPT ![i] = now]
    /\ Touches(i)
    /\ UNCHANGED <<now, selected, faults>>

-----------------------------------------------------------------------------
(* Termination goes through the readers of the instance, and down to the    *)
(* instances that its tokens started.                                       *)

DbCancel(i) ==
    Saves("SaveMessageSubscription",
          SetState(D!FindProcessInstanceMessageSubscriptions(db, i, "active"), "terminated"))
    \o Saves("SaveTimer", SetState(D!FindProcessInstanceTimers(db, i, "created"), "cancelled"))
    \o Saves("SaveJob", SetState(D!FindPendingProcessInstanceJobs(db, i), "terminated"))
    \o Saves("SaveIncident", {[r EXCEPT !.resolved_at = "set"] :
                                r \in D!FindIncidentsByProcessInstanceKey(db, i)})
    \o Saves("SaveToken", SetState(D!GetActiveTokensForProcessInstance(db, i), "canceled"))
    \o SaveDbInstance(i, "terminated")

MemCancel(i) ==
    Saves("SaveMessageSubscription",
          SetState(M!FindProcessInstanceMessageSubscriptions(mem, i, "active"), "terminated"))
    \o Saves("SaveTimer", SetState(M!FindProcessInstanceTimers(mem, i, "created"), "cancelled"))
    \o Saves("SaveJob", SetState(M!FindPendingProcessInstanceJobs(mem, i), "terminated"))
    \o Saves("SaveIncident", {[r EXCEPT !.resolved_at = "set"] :
                                r \in M!FindIncidentsByProcessInstanceKey(mem, i)})
    \o Saves("SaveToken", SetState(M!GetActiveTokensForProcessInstance(mem, i), "canceled"))
    \o SaveMemInstance(i, "terminated")

Terminate(i) ==
    LET open(rows) == {r.key : r \in {r \in rows : r.state \notin {"completed", "terminated"}}}
        dbKids  == open(UNION {D!FindProcessInstancesByParentExecutionTokenKey(db, t.key) :
                                 t \in DbToken(i)} \ {D!Error})
        memKids == open(UNION {M!FindProcessInstancesByParentExecutionTokenKey(mem, t.key) :
                                 t \in MemToken(i)})
        all(S, Op(_)) == FlattenSeq([n \in 1..Cardinality(S) |-> Op(SetToSeq(S)[n])])
    IN  /\ HasState(DbInstance(i), {"ready", "active", "failed"})
        /\ i \notin Child
        /\ Flush(all(dbKids, DbCancel) \o DbCancel(i), all(memKids, MemCancel) \o MemCancel(i))
        /\ ended' = [j \in Inst |-> IF j = i \/ j \in memKids THEN now ELSE ended[j]]
        /\ pass' = IF pass.keys \cap ({i} \cup memKids) # {}
                   THEN [pass EXCEPT !.touched = TRUE] ELSE pass
        /\ UNCHANGED <<now, selected, faults>>

-----------------------------------------------------------------------------
(* The clock and the cleanup *)

Tick == now < MaxTime /\ now' = now + 1 /\ UNCHANGED <<db, mem, pass, ended, selected, faults>>

CleanupBegins ==
    /\ pass.pc = 0
    /\ \E keys \in D!dataCleanup(db, now, Threshold) :
         /\ pass' = [keys |-> keys, pc |-> 1, touched |-> FALSE, faulty |-> FALSE]
         /\ selected' = selected \cup keys
    /\ UNCHANGED <<db, mem, now, ended, faults>>

CleanupStatement ==
    LET stmts == D!CleanupStatements(pass.keys)
    IN  /\ pass.pc \in DOMAIN stmts
        /\ \/ /\ db' = D!ExecContext(db, stmts[pass.pc])
              /\ pass' = [pass EXCEPT !.pc = @ + 1]
              /\ UNCHANGED faults
           \/ /\ faults < MaxFaults      \* the statement fails in the cluster
              /\ faults' = faults + 1
              /\ pass' = [pass EXCEPT !.pc = @ + 1, !.faulty = TRUE]
              /\ UNCHANGED db
    /\ UNCHANGED <<mem, now, ended, selected>>

CleanupEnds ==
    /\ pass.pc = Len(D!CleanupStatements({})) + 1
    /\ pass' = Idle
    /\ UNCHANGED <<db, mem, now, ended, selected, faults>>

Next ==
    \/ DeployProcess \/ DeployDecision
    \/ \E i \in Inst : \/ \E ttl \in TTLs : CreateInstance(i, ttl)
                       \/ RunInstance(i) \/ EvaluateDecision(i)
                       \/ \E kind \in Does[i] \ {"decision", "incident"} : Park(i, kind)
                       \/ AssignJob(i) \/ CompleteJob(i) \/ TriggerTimer(i) \/ PublishMessage(i)
                       \/ Fail(i) \/ ResolveIncident(i) \/ Complete(i) \/ Terminate(i)
    \/ Tick
    \/ CleanupBegins \/ CleanupStatement \/ CleanupEnds

Spec == Init /\ [][Next]_vars

-----------------------------------------------------------------------------
(* Properties *)

\* What the two implementations store for the same row differs in these
\* columns: tokens attached to a row, the history columns and the assignee.
Plain(r) == [c \in DOMAIN r \ {"tok", "parent", "history_ttl_sec", "history_delete_sec", "assignee"} |-> r[c]]

Same(S, T) == {Plain(r) : r \in S} = {Plain(r) : r \in T}

Of(rows, i) == {r \in rows : r.inst = i}

TokensAgree(i) ==
    /\ Same(D!GetTokenByKey(db, i), M!GetTokenByKey(mem, i))
    /\ Same(Of(D!GetActiveTokens(db), i), Of(M!GetRunningTokens(mem), i))
    /\ Same(D!GetAllTokensForProcessInstance(db, i), M!GetAllTokensForProcessInstance(mem, i))
    /\ Same(DbToken(i), MemToken(i))
    /\ Same(D!GetCompletedTokensForProcessInstance(db, i), M!GetCompletedTokensForProcessInstance(mem, i))

InstancesAgree(i) ==
    /\ Same(DbInstance(i), MemInstance(i))
    /\ D!RefreshProcessInstance(db, i) = M!RefreshProcessInstance(mem, i)
    /\ LET kids(rows) == {r \in rows : r.key \notin selected}
       IN  Same(kids(D!FindProcessInstancesByParentExecutionTokenKey(db, i)),
                kids(M!FindProcessInstancesByParentExecutionTokenKey(mem, i)))

JobsAgree(i, k) ==
    /\ Same(D!FindJobByJobKey(db, k), M!FindJobByJobKey(mem, k))
    /\ {r.key : r \in Of(D!FindActiveJobsByType(db, "t"), i)}
          = {r.key : r \in Of(M!FindActiveJobsByType(mem, "t"), i)}
    /\ \A s \in {"active", "completed", "failed", "terminated"} :
         Same(D!GetJobsInStateByTokenKey(db, i, {s}), M!GetJobsInStateByTokenKey(mem, i, {s}))
    /\ Same(D!FindPendingProcessInstanceJobs(db, i), M!FindPendingProcessInstanceJobs(mem, i))

\* The database selects timers due before a time, the maps those not due after it.
TimersAgree(i, k) ==
    /\ Same(D!GetTimer(db, k), M!GetTimer(mem, k))
    /\ Same(D!FindTokenActiveTimerSubscriptions(db, i), M!FindTokenActiveTimerSubscriptions(mem, i))
    /\ \A s \in {"created", "triggered", "cancelled"} :
         Same(D!FindProcessInstanceTimers(db, i, s), M!FindProcessInstanceTimers(mem, i, s))
    /\ Same(Of(D!FindTimersTo(db, now + 1), i), Of(M!FindTimersTo(mem, now), i))

MessagesAgree(i, k) ==
    /\ D!FindActiveMessageSubscriptionKey(db, "m", k) = M!FindActiveMessageSubscriptionKey(mem, "m", k)
    /\ \A s \in {"active", "completed", "terminated"} :
         /\ Same(D!FindMessageSubscriptionById(db, k, s), M!FindMessageSubscriptionById(mem, k, s))
         /\ Same(D!FindTokenMessageSubscriptions(db, i, s), M!FindTokenMessageSubscriptions(mem, i, s))
         /\ Same(D!FindProcessInstanceMessageSubscriptions(db, i, s),
                 M!FindProcessInstanceMessageSubscriptions(mem, i, s))

IncidentsAgree(i, k) ==
    /\ Same(D!FindIncidentByKey(db, k), M!FindIncidentByKey(mem, k))
    /\ Same(D!FindIncidentsByExecutionTokenKey(db, i), M!FindIncidentsByExecutionTokenKey(mem, i))
    /\ {r.key : r \in D!FindIncidentsByProcessInstanceKey(db, i)}
          = {r.key : r \in M!FindIncidentsByProcessInstanceKey(mem, i)}

HistoryAgrees(i, k) ==
    /\ D!GetFlowElementInstanceCountByProcessInstanceKey(db, i)
          = M!GetFlowElementInstanceCountByProcessInstanceKey(mem, i)
    /\ Same(D!GetFlowElementInstancesByProcessInstanceKey(db, i),
            M!GetFlowElementInstancesByProcessInstanceKey(mem, i))
    /\ {r.output : r \in D!GetFlowElementInstanceByKey(db, k)}
          = {r.output : r \in M!GetFlowElementInstanceByKey(mem, k)}
    /\ D!FindDecisionInstanceByKey(db, i) = M!FindDecisionInstanceByKey(mem, i)

(***************************************************************************)
(* The definitions that both storages answer: by key and id always, the    *)
(* latest decision while there is one version, since the in-memory storage *)
(* takes the first of the ascending list.                                  *)
(***************************************************************************)
DefinitionsAgree ==
    /\ \A v \in 1..MaxVersion :
         /\ D!FindProcessDefinitionByKey(db, v) = M!FindProcessDefinitionByKey(mem, v)
         /\ D!FindDmnResourceDefinitionByKey(db, v) = M!FindDmnResourceDefinitionByKey(mem, v)
         /\ D!GetDecisionDefinitionByIdAndDmnResourceDefinitionKey(db, "d", v)
               = M!GetDecisionDefinitionByIdAndDmnResourceDefinitionKey(mem, "d", v)
         /\ D!GetLatestDecisionDefinitionByIdAndVersionTag(db, "d", v)
               = M!GetLatestDecisionDefinitionByIdAndVersionTag(mem, "d", v)
    /\ D!FindLatestProcessDefinitionById(db, "p") = M!FindLatestProcessDefinitionById(mem, "p")
    /\ Range(D!FindProcessDefinitionsById(db, "p")) = Range(M!FindProcessDefinitionsById(mem, "p"))
    /\ D!GetDecisionDefinitionsById(db, "d") = M!GetDecisionDefinitionsById(mem, "d")
    /\ D!FindDmnResourceDefinitionsById(db, "r") = Reverse(M!FindDmnResourceDefinitionsById(mem, "r"))
    /\ Cardinality(db.decision_definition) = 1 =>
         /\ D!GetLatestDecisionDefinitionById(db, "d") = M!GetLatestDecisionDefinitionById(mem, "d")
         /\ D!GetLatestDecisionDefinitionByIdAndDmnResourceDefinitionId(db, "d", "r")
               = M!GetLatestDecisionDefinitionByIdAndDmnResourceDefinitionId(mem, "d", "r")
         /\ D!FindLatestDmnResourceDefinitionById(db, "r") = M!FindLatestDmnResourceDefinitionById(mem, "r")

(***************************************************************************)
(* Every reader of the database answers what the in-memory storage answers *)
(* for an instance that no cleanup has chosen, whatever passes ran over    *)
(* the others: partial upserts, rows read without some of their columns    *)
(* and saved again, and the deletes of a pass in progress never show.  An  *)
(* element's output is saved without its input, which has to stay.         *)
(***************************************************************************)
ReadersAgree ==
    /\ DefinitionsAgree
    /\ \A i \in Inst :
         MemInstance(i) # {} /\ i \notin selected /\ (i \in Child => Parent \notin selected) =>
             /\ TokensAgree(i) /\ InstancesAgree(i)
             /\ \A e \in 1..Elem : /\ JobsAgree(i, K(i, e)) /\ TimersAgree(i, K(i, e))
                                   /\ MessagesAgree(i, K(i, e)) /\ IncidentsAgree(i, K(i, e))
                                   /\ HistoryAgrees(i, K(i, e))

(***************************************************************************)
(* A pass that no engine call and no failed statement disturbs leaves no   *)
(* row of the instances it chose in any table (dataCleanup): the order of  *)
(* its deletes respects the foreign keys.                                  *)
(***************************************************************************)
CleanupRemovesWhatItSelected ==
    pass.pc = Len(D!CleanupStatements({})) + 1 /\ ~pass.touched /\ ~pass.faulty =>
        /\ D!Q!Keys(db.process_instance) \cap pass.keys = {}
        /\ \A t \in {"execution_token", "flow_element_instance", "job", "timer",
                     "message_subscription", "incident", "decision_instance"} :
             \A r \in db[t] : r.inst \notin pass.keys

(***************************************************************************)
(* The history of an instance that was started with a time to live is not  *)
(* chosen before it has ended and the time has passed, unless the instance *)
(* failed: the TTL of the start call is stored, and the date of deletion   *)
(* set when the instance completes or is terminated, also through its      *)
(* parent.                                                                 *)
(***************************************************************************)
HistoryIsKept ==
    [][\A i \in selected' \ selected : \A r \in DbInstance(i) :
           r.state # "failed" /\ r.history_ttl_sec # Null =>
               ended[i] # Null /\ now > ended[i] + r.history_ttl_sec]_vars

(***************************************************************************)
(* "Duration for which process instance data are kept in storage after the *)
(* process instance ends" (openapi/api.yaml): an instance that has not     *)
(* ended keeps its rows.                                                   *)
(***************************************************************************)
KeptUntilEnded ==
    \A i \in Inst : MemInstance(i) # {} /\ ended[i] = Null => i \in D!Q!Keys(db.process_instance)

=============================================================================
