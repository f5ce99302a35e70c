------------------------ MODULE PartitionPersistence ------------------------
(***************************************************************************)
(* internal/cluster/partition/partition_persistence.go: storage.Storage    *)
(* over the SQLite database of one partition, and its write batches.       *)
(*                                                                         *)
(* Readers take the database and return sets of rows.  {} is               *)
(* storage.ErrNotFound, {Error} any other error and {Panics} an index out  *)
(* of range.  The column tok is the execution token that a reader attaches *)
(* to a row.  A column that the reader leaves out of the struct it fills   *)
(* is Null: SaveXxx stores that Null when its statement writes the column. *)
(*                                                                         *)
(* Definitions are immutable rows, so that the expirable LRU caches of     *)
(* parsed definitions (pdCache, drdCache) answer what the table would.     *)
(***************************************************************************)
EXTENDS Integers, Sequences, FiniteSets, SequencesExt, TLC

CONSTANT Null

Q == INSTANCE SqlQueries

Error   == [key |-> Null, error |-> "error"]
Panics  == [key |-> Null, error |-> "panic"]

-----------------------------------------------------------------------------
(* Statements and transactions *)

\* generateStatement: one parameter for each column, an empty one for a Null.
Stmt(q, row) == [q |-> q, row |-> row]

Exec(db, s) ==
    CASE s.q = "SaveProcessDefinition"     -> Q!SaveProcessDefinition(db, s.row)
      [] s.q = "SaveProcessInstance"       -> Q!SaveProcessInstance(db, s.row)
      [] s.q = "SetProcessInstanceTTL"     ->
           Q!SetProcessInstanceTTL(db, s.row.key, s.row.ttl, s.row.del)
      [] s.q = "SaveToken"                 -> Q!SaveToken(db, s.row)
      [] s.q = "SaveJob"                   -> Q!SaveJob(db, s.row)
      [] s.q = "SaveTimer"                 -> Q!SaveTimer(db, s.row)
      [] s.q = "SaveMessageSubscription"   -> Q!SaveMessageSubscription(db, s.row)
      [] s.q = "SaveFlowElementInstance"   -> Q!SaveFlowElementInstance(db, s.row)
      [] s.q = "UpdateOutputFlowElementInstance" ->
           Q!UpdateOutputFlowElementInstance(db, s.row)
      [] s.q = "SaveIncident"              -> Q!SaveIncident(db, s.row)
      [] s.q = "SaveDmnResourceDefinition" -> Q!SaveDmnResourceDefinition(db, s.row)
      [] s.q = "SaveDecisionDefinition"    -> Q!SaveDecisionDefinition(db, s.row)
      [] s.q = "SaveDecisionInstance"      -> Q!SaveDecisionInstance(db, s.row)
      [] s.q = "DeleteProcessInstancesDecisionInstances" ->
           Q!DeleteProcessInstancesDecisionInstances(db, s.row)
      [] s.q = "DeleteFlowElementInstance" -> Q!DeleteFlowElementInstance(db, s.row)
      [] s.q = "DeleteProcessInstancesTokens" -> Q!DeleteProcessInstancesTokens(db, s.row)
      [] s.q = "DeleteProcessInstancesJobs"   -> Q!DeleteProcessInstancesJobs(db, s.row)
      [] s.q = "DeleteProcessInstancesTimers" -> Q!DeleteProcessInstancesTimers(db, s.row)
      [] s.q = "DeleteProcessInstancesMessageSubscriptions" ->
           Q!DeleteProcessInstancesMessageSubscriptions(db, s.row)
      [] s.q = "DeleteProcessInstancesIncidents" -> Q!DeleteProcessInstancesIncidents(db, s.row)
      [] s.q = "DeleteProcessInstances"    -> Q!DeleteProcessInstances(db, s.row)

\* The database after each number of the statements.
After(db, stmts) ==
    LET after[n \in 0..Len(stmts)] == IF n = 0 THEN db ELSE Exec(after[n - 1], stmts[n])
    IN  after

Run(db, stmts) == After(db, stmts)[Len(stmts)]

\* A statement whose result breaks a foreign key fails.
StatementsFail(db, stmts) == \E n \in 1..Len(stmts) : ~Q!References(After(db, stmts)[n])

\* One transaction (Transaction: true): a failing statement rolls all back.
ExecuteStatements(db, stmts) == IF StatementsFail(db, stmts) THEN db ELSE Run(db, stmts)

\* A statement outside a batch is a transaction of its own.
ExecContext(db, s) == ExecuteStatements(db, <<s>>)

-----------------------------------------------------------------------------
(* Definitions and decisions *)

GetLatestDecisionDefinitionById(db, id) == Q!FindLatestDecisionDefinitionById(db, id)

GetDecisionDefinitionsById(db, id) == Range(Q!FindDecisionDefinitionsById(db, id))

GetLatestDecisionDefinitionByIdAndVersionTag(db, id, tag) ==
    Q!FindLatestDecisionDefinitionByIdAndVersionTag(db, id, tag)

GetLatestDecisionDefinitionByIdAndDmnResourceDefinitionId(db, id, drdId) ==
    Q!FindLatestDecisionDefinitionByIdAndDmnResourceDefinitionId(db, id, drdId)

GetDecisionDefinitionByIdAndDmnResourceDefinitionKey(db, id, drd) ==
    Q!FindDecisionDefinitionByIdAndDmnResourceDefinitionKey(db, id, drd)

SaveDecisionDefinitionWith(r) == <<Stmt("SaveDecisionDefinition", r)>>

SaveDmnResourceDefinitionWith(r) == <<Stmt("SaveDmnResourceDefinition", r)>>

FindLatestDmnResourceDefinitionById(db, id) == Q!FindLatestDmnResourceDefinitionById(db, id)

FindDmnResourceDefinitionByKey(db, k) == Q!FindDmnResourceDefinitionByKey(db, k)

FindDmnResourceDefinitionsById(db, id) == Q!FindDmnResourceDefinitionsById(db, id)

\* The process instance comes from the context of the call; without one it is Null.
SaveDecisionInstance(r, inst) == <<Stmt("SaveDecisionInstance", [inst |-> inst] @@ r)>>

FindDecisionInstanceByKey(db, k) == Q!FindDecisionInstanceByKey(db, k)

FindLatestProcessDefinitionById(db, id) == Q!FindLatestProcessDefinitionById(db, id)

FindProcessDefinitionByKey(db, k) == Q!FindProcessDefinitionByKey(db, k)

FindProcessDefinitionsById(db, id) == Q!FindProcessDefinitionsById(db, id)

SaveProcessDefinitionWith(r) == <<Stmt("SaveProcessDefinition", r)>>

-----------------------------------------------------------------------------
(* Tokens *)

GetTokenByKey(db, k) == Q!GetTokens(db, {k})

GetActiveTokens(db) == Q!GetTokensInState(db, "running")

GetAllTokensForProcessInstance(db, inst) == Q!GetAllTokensForProcessInstance(db, inst)

GetActiveTokensForProcessInstance(db, inst) ==
    Q!GetTokensForProcessInstance(db, inst, {"waiting", "running", "failed"})

GetCompletedTokensForProcessInstance(db, inst) ==
    Q!GetTokensForProcessInstance(db, inst, {"completed"})

\* The struct of a token that was not found: only its key is set.
BareToken(k) == [key |-> k, inst |-> Null, elem |-> Null, element_instance |-> Null, state |-> Null]

WithTokens(db, rows) ==
    {[tok |-> IF Q!GetTokens(db, {r.token}) = {} THEN BareToken(r.token)
              ELSE CHOOSE t \in Q!GetTokens(db, {r.token}) : TRUE] @@ r : r \in rows}

-----------------------------------------------------------------------------
(* Process instances *)

\* The definition, and the parent's token when the instance has a parent.
inflateProcessInstance(db, r) ==
    CASE FindProcessDefinitionByKey(db, r.def) = {} -> {}
      [] r.parent_token # Null /\ GetTokenByKey(db, r.parent_token) = {} -> {}
      [] OTHER -> {[parent |-> IF r.parent_token = Null THEN {}
                               ELSE GetTokenByKey(db, r.parent_token)] @@ r}

FindProcessInstanceByKey(db, k) ==
    UNION {inflateProcessInstance(db, r) : r \in Q!GetProcessInstance(db, k)}

\* One child that cannot be inflated fails the call.
FindProcessInstancesByParentExecutionTokenKey(db, t) ==
    LET rows == Q!FindProcessesByParentExecutionToken(db, t)
    IN  IF \E r \in rows : inflateProcessInstance(db, r) = {} THEN {Error}
        ELSE UNION {inflateProcessInstance(db, r) : r \in rows}

\* Fills state and variables of an instance the caller holds, and its parent token.
RefreshProcessInstance(db, k) ==
    LET rows == Q!GetProcessInstance(db, k)
    IN  IF \E r \in rows : r.parent_token # Null /\ GetTokenByKey(db, r.parent_token) = {}
        THEN {Error}
        ELSE {[state |-> r.state, variables |-> r.variables] : r \in rows}

\* (mutant) The date of deletion is set on completion only.
MarksCompletedOnly(db, r, ttl, now) ==
    LET save == Stmt("SaveProcessInstance",
                     [r EXCEPT !.history_ttl_sec = Null, !.history_delete_sec = Null])
        mark(t, d) == Stmt("SetProcessInstanceTTL", [key |-> r.key, ttl |-> t, del |-> d])
        stored == {q \in Q!GetProcessInstance(db, r.key) : q.history_ttl_sec # Null}
    IN  CASE r.state = "ready" /\ ttl # Null -> <<save, mark(ttl, Null)>>
          [] r.state = "completed" /\ stored # {} ->
               <<save>> \o SetToSeq({mark(Null, now + q.history_ttl_sec) : q \in stored})
          [] OTHER -> <<save>>

(***************************************************************************)
(* The statements of SaveProcessInstanceWith; ttl is the history TTL of    *)
(* the call's context, or Null.  The row of an instance that ends is read  *)
(* from the database, not from the batch; when it is not there the call    *)
(* returns an error, with the first statement already issued.              *)
(***************************************************************************)
SaveProcessInstanceWith(db, r, ttl, now) ==
    LET save == Stmt("SaveProcessInstance",
                     [r EXCEPT !.history_ttl_sec = Null, !.history_delete_sec = Null])
        mark(t, d) == Stmt("SetProcessInstanceTTL", [key |-> r.key, ttl |-> t, del |-> d])
        stored == {q \in Q!GetProcessInstance(db, r.key) : q.history_ttl_sec # Null}
    IN  CASE r.state = "ready" /\ ttl # Null -> <<save, mark(ttl, Null)>>
          [] r.state \in {"completed", "terminated"} /\ stored # {} ->
               <<save>> \o SetToSeq({mark(Null, now + q.history_ttl_sec) : q \in stored})
          [] OTHER -> <<save>>

-----------------------------------------------------------------------------
(* Timers *)

inflateTimers(db, rows) == WithTokens(db, rows)

GetTimer(db, k) == inflateTimers(db, Q!GetTimerByKey(db, k))

FindTokenActiveTimerSubscriptions(db, token) ==
    inflateTimers(db, Q!FindTokenTimers(db, token, "created"))

FindProcessInstanceTimers(db, inst, state) ==
    inflateTimers(db, Q!FindProcessInstanceTimersInState(db, inst, state))

FindTimersTo(db, end) == inflateTimers(db, Q!FindTimersInStateTillDueAt(db, end, "created"))

SaveTimerWith(r) == <<Stmt("SaveTimer", r)>>

-----------------------------------------------------------------------------
(* Jobs: no reader fills Assignee, FindActiveJobsByType no Variables either *)

inflateJobs(db, rows) == {[j EXCEPT !.assignee = Null] : j \in WithTokens(db, rows)}

\* The slice of states is made with its final length and then appended to: the
\* query also asks for that many times the state 0, which no job has.
GetJobsInStateByTokenKey(db, token, states) ==
    inflateJobs(db, Q!GetJobsInStateByTokenKey(db, token, states \cup {"0"}))

FindActiveJobsByType(db, type) ==
    {[j EXCEPT !.variables = Null] : j \in inflateJobs(db, Q!FindActiveJobsByType(db, type))}

FindJobByJobKey(db, k) ==
    LET rows == Q!FindJobByJobKey(db, k)
    IN  IF \E j \in rows : Q!GetTokens(db, {j.token}) = {} THEN {Error}
        ELSE inflateJobs(db, rows)

FindPendingProcessInstanceJobs(db, inst) ==
    inflateJobs(db, Q!FindProcessInstanceJobsInState(db, inst, {"completing", "active", "failed"}))

SaveJobWith(r) == <<Stmt("SaveJob", r)>>

-----------------------------------------------------------------------------
(* Message subscriptions *)

FindActiveMessageSubscriptionPointer(db, name, corr) ==
    Q!FindMessageSubscriptionPointer(db, name, corr, "active")

FindActiveMessageSubscriptionKey(db, name, corr) ==
    {r.key : r \in Q!FindMessageSubscriptionByNameAndCorrelationKeyAndState(db, name, corr, "active")}

FindTokenMessageSubscriptions(db, token, state) ==
    IF Q!GetTokens(db, {token}) = {} THEN {Error}
    ELSE WithTokens(db, Q!FindTokenMessageSubscriptions(db, token, state))

FindMessageSubscriptionById(db, k, state) ==
    LET rows == Q!GetMessageSubscriptionById(db, k, state)
    IN  IF \E r \in rows : Q!GetTokens(db, {r.token}) = {} THEN {Error}
        ELSE WithTokens(db, rows)

FindProcessInstanceMessageSubscriptions(db, inst, state) ==
    WithTokens(db, Q!FindProcessInstanceMessageSubscriptions(db, inst, state))

SaveMessageSubscriptionWith(r) == <<Stmt("SaveMessageSubscription", r)>>

-----------------------------------------------------------------------------
(* Flow element instances *)

SaveToken(r) == <<Stmt("SaveToken", r)>>

GetFlowElementInstanceCountByProcessInstanceKey(db, inst) == Q!CountFlowElementInstances(db, inst)

FlowElementLimit == 1000

GetFlowElementInstancesByProcessInstanceKey(db, inst) ==
    Range(Q!GetFlowElementInstances(db, inst, 0, FlowElementLimit))

\* ExecutionTokenKey is filled with the row's own key.
GetFlowElementInstanceByKey(db, k) ==
    {[r EXCEPT !.token = r.key] : r \in Q!GetFlowElementInstanceByKey(db, k)}

UpdateOutputFlowElementInstanceWith(r) == <<Stmt("UpdateOutputFlowElementInstance", r)>>

SaveFlowElementInstanceWith(r) == <<Stmt("SaveFlowElementInstance", r)>>

-----------------------------------------------------------------------------
(* Incidents *)

\* tokens[0] is read for every incident.
FindIncidentsByExecutionTokenKey(db, token) ==
    LET rows == Q!FindIncidentsByExecutionTokenKey(db, token)
    IN  IF rows # {} /\ Q!GetTokens(db, {token}) = {} THEN {Panics} ELSE WithTokens(db, rows)

FindIncidentByKey(db, k) ==
    LET rows == Q!FindIncidentByKey(db, k)
    IN  IF \E r \in rows : Q!GetTokens(db, {r.token}) = {} THEN {Error} ELSE WithTokens(db, rows)

\* The structs get neither token key nor times: the loop that attaches the
\* tokens compares with the zero key and finds none.
FindIncidentsByProcessInstanceKey(db, inst) ==
    {[tok |-> BareToken(Null)] @@ [r EXCEPT !.token = Null, !.resolved_at = Null] :
        r \in Q!FindIncidentsByProcessInstanceKey(db, inst)}

SaveIncidentWith(r) == <<Stmt("SaveIncident", r)>>

-----------------------------------------------------------------------------
(* History cleanup *)

\* (mutant) The incidents are forgotten.
KeepsIncidents(keys) ==
    <<Stmt("DeleteProcessInstancesDecisionInstances", keys),
      Stmt("DeleteFlowElementInstance", keys),
      Stmt("DeleteProcessInstancesTokens", keys),
      Stmt("DeleteProcessInstancesJobs", keys),
      Stmt("DeleteProcessInstancesTimers", keys),
      Stmt("DeleteProcessInstancesMessageSubscriptions", keys),
      Stmt("DeleteProcessInstances", keys)>>

\* The statements of one pass, each a transaction of its own; their errors are
\* joined into a variable that the caller never sees.
CleanupStatements(keys) ==
    <<Stmt("DeleteProcessInstancesDecisionInstances", keys),
      Stmt("DeleteFlowElementInstance", keys),
      Stmt("DeleteProcessInstancesTokens", keys),
      Stmt("DeleteProcessInstancesJobs", keys),
      Stmt("DeleteProcessInstancesTimers", keys),
      Stmt("DeleteProcessInstancesMessageSubscriptions", keys),
      Stmt("DeleteProcessInstancesIncidents", keys),
      Stmt("DeleteProcessInstances", keys)>>

\* The keys of one pass: at most historyDeleteThreshold of the inactive ones,
\* and none when there are fewer than that.
dataCleanup(db, now, threshold) ==
    {K \in SUBSET Q!FindInactiveInstancesToDelete(db, now) : Cardinality(K) = threshold}
=============================================================================
