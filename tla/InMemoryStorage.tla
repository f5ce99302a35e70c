--------------------------- MODULE InMemoryStorage ---------------------------
(***************************************************************************)
(* pkg/storage/inmemory/in_memory_repository.go: storage.Storage over Go   *)
(* maps.  A store is a record of tables like the one of SqlQueries, but a  *)
(* row is the whole struct that was saved last, with the execution token   *)
(* it held at that moment in tok.  There are no foreign keys.              *)
(***************************************************************************)
EXTENDS Integers, Sequences, FiniteSets, SequencesExt

CONSTANT Null

Q == INSTANCE SqlQueries

\* A map for each table; the pointers of message subscriptions have none.
NewStorage == [t \in Q!Tables \ {"message_subscription_pointer"} |-> {}]

\* mem.Xxx[key] = row
Put(T, r) == {q \in T : q.key # r.key} \cup {r}

ByKey(T, k) == {r \in T : r.key = k}

\* slices.SortFunc by version, ascending
ByVersion(T) == SetToSortSeq(T, LAMBDA a, b : a.version < b.version)

First(T) == IF T = {} THEN {} ELSE {ByVersion(T)[1]}

-----------------------------------------------------------------------------
GetLatestDecisionDefinitionById(mem, id) ==
    First({d \in mem.decision_definition : d.id = id})

GetDecisionDefinitionsById(mem, id) == {d \in mem.decision_definition : d.id = id}

GetLatestDecisionDefinitionByIdAndVersionTag(mem, id, tag) ==
    First({d \in mem.decision_definition : d.id = id /\ d.tag = tag})

GetLatestDecisionDefinitionByIdAndDmnResourceDefinitionId(mem, id, drdId) ==
    First({d \in mem.decision_definition : d.id = id /\ d.drd_id = drdId})

GetDecisionDefinitionByIdAndDmnResourceDefinitionKey(mem, id, drd) ==
    {d \in mem.decision_definition : d.id = id /\ d.drd = drd}

SaveDecisionDefinition(mem, r) == [mem EXCEPT !.decision_definition = Put(@, r)]

SaveDmnResourceDefinition(mem, r) == [mem EXCEPT !.dmn_resource_definition = Put(@, r)]

SaveDecisionInstance(mem, r) == [mem EXCEPT !.decision_instance = Put(@, r)]

FindDecisionInstanceByKey(mem, k) == ByKey(mem.decision_instance, k)

FindLatestDmnResourceDefinitionById(mem, id) ==
    First({d \in mem.dmn_resource_definition : d.id = id})

FindDmnResourceDefinitionByKey(mem, k) == ByKey(mem.dmn_resource_definition, k)

FindDmnResourceDefinitionsById(mem, id) ==
    ByVersion({d \in mem.dmn_resource_definition : d.id = id})

\* The loop keeps a definition unless a newer one is held; versions start at 1.
FindLatestProcessDefinitionById(mem, id) ==
    LET named == {d \in mem.process_definition : d.id = id}
    IN  {d \in named : \A e \in named : e.version <= d.version}

FindProcessDefinitionByKey(mem, k) == ByKey(mem.process_definition, k)

FindProcessDefinitionsById(mem, id) == ByVersion({d \in mem.process_definition : d.id = id})

SaveProcessDefinition(mem, r) == [mem EXCEPT !.process_definition = Put(@, r)]

-----------------------------------------------------------------------------
RefreshProcessInstance(mem, k) ==
    {[state |-> r.state, variables |-> r.variables] : r \in ByKey(mem.process_instance, k)}

FindProcessInstanceByKey(mem, k) == ByKey(mem.process_instance, k)

FindProcessInstancesByParentExecutionTokenKey(mem, t) ==
    {r \in mem.process_instance : r.process_type # "default" /\ r.parent_token = t}

SaveProcessInstance(mem, r) == [mem EXCEPT !.process_instance = Put(@, r)]

-----------------------------------------------------------------------------
GetTimer(mem, k) == ByKey(mem.timer, k)

FindTokenActiveTimerSubscriptions(mem, token) ==
    {r \in mem.timer : r.state = "created" /\ r.token = token}

FindProcessInstanceTimers(mem, inst, state) == {r \in mem.timer : r.inst = inst /\ r.state = state}

FindTimersTo(mem, end) == {r \in mem.timer : ~(r.due > end) /\ r.state = "created"}

SaveTimer(mem, r) == [mem EXCEPT !.timer = Put(@, r)]

-----------------------------------------------------------------------------
FindActiveJobsByType(mem, type) == {r \in mem.job : r.type = type /\ r.state = "active"}

FindJobByJobKey(mem, k) == ByKey(mem.job, k)

GetJobsInStateByTokenKey(mem, token, states) ==
    {r \in mem.job : r.token = token /\ r.state \in states}

FindPendingProcessInstanceJobs(mem, inst) ==
    {r \in mem.job : r.inst = inst /\ r.state \in {"active", "completing", "failed"}}

SaveJob(mem, r) == [mem EXCEPT !.job = Put(@, r)]

-----------------------------------------------------------------------------
FindMessageSubscriptionById(mem, k, state) ==
    {r \in ByKey(mem.message_subscription, k) : r.state = state}

FindTokenMessageSubscriptions(mem, token, state) ==
    {r \in mem.message_subscription : r.token = token /\ r.state = state}

FindProcessInstanceMessageSubscriptions(mem, inst, state) ==
    {r \in mem.message_subscription : r.inst = inst /\ r.state = state}

FindActiveMessageSubscriptionKey(mem, name, corr) ==
    {r.key : r \in {r \in mem.message_subscription :
                      r.state = "active" /\ r.name = name /\ r.corr = corr}}

\* The loop over the map stops at the subscription itself: which of the other
\* subscriptions it compares before depends on the iteration order of the map.
SubscriptionConflicts(mem, r) ==
    \E S \in SUBSET mem.message_subscription :
        /\ \A s \in S : s.key # r.key
        /\ ByKey(mem.message_subscription, r.key) = {} => S = mem.message_subscription
        /\ \E s \in S : s.state = "active" /\ s.name = r.name /\ s.corr = r.corr

SaveMessageSubscription(mem, r) == [mem EXCEPT !.message_subscription = Put(@, r)]

-----------------------------------------------------------------------------
FindIncidentsByExecutionTokenKey(mem, token) == {r \in mem.incident : r.token = token}

FindIncidentByKey(mem, k) == ByKey(mem.incident, k)

FindIncidentsByProcessInstanceKey(mem, inst) == {r \in mem.incident : r.inst = inst}

SaveIncident(mem, r) == [mem EXCEPT !.incident = Put(@, r)]

-----------------------------------------------------------------------------
GetCompletedTokensForProcessInstance(mem, inst) ==
    {t \in mem.execution_token : t.inst = inst /\ t.state = "completed"}

GetTokenByKey(mem, k) == ByKey(mem.execution_token, k)

GetActiveTokensForProcessInstance(mem, inst) ==
    {t \in mem.execution_token : t.inst = inst /\ t.state \in {"waiting", "failed", "running"}}

GetAllTokensForProcessInstance(mem, inst) == {t \in mem.execution_token : t.inst = inst}

GetRunningTokens(mem) == {t \in mem.execution_token : t.state = "running"}

SaveToken(mem, r) == [mem EXCEPT !.execution_token = Put(@, r)]

-----------------------------------------------------------------------------
GetFlowElementInstanceCountByProcessInstanceKey(mem, inst) ==
    Cardinality({r \in mem.flow_element_instance : r.inst = inst})

GetFlowElementInstancesByProcessInstanceKey(mem, inst) ==
    {r \in mem.flow_element_instance : r.inst = inst}

GetFlowElementInstanceByKey(mem, k) == ByKey(mem.flow_element_instance, k)

SaveFlowElementInstance(mem, r) == [mem EXCEPT !.flow_element_instance = Put(@, r)]

UpdateOutputFlowElementInstance(mem, r) ==
    [mem EXCEPT !.flow_element_instance =
        {IF q.key = r.key THEN [q EXCEPT !.output = r.output] ELSE q : q \in @}]

-----------------------------------------------------------------------------
(***************************************************************************)
(* A batch runs all of its closures, each on the store itself, whether or  *)
(* not one fails: the copy taken before only replaces the batch's own      *)
(* reference.  Pre-flush actions are registered and never run.             *)
(***************************************************************************)
ExecMem(mem, s) ==
    CASE s.q = "SaveProcessDefinition"     -> SaveProcessDefinition(mem, s.row)
      [] s.q = "SaveProcessInstance"       -> SaveProcessInstance(mem, s.row)
      [] s.q = "SaveToken"                 -> SaveToken(mem, s.row)
      [] s.q = "SaveJob"                   -> SaveJob(mem, s.row)
      [] s.q = "SaveTimer"                 -> SaveTimer(mem, s.row)
      [] s.q = "SaveMessageSubscription"   -> SaveMessageSubscription(mem, s.row)
      [] s.q = "SaveFlowElementInstance"   -> SaveFlowElementInstance(mem, s.row)
      [] s.q = "UpdateOutputFlowElementInstance" -> UpdateOutputFlowElementInstance(mem, s.row)
      [] s.q = "SaveIncident"              -> SaveIncident(mem, s.row)
      [] s.q = "SaveDmnResourceDefinition" -> SaveDmnResourceDefinition(mem, s.row)
      [] s.q = "SaveDecisionDefinition"    -> SaveDecisionDefinition(mem, s.row)
      [] s.q = "SaveDecisionInstance"      -> SaveDecisionInstance(mem, s.row)
      [] OTHER -> mem

Flush(mem, stmts) == FoldLeft(ExecMem, mem, stmts)
=============================================================================
