----------------------------- MODULE SqlQueries -----------------------------
(***************************************************************************)
(* The statements of internal/sql (generated by sqlc from                  *)
(* internal/sql/queries/*.sql) over one partition's SQLite database.       *)
(*                                                                         *)
(* A database is a record of tables, a table is a set of rows and a row is *)
(* a record of the columns that some statement or property looks at.  The  *)
(* integer codes of states and process types are written as the names they *)
(* stand for in pkg/bpmn/runtime/types.go: 1 is "active", 4 "completed",   *)
(* 6 "failed", 8 "ready", 9 "terminated"; process types 1 to 4 are         *)
(* "default", "sub", "call" and "multi".  Short column names: inst is      *)
(* process_instance_key, token is execution_token, def is                  *)
(* process_definition_key, drd is dmn_resource_definition_key, at is       *)
(* created_at, corr is correlation_key.                                    *)
(*                                                                         *)
(* A :many query without ORDER BY is the set of its rows.  A :one query is *)
(* the set of rows it may return: the empty set is ErrNoRows, which        *)
(* Row.Scan also reports for a query that failed.  Paged queries return    *)
(* the page as a sequence; ties of their ORDER BY keep the order of keys,  *)
(* the order in which SQLite scans the table.                              *)
(***************************************************************************)
EXTENDS Integers, Sequences, FiniteSets, SequencesExt, FiniteSetsExt

CONSTANT Null

Tables == {"process_definition", "process_instance", "execution_token",
           "flow_element_instance", "job", "timer", "message_subscription",
           "message_subscription_pointer", "incident",
           "dmn_resource_definition", "decision_definition", "decision_instance"}

EmptyDB == [t \in Tables |-> {}]

Keys(T) == {r.key : r \in T}

(***************************************************************************)
(* INSERT ... ON CONFLICT DO UPDATE SET cols: a new row is inserted whole, *)
(* of an existing one only the listed columns are overwritten.             *)
(***************************************************************************)
Upsert(T, r, cols) ==
    IF r.key \in Keys(T)
    THEN {IF q.key = r.key
          THEN [c \in DOMAIN q |-> IF c \in cols THEN r[c] ELSE q[c]]
          ELSE q : q \in T}
    ELSE T \cup {r}

(* A WHERE clause with a nullable parameter. *)
Given(p, holds) == p = Null \/ holds

Latest(S) == {r \in S : \A q \in S : q.version <= r.version}

\* LIMIT size OFFSET offset of rows already in their ORDER BY order.
Page(rows, offset, size) == SubSeq(rows, offset + 1, Min({offset + size, Len(rows)}))

\* ORDER BY f ASC or DESC, ties by key.
Ordered(S, f, desc) ==
    SetToSortSeq(S, LAMBDA a, b :
        IF a[f] = b[f] THEN a.key < b.key
        ELSE IF desc THEN a[f] > b[f] ELSE a[f] < b[f])

-----------------------------------------------------------------------------
(* Foreign keys (migrations 0001 and 0002; PRAGMA foreign_keys = ON). *)

References(db) ==
    LET insts == Keys(db.process_instance)
        defs  == Keys(db.process_definition)
        drds  == Keys(db.dmn_resource_definition)
    IN  /\ \A r \in db.process_instance : r.def \in defs
        /\ \A t \in {"execution_token", "flow_element_instance", "job", "timer",
                     "message_subscription", "incident"} :
             \A r \in db[t] : r.inst \in insts
        /\ \A r \in db.decision_definition : r.drd \in drds
        /\ \A r \in db.decision_instance :
             /\ r.drd \in drds
             /\ r.decision \in Keys(db.decision_definition)
             /\ r.inst \in insts \cup {Null}

-----------------------------------------------------------------------------
(* process_instance.sql.go *)

SaveProcessInstance(db, r) ==
    [db EXCEPT !.process_instance = Upsert(@, r, {"state", "variables", "business_key"})]

\* A parameter that is NULL leaves its column as it is.
SetProcessInstanceTTL(db, k, ttl, del) ==
    [db EXCEPT !.process_instance =
        {IF r.key = k
         THEN [r EXCEPT !.history_ttl_sec    = IF ttl # Null THEN ttl ELSE @,
                        !.history_delete_sec = IF del # Null THEN del ELSE @]
         ELSE r : r \in @}]

(* The parent is found through the token that the instance was started by: *)
(* LEFT JOINs, so that a parent token that is gone gives a NULL state.     *)
FindInactiveInstancesToDelete(db, now) ==
    LET ended == {"completed", "failed", "terminated"}
        parents(r) == {p \in db.process_instance :
                         \E t \in db.execution_token : /\ t.key = r.parent_token
                                                       /\ t.inst = p.key}
    IN  {r.key : r \in
           {r \in db.process_instance :
              /\ r.state \in ended
              /\ r.parent_token = Null \/ \E p \in parents(r) : p.state \in ended
              /\ r.history_delete_sec = Null \/ r.history_delete_sec < now}}

DeleteProcessInstances(db, keys) ==
    [db EXCEPT !.process_instance = {r \in @ : r.key \notin keys}]

GetProcessInstance(db, k) == {r \in db.process_instance : r.key = k}

FindProcessesByParentExecutionToken(db, t) ==
    {r \in db.process_instance : r.parent_token = t}

CountActiveProcessInstances(db) ==
    Cardinality({r \in db.process_instance : r.state = "active"})

(* q: def, parent, business_key, process_id, element, from, to, state are   *)
(* filters or Null, types a set of process types, empty for all of them.    *)
FindProcessInstancesPage(db, q, desc, offset, size) ==
    LET of(r) == CHOOSE d \in db.process_definition : d.key = r.def
        tokens(i) == {t \in db.execution_token : t.inst = i}
        rows == {r \in db.process_instance :
                   /\ Given(q.def, r.def = q.def)
                   /\ Given(q.parent, \E t \in tokens(q.parent) : t.key = r.parent_token)
                   /\ Given(q.business_key, r.business_key = q.business_key)
                   /\ Given(q.process_id, of(r).id = q.process_id)
                   /\ Given(q.element, \E t \in tokens(r.key) : t.elem = q.element)
                   /\ Given(q.from, r.at >= q.from)
                   /\ Given(q.to, r.at <= q.to)
                   /\ Given(q.state, r.state = q.state)
                   /\ q.types = {} \/ r.process_type \in q.types}
    IN  [rows |-> Page(Ordered(rows, "at", desc), offset, size), total |-> Cardinality(rows)]

ActiveMultiInstanceOf(db, t) ==
    {c \in db.process_instance :
        c.parent_token = t /\ c.process_type = "multi" /\ c.state = "active"}

\* Rows of a statistics query: the elements that have a token or an incident.
ElementCounts(tokens, incidents) ==
    {[elem |-> e,
      active |-> Cardinality({t \in tokens : t.elem = e}),
      incidents |-> Cardinality({i \in incidents : i.elem = e})] :
        e \in {r.elem : r \in tokens \cup incidents}}

GetElementStatisticsByProcessInstanceKey(db, k) ==
    LET relevant == {k} \cup {c.key : c \in UNION {ActiveMultiInstanceOf(db, t.key) :
                                          t \in {t \in db.execution_token : t.inst = k}}}
    IN  ElementCounts(
            {t \in db.execution_token : /\ t.inst \in relevant
                                        /\ t.state \in {"running", "waiting"}
                                        /\ ActiveMultiInstanceOf(db, t.key) = {}},
            {i \in db.incident : /\ i.inst \in relevant
                                 /\ i.resolved_at = Null
                                 /\ ActiveMultiInstanceOf(db, i.token) = {}})

-----------------------------------------------------------------------------
(* execution_token.sql.go *)

SaveToken(db, r) == [db EXCEPT !.execution_token = Upsert(@, r, {"state", "elem", "element_instance"})]

DeleteProcessInstancesTokens(db, keys) ==
    [db EXCEPT !.execution_token = {r \in @ : r.inst \notin keys}]

GetTokensInState(db, state) == {r \in db.execution_token : r.state = state}

GetTokensForProcessInstance(db, inst, states) ==
    {r \in db.execution_token : r.inst = inst /\ r.state \in states}

GetAllTokensForProcessInstance(db, inst) == {r \in db.execution_token : r.inst = inst}

GetTokens(db, keys) == {r \in db.execution_token : r.key \in keys}

-----------------------------------------------------------------------------
(* flow_element_instance.sql.go *)

SaveFlowElementInstance(db, r) ==
    [db EXCEPT !.flow_element_instance = Upsert(@, r, {"input"})]

\* (mutant) The conflict clause takes both columns from the parameters.
OverwritesInput(db, r) ==
    [db EXCEPT !.flow_element_instance = Upsert(@, [r EXCEPT !.input = ""], {"input", "output"})]

\* The parameter struct of UpdateOutputFlowElementInstanceWith leaves
\* InputVariables empty, which only an insert would store.
UpdateOutputFlowElementInstance(db, r) ==
    [db EXCEPT !.flow_element_instance = Upsert(@, [r EXCEPT !.input = ""], {"output"})]

DeleteFlowElementInstance(db, keys) ==
    [db EXCEPT !.flow_element_instance = {r \in @ : r.inst \notin keys}]

(* The history of an instance and of the instances its tokens started, call *)
(* activities excepted.  The join multiplies: a row of the instance itself  *)
(* comes once per token of the instance, so the result is a bag, here the   *)
(* set of pairs of a token and a row.                                       *)
FindFlowElementInstances(db, k) ==
    LET joins(t, f) == \E i \in db.process_instance :
                           /\ i.key = f.inst
                           /\ i.parent_token = t.key \/ i.key = k
                           /\ i.process_type # "call"
        tokens      == {t \in db.execution_token : t.inst = k}
    IN  UNION {{<<t.key, f.key>> : f \in {f \in db.flow_element_instance : joins(t, f)}} :
                  t \in tokens}

GetFlowElementInstances(db, inst, offset, limit) ==
    Page(Ordered({r \in db.flow_element_instance : r.inst = inst}, "key", FALSE), offset, limit)

GetFlowElementInstanceByKey(db, k) == {r \in db.flow_element_instance : r.key = k}

CountFlowElementInstances(db, inst) ==
    Cardinality({r \in db.flow_element_instance : r.inst = inst})

-----------------------------------------------------------------------------
(* job.sql.go *)

SaveJob(db, r) == [db EXCEPT !.job = Upsert(@, r, {"state", "variables", "assignee"})]

DeleteProcessInstancesJobs(db, keys) == [db EXCEPT !.job = {r \in @ : r.inst \notin keys}]

FindActiveJobsByType(db, type) == {r \in db.job : r.type = type /\ r.state = "active"}

FindJobByJobKey(db, k) == {r \in db.job : r.key = k}

FindProcessInstanceJobs(db, inst, offset, size) ==
    LET rows == {r \in db.job : r.inst = inst}
    IN  [rows |-> Page(Ordered(rows, "key", FALSE), offset, size), total |-> Cardinality(rows)]

FindProcessInstanceJobsInState(db, inst, states) ==
    {r \in db.job : r.inst = inst /\ r.state \in states}

GetWaitingJobs(db, types, skip, limit) ==
    Page(Ordered({r \in db.job : /\ r.state = "active"
                                 /\ r.type \in types
                                 /\ r.key \notin skip}, "at", FALSE), 0, limit)

GetJobsInStateByTokenKey(db, token, states) ==
    {r \in db.job : r.token = token /\ r.state \in states}

CountWaitingJobs(db) == Cardinality({r \in db.job : r.state = "active"})

FindJobs(db, q, desc, offset, size) ==
    LET rows == {r \in db.job : /\ Given(q.type, r.type = q.type)
                                /\ Given(q.state, r.state = q.state)
                                /\ Given(q.inst, r.inst = q.inst)
                                /\ Given(q.assignee, r.assignee = q.assignee)}
    IN  [rows |-> Page(Ordered(rows, "key", desc), offset, size), total |-> Cardinality(rows)]

-----------------------------------------------------------------------------
(* timer.sql.go *)

SaveTimer(db, r) == [db EXCEPT !.timer = Upsert(@, r, {"state"})]

DeleteProcessInstancesTimers(db, keys) == [db EXCEPT !.timer = {r \in @ : r.inst \notin keys}]

GetTimerByKey(db, k) == {r \in db.timer : r.key = k}

FindTokenTimers(db, token, state) == {r \in db.timer : r.token = token /\ r.state = state}

FindProcessInstanceTimersInState(db, inst, state) ==
    {r \in db.timer : r.inst = inst /\ r.state = state}

FindTimersInStateTillDueAt(db, due, state) == {r \in db.timer : r.due < due /\ r.state = state}

-----------------------------------------------------------------------------
(* message_subscription.sql.go and message_subscription_pointer.sql.go *)

SaveMessageSubscription(db, r) == [db EXCEPT !.message_subscription = Upsert(@, r, {"state"})]

DeleteProcessInstancesMessageSubscriptions(db, keys) ==
    [db EXCEPT !.message_subscription = {r \in @ : r.inst \notin keys}]

FindTokenMessageSubscriptions(db, token, state) ==
    {r \in db.message_subscription : r.token = token /\ r.state = state}

FindProcessInstanceMessageSubscriptions(db, inst, state) ==
    {r \in db.message_subscription : r.inst = inst /\ r.state = state}

FindMessageSubscriptionByNameAndCorrelationKeyAndState(db, name, corr, state) ==
    {r \in db.message_subscription : r.name = name /\ r.corr = corr /\ r.state = state}

GetMessageSubscriptionById(db, k, state) ==
    {r \in db.message_subscription : r.key = k /\ r.state = state}

\* The primary key is (name, correlation_key); every other column is overwritten.
SaveMessageSubscriptionPointer(db, p) ==
    [db EXCEPT !.message_subscription_pointer =
        {q \in @ : q.name # p.name \/ q.corr # p.corr} \cup {p}]

FindMessageSubscriptionPointer(db, name, corr, state) ==
    {p \in db.message_subscription_pointer : p.name = name /\ p.corr = corr /\ p.state = state}

-----------------------------------------------------------------------------
(* incident.sql.go *)

SaveIncident(db, r) == [db EXCEPT !.incident = Upsert(@, r, {"resolved_at"})]

DeleteProcessInstancesIncidents(db, keys) ==
    [db EXCEPT !.incident = {r \in @ : r.inst \notin keys}]

FindIncidentByKey(db, k) == {r \in db.incident : r.key = k}

FindIncidentsByProcessInstanceKey(db, inst) == {r \in db.incident : r.inst = inst}

FindIncidentsPageByProcessInstanceKey(db, inst, state, offset, size) ==
    LET rows == {r \in db.incident :
                   /\ r.inst = inst
                   /\ state = "resolved" => r.resolved_at # Null
                   /\ state = "unresolved" => r.resolved_at = Null}
    IN  [rows |-> Page(Ordered(rows, "key", FALSE), offset, size), total |-> Cardinality(rows)]

FindIncidentsByExecutionTokenKey(db, token) == {r \in db.incident : r.token = token}

-----------------------------------------------------------------------------
(* process_definition.sql.go *)

SaveProcessDefinition(db, r) == [db EXCEPT !.process_definition = @ \cup {r}]

FindProcessDefinitions(db, id, onlyLatest, desc, offset, size) ==
    LET named == {r \in db.process_definition : Given(id, r.id = id)}
        rows  == {r \in named : onlyLatest =>
                                  r \in Latest({q \in named : q.id = r.id})}
    IN  [rows |-> Page(Ordered(rows, "key", desc), offset, size), total |-> Cardinality(rows)]

FindProcessDefinitionByKey(db, k) == {r \in db.process_definition : r.key = k}

FindLatestProcessDefinitionById(db, id) ==
    Latest({r \in db.process_definition : r.id = id})

FindProcessDefinitionsById(db, id) ==
    Ordered({r \in db.process_definition : r.id = id}, "version", FALSE)

GetDefinitionKeyByChecksum(db, sum) ==
    {r.key : r \in {r \in db.process_definition : r.checksum = sum}}

GetElementStatisticsByProcessDefinitionKey(db, k) ==
    LET of(i) == \E p \in db.process_instance : p.key = i /\ p.def = k
    IN  ElementCounts(
            {t \in db.execution_token : /\ of(t.inst)
                                        /\ t.state \in {"running", "waiting"}
                                        /\ ActiveMultiInstanceOf(db, t.key) = {}},
            {i \in db.incident : of(i.inst) /\ i.resolved_at = Null})

FindProcessDefinitionStatistics(db, name, onlyLatest, ids, keys) ==
    LET defs == {d \in db.process_definition :
                   /\ Given(name, d.name = name)
                   /\ onlyLatest => d \in Latest({e \in db.process_definition : e.id = d.id})
                   /\ ids = {} \/ d.id \in ids
                   /\ keys = {} \/ d.key \in keys}
        of(d) == {i \in db.process_instance :
                    i.def = d.key /\ i.process_type \notin {"sub", "multi"}}
        in(d, s) == Cardinality({i \in of(d) : i.state = s})
    IN  {[key |-> d.key, total |-> Cardinality(of(d)),
          active |-> in(d, "active"), completed |-> in(d, "completed"),
          terminated |-> in(d, "terminated"), failed |-> in(d, "failed")] : d \in defs}

-----------------------------------------------------------------------------
(* dmn_resource_definition.sql.go, decision_definition.sql.go and            *)
(* decision_instance.sql.go                                                  *)

SaveDmnResourceDefinition(db, r) == [db EXCEPT !.dmn_resource_definition = @ \cup {r}]

FindDmnResourceDefinitionByKey(db, k) == {r \in db.dmn_resource_definition : r.key = k}

FindLatestDmnResourceDefinitionById(db, id) ==
    Latest({r \in db.dmn_resource_definition : r.id = id})

FindDmnResourceDefinitionsById(db, id) ==
    Ordered({r \in db.dmn_resource_definition : r.id = id}, "version", TRUE)

FindAllDmnResourceDefinitions(db, id, onlyLatest, desc, offset, size) ==
    LET all  == db.dmn_resource_definition
        rows == {r \in all : /\ Given(id, r.id = id)
                             /\ onlyLatest => r \in Latest({q \in all : q.id = r.id})}
    IN  [rows |-> Page(Ordered(rows, "version", desc), offset, size), total |-> Cardinality(rows)]

GetDmnResourceDefinitionKeyByChecksum(db, sum) ==
    {r.key : r \in {r \in db.dmn_resource_definition : r.checksum = sum}}

SaveDecisionDefinition(db, r) == [db EXCEPT !.decision_definition = @ \cup {r}]

FindDecisionDefinitionByIdAndDmnResourceDefinitionKey(db, id, drd) ==
    {r \in db.decision_definition : r.drd = drd /\ r.id = id}

FindLatestDecisionDefinitionById(db, id) ==
    Latest({r \in db.decision_definition : r.id = id})

FindLatestDecisionDefinitionByIdAndVersionTag(db, id, tag) ==
    Latest({r \in db.decision_definition : r.id = id /\ r.tag = tag})

FindLatestDecisionDefinitionByIdAndDmnResourceDefinitionId(db, id, drdId) ==
    Latest({r \in db.decision_definition : r.id = id /\ r.drd_id = drdId})

FindDecisionDefinitionsById(db, id) ==
    Ordered({r \in db.decision_definition : r.id = id}, "version", TRUE)

SaveDecisionInstance(db, r) == [db EXCEPT !.decision_instance = @ \cup {r}]

FindDecisionInstanceByKey(db, k) == {r \in db.decision_instance : r.key = k}

DeleteProcessInstancesDecisionInstances(db, keys) ==
    [db EXCEPT !.decision_instance = {r \in @ : r.inst = Null \/ r.inst \notin keys}]

FindDecisionInstancesPage(db, q, desc, offset, size) ==
    LET rows == {r \in db.decision_instance :
                   /\ Given(q.drd, r.drd = q.drd)
                   /\ Given(q.drd_id, \E d \in db.dmn_resource_definition :
                                        d.key = r.drd /\ d.id = q.drd_id)
                   /\ Given(q.inst, r.inst = q.inst)
                   /\ Given(q.from, r.at >= q.from)
                   /\ Given(q.to, r.at <= q.to)}
    IN  [rows |-> Page(Ordered(rows, "at", desc), offset, size), total |-> Cardinality(rows)]
=============================================================================
