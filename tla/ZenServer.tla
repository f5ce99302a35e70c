------------------------------ MODULE ZenServer ------------------------------
(***************************************************************************)
(* The handlers of internal/cluster/server/server.go, which serve the      *)
(* cluster's RPCs on one node, and the lookups of the controller they go   *)
(* through.                                                                *)
(*                                                                         *)
(* A handler is a function of the cluster c as it is when the handler      *)
(* runs and of the node n that serves:                                     *)
(*   c.leader[p]   the node the cluster state names as leader, or Null     *)
(*   c.raft[p]     the node that leads the raft group of the partition     *)
(*   c.engine      the pairs of a node and a partition with an engine      *)
(*   c.copy[n][p]  the node's replica of the partition's database; a node  *)
(*                 hosts the partitions in DOMAIN c.copy[n]                *)
(* Its result is Ok of what the response carries, or Err of the code of    *)
(* its ErrorResult (zenerr.ZenErrorCode).                                  *)
(***************************************************************************)
EXTENDS Integers, Sequences

CONSTANTS Null,
          KeySpace   \* the number of keys that a partition has

Q == INSTANCE SqlQueries

Ok(v)   == [code |-> "ok", val |-> v]
Err(co) == [code |-> co, val |-> Null]

\* The partition is a field of the bits of every key that an engine generates.
GetPartitionId(k) == k \div KeySpace

-----------------------------------------------------------------------------
(* The controller *)

Hosts(c, n) == DOMAIN c.copy[n]

PartitionEngine(c, n, p) == <<n, p>> \in c.engine

Engines(c, n) == {p \in Hosts(c, n) : PartitionEngine(c, n, p)}

\* Any partition of the node for which it is a follower, else any one.
GetReadOnlyDB(c, n) ==
    LET followed == {p \in Hosts(c, n) : c.raft[p] # n}
    IN  {c.copy[n][p] : p \in IF followed # {} THEN followed ELSE Hosts(c, n)}

\* PartitionQueries is nil for a partition the node does not host.
HasQueries(c, n, p) == p \in Hosts(c, n)

-----------------------------------------------------------------------------
(* Results *)

\* A :one query, with isErrNotFound.
One(rows) == IF rows = {} THEN Err("notfound") ELSE Ok(CHOOSE r \in rows : TRUE)

\* The total is a column of the rows: an empty page has none and reports 0.
Paged(page) ==
    [rows |-> page.rows, total |-> IF page.rows = <<>> THEN 0 ELSE page.total]

Offset(page, size) == size * (page - 1)

-----------------------------------------------------------------------------
(* Reads by key *)

(* The only read that asks for the engine of the partition. *)
GetProcessInstance(c, n, k) ==
    LET p    == GetPartitionId(k)
        db   == c.copy[n][p]
        inst == One(Q!GetProcessInstance(db, k))
    IN  IF ~PartitionEngine(c, n, p) THEN Err("technical")
        ELSE IF inst.code # "ok" THEN inst
        ELSE Ok([inst |-> inst.val,
                 tokens |-> Q!GetTokensForProcessInstance(db, k, {"waiting", "running", "failed"})])

GetDecisionInstance(c, n, k) ==
    LET p == GetPartitionId(k)
    IN  IF HasQueries(c, n, p) THEN One(Q!FindDecisionInstanceByKey(c.copy[n][p], k))
        ELSE Err("technical")

GetJob(c, n, k) ==
    LET p == GetPartitionId(k)
    IN  IF HasQueries(c, n, p) THEN One(Q!FindJobByJobKey(c.copy[n][p], k)) ELSE Err("technical")

(* Lists that belong to an instance: an unknown instance has an empty one. *)

GetProcessInstanceJobs(c, n, k, page, size) ==
    LET p == GetPartitionId(k)
    IN  IF HasQueries(c, n, p)
        THEN Ok(Paged(Q!FindProcessInstanceJobs(c.copy[n][p], k, Offset(page, size), size)))
        ELSE Err("technical")

\* A row comes once per token of the instance (see FindFlowElementInstances).
GetFlowElementHistory(c, n, k) ==
    LET p == GetPartitionId(k)
    IN  IF HasQueries(c, n, p) THEN Ok(Q!FindFlowElementInstances(c.copy[n][p], k))
        ELSE Err("technical")

GetIncidents(c, n, k, state, page, size) ==
    LET p == GetPartitionId(k)
    IN  IF HasQueries(c, n, p)
        THEN Ok(Paged(Q!FindIncidentsPageByProcessInstanceKey(
                          c.copy[n][p], k, state, Offset(page, size), size)))
        ELSE Err("technical")

\* The instance that a row's parent token belongs to; a token that is gone
\* gives the zero key.
ParentOf(db, r) ==
    IF r.parent_token = Null THEN Null
    ELSE IF Q!GetTokens(db, {r.parent_token}) = {} THEN 0
    ELSE (CHOOSE t \in Q!GetTokens(db, {r.parent_token}) : TRUE).inst

WithParents(db, page) ==
    [page EXCEPT !.rows = [i \in DOMAIN @ |-> [inst |-> @[i], parent |-> ParentOf(db, @[i])]]]

GetChildProcessInstances(c, n, k, state, desc, page, size) ==
    LET p  == GetPartitionId(k)
        db == c.copy[n][p]
        q  == [def |-> Null, parent |-> k, business_key |-> Null, process_id |-> Null,
               element |-> Null, from |-> Null, to |-> Null, state |-> state,
               types |-> {"multi", "call", "sub"}]
    IN  IF HasQueries(c, n, p)
        THEN Ok(WithParents(db, Paged(
                 Q!FindProcessInstancesPage(db, q, desc, Offset(page, size), size))))
        ELSE Err("technical")

-----------------------------------------------------------------------------
(* Reads of one partition, asked of every partition by the caller *)

\* Children other than those of call activities are shown only on request.
GetProcessInstances(c, n, p, q, children, desc, page, size) ==
    LET db    == c.copy[n][p]
        types == IF children THEN {"call", "multi", "default", "sub"} ELSE {"default", "call"}
        asked == [x \in DOMAIN q \cup {"types"} |-> IF x = "types" THEN types ELSE q[x]]
    IN  IF HasQueries(c, n, p)
        THEN Ok(WithParents(db, Paged(
                 Q!FindProcessInstancesPage(db, asked, desc, Offset(page, size), size))))
        ELSE Err("technical")

GetDecisionInstances(c, n, p, q, desc, page, size) ==
    IF HasQueries(c, n, p)
    THEN Ok(Paged(Q!FindDecisionInstancesPage(c.copy[n][p], q, desc, Offset(page, size), size)))
    ELSE Err("technical")

GetJobs(c, n, p, q, desc, page, size) ==
    IF HasQueries(c, n, p)
    THEN Ok(Paged(Q!FindJobs(c.copy[n][p], q, desc, Offset(page, size), size)))
    ELSE Err("technical")

GetProcessDefinitionElementStatistics(c, n, p, k) ==
    IF HasQueries(c, n, p)
    THEN Ok(Q!GetElementStatisticsByProcessDefinitionKey(c.copy[n][p], k))
    ELSE Err("technical")

GetProcessInstanceElementStatistics(c, n, p, k) ==
    IF HasQueries(c, n, p)
    THEN Ok(Q!GetElementStatisticsByProcessInstanceKey(c.copy[n][p], k))
    ELSE Err("technical")

GetProcessDefinitionStatistics(c, n, p, name, onlyLatest, ids, keys) ==
    IF HasQueries(c, n, p)
    THEN Ok(Q!FindProcessDefinitionStatistics(c.copy[n][p], name, onlyLatest, ids, keys))
    ELSE Err("technical")

-----------------------------------------------------------------------------
(* Message subscriptions *)

\* The subscriptions are found by the token of the old pointer.
FindActiveMessage(c, n, name, corr, token) ==
    LET p == GetPartitionId(token)
    IN  IF ~HasQueries(c, n, p) THEN Err("technical")
        ELSE One({s \in Q!FindTokenMessageSubscriptions(c.copy[n][p], token, "active") :
                    s.name = name /\ s.corr = corr})

\* (mutant) Whoever hosts the partition accepts the pointer.
AnyHostAccepts(c, n, p, home) ==
    IF HasQueries(c, n, p) /\ p = home THEN Ok(n) ELSE Err("technical")

\* The pointer is written if the node leads the partition p that the caller
\* asks for, and p is the home of the correlation key.  Whether an active
\* subscription holds the pointer is not looked at.
SetMessageSubscriptionPointer(c, n, p, home) ==
    IF HasQueries(c, n, p) /\ p = home /\ c.raft[p] = n THEN Ok(n) ELSE Err("technical")

-----------------------------------------------------------------------------
(* Writes: the engine that does the work, and what comes before it.  What   *)
(* the engine itself answers is the caller's eng: ok, notfound, invalid     *)
(* (bpmn.InvalidStateError) or another error.                               *)

ByEngine(c, n, k, eng) ==
    IF ~PartitionEngine(c, n, GetPartitionId(k)) THEN Err("technical")
    ELSE IF eng \in {"ok", "notfound"} THEN [code |-> eng, val |-> Null]
    ELSE Err("technical")

(* The node hands the jobs of the job manager to the engine. *)

JobCompleteByKey(c, n, k, eng) == ByEngine(c, n, k, eng)

JobFailByKey(c, n, k, eng) == ByEngine(c, n, k, eng)

CompleteJob(c, n, k, eng) == JobCompleteByKey(c, n, k, eng)

\* Only a worker fails a job; an error is one of the RPC, without a code.
FailJob(c, n, k, eng) ==
    IF JobFailByKey(c, n, k, eng).code = "ok" THEN Ok(Null) ELSE Err("unknown")

AssignJobToAssignee(c, n, k, eng) == ByEngine(c, n, k, eng)

ModifyProcessInstance(c, n, k, eng) == ByEngine(c, n, k, eng)

DeleteProcessInstanceVariable(c, n, k, eng) == ByEngine(c, n, k, eng)

CancelProcessInstance(c, n, k, eng) ==
    IF PartitionEngine(c, n, GetPartitionId(k)) /\ eng = "invalid" THEN Err("conflict")
    ELSE ByEngine(c, n, k, eng)

ResolveIncident(c, n, k, eng) == ByEngine(c, n, k, eng)

PublishMessage(c, n, k, eng) == ByEngine(c, n, k, eng)

GetRandomEngine(c, n) == Engines(c, n)

\* One of the node's engines starts the instance: the partitions it may be in,
\* or the error.  An instance that fails on its way is still a success.
CreateInstance(c, n, def) ==
    {IF Q!FindProcessDefinitionByKey(c.copy[n][p], def) = {} THEN Err("notfound") ELSE Ok(p) :
        p \in GetRandomEngine(c, n)}
    \cup IF GetRandomEngine(c, n) = {} THEN {Err("technical")} ELSE {}

StartProcessInstanceOnElements(c, n, def, eng) ==
    {IF Q!FindProcessDefinitionByKey(c.copy[n][p], def) = {} THEN Err("notfound")
     ELSE IF eng = "ok" THEN Ok(p) ELSE Err("technical") : p \in GetRandomEngine(c, n)}
    \cup IF GetRandomEngine(c, n) = {} THEN {Err("technical")} ELSE {}

EvaluateDecision(c, n, id) ==
    {IF Q!FindLatestDecisionDefinitionById(c.copy[n][p], id) = {} THEN Err("notfound") ELSE Ok(p) :
        p \in GetRandomEngine(c, n)}
    \cup IF GetRandomEngine(c, n) = {} THEN {Err("technical")} ELSE {}

-----------------------------------------------------------------------------
(* Deployment: the engines that the handler goes through, one after the     *)
(* other, and whether it may start.                                         *)

\* Without an engine there is nothing to do, and nothing to complain about.
DeployProcessDefinition(c, n) == Ok(Engines(c, n))

DeployDmnResourceDefinition(c, n) ==
    IF Engines(c, n) = {} THEN Err("technical") ELSE Ok(Engines(c, n))
=============================================================================
