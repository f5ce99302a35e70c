------------------------------- MODULE ZenNode -------------------------------
(***************************************************************************)
(* internal/cluster/node.go: how a call that reaches any node finds the    *)
(* node that serves it (internal/cluster/state/state.go and                *)
(* internal/cluster/client), and what comes back.                          *)
(*                                                                         *)
(* Where Go's iteration over a map decides, every choice is possible: a    *)
(* call is the set of its possible results.                                *)
(***************************************************************************)
EXTENDS Integers, Sequences, FiniteSets

CONSTANTS Null, KeySpace

S == INSTANCE ZenServer

Nodes(c)      == DOMAIN c.copy
Partitions(c) == DOMAIN c.leader

-----------------------------------------------------------------------------
(* state.go and client_manager.go *)

\* An unknown partition has no leader either.
PartitionLeader(c, p) == IF p \in Partitions(c) THEN c.leader[p] ELSE Null

\* The sum of the characters of the string, here a number.
GetPartitionIdFromString(c, s) == (s % Cardinality(Partitions(c))) + 1

\* (mutant) Any member will do, hosting the partition or not.
AnyNodeFollows(c, p) == Nodes(c)

\* The nodes that may serve a read.  A partition with neither follower nor
\* leader gives the zero Node, whose address no call gets through to.
GetPartitionFollower(c, p) ==
    LET followers == {n \in Nodes(c) : p \in S!Hosts(c, n) /\ c.leader[p] # n}
    IN  IF followers # {} THEN followers ELSE {c.leader[p]}

\* Members that lead something, with the fewest partitions.
GetLeastStressedPartitionLeader(c) ==
    LET leaders == {n \in Nodes(c) : \E p \in S!Hosts(c, n) : c.leader[p] = n}
    IN  {n \in leaders : \A m \in leaders :
            Cardinality(S!Hosts(c, n)) <= Cardinality(S!Hosts(c, m))}

\* A read of partition p that serve(m) answers on a follower m.
OnFollower(c, p, serve(_)) ==
    IF p \notin Partitions(c) THEN {S!Err("cluster")}
    ELSE {IF m = Null THEN S!Err("technical") ELSE serve(m) : m \in GetPartitionFollower(c, p)}

\* A write that the leader of the partition p serves.
OnLeader(c, p, serve(_)) ==
    IF PartitionLeader(c, p) = Null THEN S!Err("cluster") ELSE serve(c.leader[p])

\* The same read of every partition: one error is the error of all of it.
OnEveryPartition(c, serve(_, _)) ==
    LET answers == [p \in Partitions(c) |-> OnFollower(c, p, LAMBDA m : serve(m, p))]
        picks   == {f \in [Partitions(c) -> UNION {answers[p] : p \in Partitions(c)}] :
                      \A p \in Partitions(c) : f[p] \in answers[p]}
    IN  UNION {LET bad == {p \in Partitions(c) : f[p].code # "ok"}
               IN  IF bad = {} THEN {S!Ok([p \in Partitions(c) |-> f[p].val])}
                   ELSE {f[p] : p \in bad} : f \in picks}

-----------------------------------------------------------------------------
(* Definitions: every partition should have the same, so any will do *)

OnAnyDB(c, n, read(_)) ==
    IF S!Hosts(c, n) = {} THEN {S!Err("technical")}
    ELSE {read(db) : db \in S!GetReadOnlyDB(c, n)}

GetDmnResourceDefinitions(c, n, id, onlyLatest, desc, page, size) ==
    OnAnyDB(c, n, LAMBDA db : S!Ok(S!Paged(S!Q!FindAllDmnResourceDefinitions(
                    db, id, onlyLatest, desc, S!Offset(page, size), size))))

GetDmnResourceDefinition(c, n, k) ==
    OnAnyDB(c, n, LAMBDA db : S!One(S!Q!FindDmnResourceDefinitionByKey(db, k)))

GetProcessDefinitions(c, n, id, onlyLatest, desc, page, size) ==
    OnAnyDB(c, n, LAMBDA db : S!Ok(S!Paged(S!Q!FindProcessDefinitions(
                    db, id, onlyLatest, desc, S!Offset(page, size), size))))

GetProcessDefinition(c, n, k) ==
    OnAnyDB(c, n, LAMBDA db : S!One(S!Q!FindProcessDefinitionByKey(db, k)))

GetDefinitionKeyByBytes(c, n, sum) ==
    OnAnyDB(c, n, LAMBDA db : S!Ok(S!Q!GetDefinitionKeyByChecksum(db, sum)))

getDmnResourceDefinitionKeyByBytes(c, n, sum) ==
    OnAnyDB(c, n, LAMBDA db : S!Ok(S!Q!GetDmnResourceDefinitionKeyByChecksum(db, sum)))

\* The duplicate check of a deployment: Ok to go on, with the leaders that the
\* cluster state names now, or the conflict.
Deployable(c, lookups) ==
    {IF r.code # "ok" THEN S!Err("technical")
     ELSE IF r.val # {} THEN S!Err("conflict") ELSE S!Ok(c.leader) : r \in lookups}

DeployProcessDefinitionToAllPartitions(c, n, sum) ==
    Deployable(c, GetDefinitionKeyByBytes(c, n, sum))

DeployDmnResourceDefinitionToAllPartitions(c, n, sum) ==
    Deployable(c, getDmnResourceDefinitionKeyByBytes(c, n, sum))

\* The call to one leader; Null is a node that no call gets through to.
deployProcessDefinitionToPartition(c, m) ==
    IF m = Null THEN S!Err("technical") ELSE S!DeployProcessDefinition(c, m)

deployDmnResourceDefinitionToPartition(c, m) ==
    IF m = Null THEN S!Err("technical") ELSE S!DeployDmnResourceDefinition(c, m)

-----------------------------------------------------------------------------
(* Reads by key *)

GetProcessInstance(c, k) ==
    OnFollower(c, S!GetPartitionId(k), LAMBDA m : S!GetProcessInstance(c, m, k))

GetJob(c, k) == OnFollower(c, S!GetPartitionId(k), LAMBDA m : S!GetJob(c, m, k))

GetDecisionInstance(c, k) ==
    OnFollower(c, S!GetPartitionId(k), LAMBDA m : S!GetDecisionInstance(c, m, k))

GetChildProcessInstances(c, k, state, desc, page, size) ==
    OnFollower(c, S!GetPartitionId(k),
               LAMBDA m : S!GetChildProcessInstances(c, m, k, state, desc, page, size))

GetProcessInstanceJobs(c, k, page, size) ==
    OnFollower(c, S!GetPartitionId(k), LAMBDA m : S!GetProcessInstanceJobs(c, m, k, page, size))

GetFlowElementHistory(c, k) ==
    OnFollower(c, S!GetPartitionId(k), LAMBDA m : S!GetFlowElementHistory(c, m, k))

GetIncidents(c, k, state, page, size) ==
    OnFollower(c, S!GetPartitionId(k), LAMBDA m : S!GetIncidents(c, m, k, state, page, size))

-----------------------------------------------------------------------------
(* Reads of all partitions *)

getProcessInstancesForPartition(c, m, p, q, children, desc, page, size) ==
    S!GetProcessInstances(c, m, p, q, children, desc, page, size)

GetProcessInstances(c, q, children, desc, page, size) ==
    OnEveryPartition(c, LAMBDA m, p :
        getProcessInstancesForPartition(c, m, p, q, children, desc, page, size))

getJobsForPartition(c, m, p, q, desc, page, size) == S!GetJobs(c, m, p, q, desc, page, size)

GetJobs(c, q, desc, page, size) ==
    OnEveryPartition(c, LAMBDA m, p : getJobsForPartition(c, m, p, q, desc, page, size))

getDecisionInstancesForPartition(c, m, p, q, desc, page, size) ==
    S!GetDecisionInstances(c, m, p, q, desc, page, size)

GetDecisionInstances(c, q, desc, page, size) ==
    OnEveryPartition(c, LAMBDA m, p : getDecisionInstancesForPartition(c, m, p, q, desc, page, size))

getProcessDefinitionElementStatisticsForPartition(c, m, p, k) ==
    S!GetProcessDefinitionElementStatistics(c, m, p, k)

GetProcessDefinitionElementStatistics(c, k) ==
    OnEveryPartition(c, LAMBDA m, p : getProcessDefinitionElementStatisticsForPartition(c, m, p, k))

getProcessInstanceElementStatisticsForPartition(c, m, p, k) ==
    S!GetProcessInstanceElementStatistics(c, m, p, k)

GetProcessInstanceElementStatistics(c, k) ==
    OnEveryPartition(c, LAMBDA m, p : getProcessInstanceElementStatisticsForPartition(c, m, p, k))

getProcessDefinitionStatisticsForPartition(c, m, p, name, onlyLatest, ids, keys) ==
    S!GetProcessDefinitionStatistics(c, m, p, name, onlyLatest, ids, keys)

GetProcessDefinitionStatistics(c, name, onlyLatest, ids, keys) ==
    OnEveryPartition(c, LAMBDA m, p :
        getProcessDefinitionStatisticsForPartition(c, m, p, name, onlyLatest, ids, keys))

-----------------------------------------------------------------------------
(* Writes by key, with what the engine answers *)

CompleteJob(c, k, eng) ==
    OnLeader(c, S!GetPartitionId(k), LAMBDA m : S!CompleteJob(c, m, k, eng))

\* The call of a worker, through the job client of its node.
failJob(c, k, eng) == OnLeader(c, S!GetPartitionId(k), LAMBDA m : S!FailJob(c, m, k, eng))

AssignJob(c, k, eng) ==
    OnLeader(c, S!GetPartitionId(k), LAMBDA m : S!AssignJobToAssignee(c, m, k, eng))

ResolveIncident(c, k, eng) ==
    OnLeader(c, S!GetPartitionId(k), LAMBDA m : S!ResolveIncident(c, m, k, eng))

ModifyProcessInstance(c, k, eng) ==
    OnLeader(c, S!GetPartitionId(k), LAMBDA m : S!ModifyProcessInstance(c, m, k, eng))

UpdateProcessInstanceVariables(c, k, eng) == ModifyProcessInstance(c, k, eng)

DeleteProcessInstanceVariable(c, k, eng) ==
    OnLeader(c, S!GetPartitionId(k), LAMBDA m : S!DeleteProcessInstanceVariable(c, m, k, eng))

CancelProcessInstance(c, k, eng) ==
    OnLeader(c, S!GetPartitionId(k), LAMBDA m : S!CancelProcessInstance(c, m, k, eng))

\* The pointer is read from the node's own replica of the correlation key's
\* home, which the node must host; then its subscription's leader is called.
PublishMessage(c, n, name, corr, home, eng) ==
    LET pointers == S!Q!FindMessageSubscriptionPointer(c.copy[n][home], name, corr, "active")
    IN  IF home \notin S!Hosts(c, n) THEN S!Err("technical")
        ELSE IF pointers = {} THEN S!Err("notfound")
        ELSE LET k == (CHOOSE x \in pointers : TRUE).key
             IN  OnLeader(c, S!GetPartitionId(k), LAMBDA m : S!PublishMessage(c, m, k, eng))

-----------------------------------------------------------------------------
(* Calls that any leader may serve *)

OnLeastStressed(c, serve(_)) ==
    LET nodes == GetLeastStressedPartitionLeader(c)
    IN  IF nodes = {} THEN {S!Err("cluster")} ELSE UNION {serve(m) : m \in nodes}

CreateInstance(c, def) == OnLeastStressed(c, LAMBDA m : S!CreateInstance(c, m, def))

StartProcessInstanceOnElements(c, def, eng) ==
    OnLeastStressed(c, LAMBDA m : S!StartProcessInstanceOnElements(c, m, def, eng))

EvaluateDecision(c, id) == OnLeastStressed(c, LAMBDA m : S!EvaluateDecision(c, m, id))
=============================================================================
