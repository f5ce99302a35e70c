---------------------------- MODULE ClusterCalls ----------------------------
(***************************************************************************)
(* Calls of REST clients on a cluster whose partitions change leaders:     *)
(* how they are routed (RestServer, ZenNode, ZenServer), what the engine   *)
(* of the partition reads and writes, and what two engines of the same     *)
(* partition, or writes to two partitions, do to each other.               *)
(*                                                                         *)
(* raft[p] is the raft leader of the group of partition p, leader[p] what  *)
(* the cluster state says, engine the pairs <<n, p>> of a node and a       *)
(* partition it once created an engine for (it is never stopped when the   *)
(* leadership goes), copy[n][p] the replica on node n.  Every query reads  *)
(* the node's own replica (level NONE), every statement needs the raft     *)
(* leader.                                                                 *)
(*                                                                         *)
(* calls are the engine calls under way, deploys the deployments.  A call  *)
(* has read its rows and holds the lock of its instance on its node        *)
(* (b.locked); what is left is its pc: "pointer" (the pre-flush action of  *)
(* a message subscription), "flush", "run" (RunProcessInstance, for then)  *)
(* or "vars" (the second half of a REST handler).                          *)
(*                                                                         *)
(* The process of an instance is one task or message catch event (element  *)
(* 1) and an end event (element 2).  The engine's own machinery is in      *)
(* ProcessEngine; here it is what one call writes.                         *)
(***************************************************************************)
EXTENDS Integers, Sequences, FiniteSets, SequencesExt, FiniteSetsExt

CONSTANTS Null,
          KeySpace,      \* the number of keys that a partition has
          Node,          \* numbers of the nodes
          Partition,     \* 1..n
          Scenarios,     \* what clients do, see below
          MaxCalls,      \* bound of the engine calls under way
          MaxLost        \* bound of the deployment calls that fail on the way

(***************************************************************************)
(* A scenario: does, the calls that clients make; hosts, the partitions of *)
(* a node; defs and corrs, the definitions they start and the correlation  *)
(* keys they use; and the bounds elections (changes of raft leaders),      *)
(* insts (instances) and deploys (deployments).                            *)
(***************************************************************************)
ASSUME ClusterCallsAssumption ==
    /\ Null \notin Nat
    /\ \A s \in Scenarios : s.hosts \in [Node -> SUBSET Partition]

R == INSTANCE RestServer
P == INSTANCE PartitionPersistence

\* The keys of the instances that a partition gets are in its part of the key space.
ASSUME KeysFit ==
    /\ IsFiniteSet(Partition) /\ Partition \subseteq Nat /\ KeySpace \in Nat
    /\ \A s \in Scenarios : s.insts \in Nat /\ 20 * (s.insts + 1) <= KeySpace

VARIABLES scenario,   \* a member of Scenarios
          copy, raft, leader, engine, calls, deploys,
          elections,  \* number of changes of the raft leader of a partition
          contested,  \* correlation keys that two instances use at once
          torn,       \* correlation keys of flushes that failed after their pointer was saved
          skipped     \* deployments that a leader without an engine accepted

vars == <<scenario, copy, raft, leader, engine, calls, deploys, elections, contested, torn, skipped>>

placement == <<scenario, raft, leader, engine, elections>>

C == [leader |-> leader, raft |-> raft, engine |-> engine, copy |-> copy]

Does(what) == what \in scenario.does

Hosting(n) == scenario.hosts[n]

\* The replica that counts.
DB(p) == copy[raft[p]][p]

-----------------------------------------------------------------------------
(* Rows *)

JobProcess     == 1
MessageProcess == 2

ProcessId(k) == IF k = JobProcess THEN "job" ELSE "message"

Definition(k) == [key |-> k, version |-> 1, id |-> ProcessId(k), name |-> ProcessId(k), checksum |-> k]

DmnResource == [key |-> 3, version |-> 1, id |-> "r", checksum |-> 3]

Decision(p) == [key |-> KeySpace * p + 99, version |-> 1, id |-> "d", tag |-> Null,
                drd_id |-> "r", drd |-> 3]

Deployed(p) ==
    P!Run(P!Q!EmptyDB,
          P!SaveProcessDefinitionWith(Definition(JobProcess))
          \o P!SaveProcessDefinitionWith(Definition(MessageProcess))
          \o P!SaveDmnResourceDefinitionWith(DmnResource)
          \o P!SaveDecisionDefinitionWith(Decision(p)))

Instance(i, def, corr) ==
    [key |-> i, def |-> def, state |-> "ready", variables |-> {"a"}, business_key |-> corr,
     parent_token |-> Null, process_type |-> "default",
     history_ttl_sec |-> Null, history_delete_sec |-> Null, at |-> i]

TokenKey(i) == i + 1

Token(i) == [key |-> TokenKey(i), inst |-> i, elem |-> 1, element_instance |-> i, state |-> "running"]

\* Keys that node n generates for rows of instance i.
WaitKey(db, n, i) == i + 2 + n + 2 * Cardinality(P!Q!FindIncidentsByProcessInstanceKey(db, i))
IncidentKey(db, n, i) == i + 7 + n + 2 * Cardinality(P!Q!FindIncidentsByProcessInstanceKey(db, i))
FlowElementKey(k) == k + 10

Job(k, i) ==
    [key |-> k, inst |-> i, token |-> TokenKey(i), elem |-> 1, type |-> "t", state |-> "active",
     variables |-> {}, assignee |-> Null]

Subscription(k, i, corr) ==
    [key |-> k, inst |-> i, token |-> TokenKey(i), elem |-> 1, def |-> MessageProcess,
     state |-> "active", name |-> "m", corr |-> corr]

FlowElement(k, i, e) == [key |-> FlowElementKey(k), inst |-> i, elem |-> e, token |-> TokenKey(i),
                         input |-> "in", output |-> "none"]

PointerTo(s) == [name |-> s.name, corr |-> s.corr, state |-> s.state, key |-> s.key, token |-> s.token]

Incident(db, n, i) == [key |-> IncidentKey(db, n, i), inst |-> i, token |-> TokenKey(i), elem |-> 1,
                       resolved_at |-> Null]

-----------------------------------------------------------------------------
(* Init *)

Init ==
    /\ scenario \in Scenarios
    /\ copy = [n \in Node |-> [p \in Hosting(n) |-> Deployed(p)]]
    /\ raft \in {f \in [Partition -> Node] : \A p \in Partition : p \in Hosting(f[p])}
    /\ leader = raft
    /\ engine = {<<raft[p], p>> : p \in Partition}
    /\ calls = {}
    /\ deploys = <<>>
    /\ elections = [p \in Partition |-> 0]
    /\ contested = {} /\ torn = {} /\ skipped = {}

-----------------------------------------------------------------------------
(* Raft and the controller (see ClusterState) *)

\* The new leader has every entry that was committed.
Elect(p, n) ==
    /\ MapThenSumSet(LAMBDA q : elections[q], Partition) < scenario.elections
    /\ p \in Hosting(n) /\ n # raft[p]
    /\ raft' = [raft EXCEPT ![p] = n]
    /\ copy' = [copy EXCEPT ![n][p] = DB(p)]
    /\ elections' = [elections EXCEPT ![p] = @ + 1]
    /\ UNCHANGED <<scenario, leader, engine, calls, deploys, contested, torn, skipped>>

Replicate(n, p) ==
    /\ p \in Hosting(n) /\ copy[n][p] # DB(p)
    /\ copy' = [copy EXCEPT ![n][p] = DB(p)]
    /\ UNCHANGED <<placement, calls, deploys, contested, torn, skipped>>

Announce(p) ==
    /\ leader[p] # raft[p]
    /\ leader' = [leader EXCEPT ![p] = raft[p]]
    /\ UNCHANGED <<scenario, copy, raft, engine, calls, deploys, elections, contested, torn, skipped>>

-----------------------------------------------------------------------------
(* Engine calls *)

Call(n, i, pc) ==
    [node |-> n, part |-> R!N!S!GetPartitionId(i), inst |-> i, pc |-> pc, term |-> elections[R!N!S!GetPartitionId(i)],
     from |-> "call", locked |-> pc \in {"pointer", "flush"}, then |-> "none",
     ptr |-> Null, stmts |-> <<>>]

Locked(n, i) == \E b \in calls : b.node = n /\ b.inst = i /\ b.locked

\* A call with rows to save; saving a subscription adds the pre-flush action.
Batch(n, i, rows, then) ==
    LET subs == {s \in Range(rows) : s.q = "SaveMessageSubscription"}
    IN  [Call(n, i, IF subs = {} THEN "flush" ELSE "pointer") EXCEPT
            !.stmts = rows, !.then = then,
            !.ptr = IF subs = {} THEN Null ELSE PointerTo((CHOOSE s \in subs : TRUE).row)]

\* The engine that serves instance i: on the node the cluster state names, from
\* its own replica.
Server(i)  == leader[R!N!S!GetPartitionId(i)]
Replica(i) == copy[Server(i)][R!N!S!GetPartitionId(i)]

TheInstance(db, i) == CHOOSE r \in P!Q!GetProcessInstance(db, i) : TRUE
TheToken(db, i)    == CHOOSE t \in P!Q!GetAllTokensForProcessInstance(db, i) : TRUE

SaveInstance(db, i, s) == P!Stmt("SaveProcessInstance", [TheInstance(db, i) EXCEPT !.state = s])
SaveTokenAs(db, i, s, e) == P!Stmt("SaveToken", [TheToken(db, i) EXCEPT !.state = s, !.elem = e])

Begin(b) ==
    /\ Cardinality(calls) < MaxCalls
    /\ ~(b.locked /\ Locked(b.node, b.inst))
    /\ calls' = calls \cup {b}
    /\ UNCHANGED <<placement, copy, deploys, contested, torn, skipped>>

\* (mutant) The lock only.
LocksOnly(db, i) == P!Q!GetProcessInstance(db, i) # {}

\* NewEngineBatch: the lock, and the state of the instance behind it.
NewEngineBatch(db, i) ==
    \E r \in P!Q!GetProcessInstance(db, i) : r.state \notin {"completed", "terminated"}

\* The row that a reader returns, without the token it attaches.
Row(q) == [f \in DOMAIN q \ {"tok"} |-> q[f]]

\* A job that may still be completed or failed, as the serving engine reads it.
OpenJobs(k) ==
    {j \in {Row(q) : q \in P!FindJobByJobKey(Replica(k), k) \ {P!Error}} :
        /\ j.state \notin {"completed", "terminated", "failed"}
        /\ NewEngineBatch(Replica(k), j.inst)}

CompleteJob(k) ==
    LET db == Replica(k)
    IN  /\ Does("complete")
        /\ R!CompleteJob(C, k, "ok").status = 201
        /\ \E j \in OpenJobs(k) :
             Begin(Batch(Server(k), j.inst,
                <<P!Stmt("UpdateOutputFlowElementInstance", FlowElement(k, j.inst, 1)),
                  SaveTokenAs(db, j.inst, "running", 2),
                  P!Stmt("SaveJob", [j EXCEPT !.state = "completed"])>>, "run"))

FailJob(k) ==
    LET db == Replica(k)
    IN  /\ Does("fail")
        /\ R!N!failJob(C, k, "ok").code = "ok"
        /\ \E j \in OpenJobs(k) :
             /\ P!Q!FindIncidentsByProcessInstanceKey(db, j.inst) = {}   \* bound
             /\ Begin(Batch(Server(k), j.inst,
                   <<P!Stmt("SaveJob", [j EXCEPT !.state = "failed"]),
                     SaveTokenAs(db, j.inst, "failed", 1),
                     SaveInstance(db, j.inst, "failed"),
                     P!Stmt("SaveIncident", Incident(db, Server(k), j.inst))>>, "none"))

(* Without the instance's lock.  The job that was read is saved whole. *)
AssignJob(k) ==
    /\ Does("assign")
    /\ R!AssignJob(C, k, "ok").status = 204
    /\ \E j \in {Row(q) : q \in P!FindJobByJobKey(Replica(k), k) \ {P!Error}} :
         Begin([Batch(Server(k), j.inst, <<P!Stmt("SaveJob", [j EXCEPT !.assignee = "user"])>>, "none")
                  EXCEPT !.locked = FALSE])

ResolveIncident(k) ==
    LET db == Replica(k)
    IN  /\ Does("resolve")
        /\ R!ResolveIncident(C, k, "ok").status = 201
        /\ \E x \in P!FindIncidentByKey(db, k) \ {P!Error} :
             LET jobs == {Row(q) : q \in P!FindPendingProcessInstanceJobs(db, x.inst)}
             IN  /\ x.resolved_at = Null
                 /\ Cardinality(P!Q!FindIncidentsByProcessInstanceKey(db, x.inst)) = 1   \* bound
                 /\ NewEngineBatch(db, x.inst)
                 /\ Begin(Batch(Server(k), x.inst,
                       <<P!Stmt("SaveIncident", [Row(x) EXCEPT !.resolved_at = 1])>>
                       \o SetToSeq({P!Stmt("SaveJob", [j EXCEPT !.state = "active"]) : j \in jobs})
                       \o <<SaveTokenAs(db, x.inst, IF jobs = {} THEN "running" ELSE "waiting", 1)>>,
                       "run"))

(* What is active in the instance ends with it; everything that the cancel
   saves is read from the replica of the serving node. *)
CancelProcessInstance(i) ==
    LET db   == Replica(i)
        ends(S) == {[r EXCEPT !.state = "terminated"] : r \in S}
        jobs == ends(P!Q!FindProcessInstanceJobsInState(db, i, {"completing", "active", "failed"}))
        subs == ends(P!Q!FindProcessInstanceMessageSubscriptions(db, i, "active"))
        toks == P!GetActiveTokensForProcessInstance(db, i)
    IN  /\ Does("cancel")
        /\ R!CancelProcessInstance(C, i, "ok").status = 204
        /\ \E r \in P!Q!GetProcessInstance(db, i) : r.state \in {"active", "failed"}
        /\ Begin(Batch(Server(i), i,
              SetToSeq({P!Stmt("SaveJob", j) : j \in jobs})
              \o SetToSeq({P!Stmt("SaveMessageSubscription", s) : s \in subs})
              \o SetToSeq({P!Stmt("SaveToken", [t EXCEPT !.state = "canceled"]) : t \in toks})
              \o <<SaveInstance(db, i, "terminated")>>, "none"))

PublishMessage(n, corr) ==
    LET home == R!N!GetPartitionIdFromString(C, corr)
        ptrs == P!FindActiveMessageSubscriptionPointer(copy[n][home], "m", corr)
        k    == (CHOOSE x \in ptrs : TRUE).key
    IN  /\ Does("publish")
        /\ R!PublishMessage(C, n, "m", corr, home, "ok").status = 201
        /\ \E s \in P!FindMessageSubscriptionById(Replica(k), k, "active") \ {P!Error} :
             LET db  == Replica(k)
                 sub == CHOOSE q \in P!Q!GetMessageSubscriptionById(db, k, "active") : TRUE
             IN  /\ NewEngineBatch(db, s.inst)
                 /\ Begin(Batch(Server(s.inst), s.inst,
                       <<P!Stmt("SaveMessageSubscription", [sub EXCEPT !.state = "completed"]),
                         P!Stmt("UpdateOutputFlowElementInstance", FlowElement(k, s.inst, 1)),
                         SaveTokenAs(db, s.inst, "running", 2)>>, "run"))

(* CreateInstance saves the instance and its token, then runs it. *)
CreateInstance(m, p, def, corr) ==
    LET i == KeySpace * p + 20 * (1 + Cardinality(DB(p).process_instance))
        before == {r \in UNION {DB(q).process_instance : q \in Partition} :
                      r.business_key = corr /\ r.state \notin {"completed", "terminated"}}
        after  == {b \in calls : b.ptr # Null /\ b.ptr.corr = corr}
    IN  /\ Cardinality(UNION {DB(q).process_instance : q \in Partition}) < scenario.insts
        /\ Cardinality(calls) < MaxCalls
        /\ raft[p] = m
        /\ copy' = [copy EXCEPT ![m][p] = P!ExecuteStatements(@,
                       <<P!Stmt("SaveProcessInstance", Instance(i, def, corr)),
                         P!Stmt("SaveToken", Token(i))>>)]
        /\ calls' = calls \cup {Call(m, i, "run")}
        /\ contested' = IF before \cup after = {} THEN contested ELSE contested \cup {corr}
        /\ UNCHANGED <<placement, deploys, torn, skipped>>

CreateProcessInstance(def, corr) ==
    /\ Does("create")
    /\ \E r \in R!CreateProcessInstance(C, def, TRUE) : r.status = 201
    /\ \E m \in R!N!GetLeastStressedPartitionLeader(C) :
         \E p \in R!N!S!GetRandomEngine(C, m) : CreateInstance(m, p, def, corr)

StartProcessInstanceOnElements(def, corr) ==
    /\ Does("start")
    /\ \E r \in R!StartProcessInstanceOnElements(C, def, "ok") : r.status = 201
    /\ \E m \in R!N!GetLeastStressedPartitionLeader(C) :
         \E p \in R!N!S!GetRandomEngine(C, m) : CreateInstance(m, p, def, corr)

(* The handlers that first look at the instance, wherever a follower is. *)
BeginVars(i, op) ==
    /\ Does(op)
    /\ R!Proceeds \in IF op = "update" THEN R!UpdateProcessInstanceVariables(C, i)
                      ELSE R!DeleteProcessInstanceVariable(C, i, "a")
    /\ Begin([Call(Null, i, "vars") EXCEPT !.then = op])

UpdateProcessInstanceVariables(b) ==
    LET db == Replica(b.inst)
    IN  /\ b.pc = "vars" /\ b.then = "update"
        /\ IF /\ R!VariablesUpdated(C, b.inst, "ok").status = 204
              /\ NewEngineBatch(db, b.inst)
           THEN /\ ~Locked(Server(b.inst), b.inst)
                /\ calls' = (calls \ {b}) \cup {Batch(Server(b.inst), b.inst,
                      <<P!Stmt("SaveProcessInstance",
                               [TheInstance(db, b.inst) EXCEPT !.variables = @ \cup {"b"}])>>, "run")}
           ELSE calls' = calls \ {b}
        /\ UNCHANGED <<placement, copy, deploys, contested, torn, skipped>>

\* DeleteInstanceVariable does not look at the state of the instance.
DeleteProcessInstanceVariable(b) ==
    LET db == Replica(b.inst)
    IN  /\ b.pc = "vars" /\ b.then = "delete"
        /\ IF /\ R!VariableDeleted(C, b.inst, "ok").status = 204
              /\ P!Q!GetProcessInstance(db, b.inst) # {}
           THEN /\ ~Locked(Server(b.inst), b.inst)
                /\ calls' = (calls \ {b}) \cup {Batch(Server(b.inst), b.inst,
                      <<P!Stmt("SaveProcessInstance",
                               [TheInstance(db, b.inst) EXCEPT !.variables = @ \ {"a"}])>>, "none")}
           ELSE calls' = calls \ {b}
        /\ UNCHANGED <<placement, copy, deploys, contested, torn, skipped>>

EvaluateDecision ==
    /\ Does("evaluate")
    /\ \E r \in R!EvaluateDecision(C, "d", "latest") : r.status = 200
    /\ \E m \in R!N!GetLeastStressedPartitionLeader(C) :
         \E p \in R!N!S!GetRandomEngine(C, m) :
           LET k == KeySpace * p + 80 + Cardinality(DB(p).decision_instance)
           IN  /\ raft[p] = m /\ Cardinality(DB(p).decision_instance) < scenario.insts
               /\ copy' = [copy EXCEPT ![m][p] = P!ExecuteStatements(@,
                     P!SaveDecisionInstance(
                         [key |-> k, drd |-> 3, decision |-> Decision(p).key, at |-> k], Null))]
    /\ UNCHANGED <<placement, calls, deploys, contested, torn, skipped>>

-----------------------------------------------------------------------------
(* Steps of a call *)

\* What processing the running token of instance i saves.
Processed(db, n, i) ==
    LET k == WaitKey(db, n, i)
        r == TheInstance(db, i)
    IN  IF TheToken(db, i).elem = 1
        THEN <<P!Stmt("SaveFlowElementInstance", FlowElement(k, i, 1)),
               IF r.def = JobProcess THEN P!Stmt("SaveJob", Job(k, i))
               ELSE P!Stmt("SaveMessageSubscription", Subscription(k, i, r.business_key)),
               SaveTokenAs(db, i, "waiting", 1), SaveInstance(db, i, "active")>>
        ELSE <<SaveTokenAs(db, i, "completed", 2), SaveInstance(db, i, "completed")>>

(* RunProcessInstance: refresh, set the instance active with a statement of
   its own, and process the running token. *)
RunProcessInstance(b) ==
    LET db == copy[b.node][b.part]
    IN  /\ b.pc = "run" /\ ~Locked(b.node, b.inst)
        /\ IF raft[b.part] = b.node /\ NewEngineBatch(db, b.inst)
           THEN /\ copy' = [copy EXCEPT ![b.node][b.part] =
                              P!ExecuteStatements(@, <<SaveInstance(db, b.inst, "active")>>)]
                /\ calls' = (calls \ {b}) \cup
                     IF TheToken(db, b.inst).state # "running" THEN {}
                     ELSE {[Batch(b.node, b.inst, Processed(db, b.node, b.inst), "none")
                              EXCEPT !.from = "run"]}
           ELSE copy' = copy /\ calls' = calls \ {b}
        /\ UNCHANGED <<placement, deploys, contested, torn, skipped>>

\* A batch of the main loop that fails is replaced by the token's incident.
Failed(b) ==
    IF b.from # "run" THEN {}
    ELSE LET db == copy[b.node][b.part]
         IN  {[Batch(b.node, b.inst,
                     <<SaveTokenAs(db, b.inst, "failed", TheToken(db, b.inst).elem),
                       SaveInstance(db, b.inst, "failed"),
                       P!Stmt("SaveIncident", Incident(db, b.node, b.inst))>>, "none")
                 EXCEPT !.term = b.term]}

(***************************************************************************)
(* DB.SaveMessageSubscriptionPointer: the node of the partition that the   *)
(* pointer must be saved on, or Null for an error.                         *)
(***************************************************************************)
PointerNode(b) ==
    LET home == R!N!GetPartitionIdFromString(C, b.ptr.corr)
        m    == R!N!PartitionLeader(C, home)
        old  == P!Q!FindMessageSubscriptionPointer(copy[b.node][home], b.ptr.name, b.ptr.corr, "active")
        held == LET o == CHOOSE o \in old : TRUE
                    l == R!N!PartitionLeader(C, R!N!S!GetPartitionId(o.key))
                IN  IF l = Null THEN "error"
                    ELSE R!N!S!FindActiveMessage(C, l, o.name, o.corr, o.token).code
        set  == R!N!S!SetMessageSubscriptionPointer(C, m, home, home)
    IN  IF b.part = home /\ raft[home] = b.node
        THEN IF old = {} \/ b.ptr.state # "active" \/ held = "notfound" THEN b.node ELSE Null
        ELSE IF m # Null /\ set.code = "ok" THEN m ELSE Null

SavePointer(b) ==
    LET home == R!N!GetPartitionIdFromString(C, b.ptr.corr)
        n    == PointerNode(b)
    IN  /\ b.pc = "pointer"
        /\ IF n # Null
           THEN /\ copy' = [copy EXCEPT ![n][home] = P!Q!SaveMessageSubscriptionPointer(@, b.ptr)]
                /\ calls' = (calls \ {b}) \cup {[b EXCEPT !.pc = "flush"]}
           ELSE copy' = copy /\ calls' = (calls \ {b}) \cup Failed(b)
        /\ UNCHANGED <<placement, deploys, contested, torn, skipped>>

\* DBBatch.Flush: one transaction on the raft leader, the lock is released.
Flush(b) ==
    /\ b.pc = "flush"
    /\ IF raft[b.part] = b.node
       THEN /\ copy' = [copy EXCEPT ![b.node][b.part] = P!ExecuteStatements(@, b.stmts)]
            /\ calls' = (calls \ {b}) \cup
                 IF b.then = "run" THEN {[Call(b.node, b.inst, "run") EXCEPT !.term = b.term]} ELSE {}
            /\ torn' = torn
       ELSE /\ copy' = copy
            /\ calls' = (calls \ {b}) \cup Failed(b)
            /\ torn' = IF b.ptr = Null THEN torn ELSE torn \cup {b.ptr.corr}
    /\ UNCHANGED <<placement, deploys, contested, skipped>>

\* createEngine, on a node that leads and is known to: Engine.Start runs the
\* instances of the running tokens.
CreateEngine(n, p) ==
    /\ raft[p] = n /\ leader[p] = n /\ <<n, p>> \notin engine
    /\ engine' = engine \cup {<<n, p>>}
    /\ calls' = calls \cup {Call(n, t.inst, "run") : t \in P!GetActiveTokens(copy[n][p])}
    /\ UNCHANGED <<scenario, copy, raft, leader, deploys, elections, contested, torn, skipped>>

-----------------------------------------------------------------------------
(* Deployments *)

DeployKinds == {"process", "decision"}

(* A deployment goes to the leaders that the cluster state names now, in a
   goroutine per partition. *)
Deploy(kind, sum, n) ==
    /\ Does(kind)
    /\ Len(deploys) < scenario.deploys
    /\ \E r \in IF kind = "process" THEN R!N!DeployProcessDefinitionToAllPartitions(C, n, sum)
                ELSE R!N!DeployDmnResourceDefinitionToAllPartitions(C, n, sum) :
         /\ r.code = "ok"
         /\ deploys' = Append(deploys,
               [kind |-> kind, sum |-> sum, to |-> r.val, status |-> Null, lost |-> 0,
                rpc |-> [p \in Partition |-> "sent"],
                todo |-> [p \in Partition |-> {}], save |-> [p \in Partition |-> Null]])
    /\ UNCHANGED <<placement, copy, calls, contested, torn, skipped>>

DeployKey(d) == 10 + d

\* The goroutine of partition q leaves the partition p behind.
Done(d, q, p) ==
    LET left == deploys[d].todo[q] \ {p}
    IN  deploys' = [deploys EXCEPT ![d].todo[q] = left, ![d].save[q] = Null,
                                   ![d].rpc[q] = IF left = {} THEN "ok" ELSE @]

Fails(d, q) == deploys' = [deploys EXCEPT ![d].rpc[q] = "failed", ![d].save[q] = Null]

DeployArrives(d, q) ==
    LET m == deploys[d].to[q]
        r == IF deploys[d].kind = "process" THEN R!N!deployProcessDefinitionToPartition(C, m)
             ELSE R!N!deployDmnResourceDefinitionToPartition(C, m)
    IN  /\ deploys[d].rpc[q] = "sent"
        /\ IF r.code # "ok" THEN Fails(d, q)
           ELSE deploys' = [deploys EXCEPT ![d].todo[q] = r.val,
                                           ![d].rpc[q] = IF r.val = {} THEN "ok" ELSE "runs"]
        /\ skipped' = IF r.code = "ok" /\ q \notin r.val THEN skipped \cup {<<d, q>>} ELSE skipped
        /\ UNCHANGED <<placement, copy, calls, contested, torn>>

\* The call is lost, or its context is cancelled because another one failed.
DeployLost(d, q) ==
    /\ deploys[d].rpc[q] \in {"sent", "runs"}
    /\ \/ \E p \in Partition : deploys[d].rpc[p] = "failed"
       \/ deploys[d].rpc[q] = "sent" /\ deploys[d].lost < MaxLost
    /\ deploys' = [deploys EXCEPT ![d].rpc[q] = "failed", ![d].save[q] = Null, ![d].lost = @ + 1]
    /\ UNCHANGED <<placement, copy, calls, contested, torn, skipped>>

LatestOf(db, kind) ==
    IF kind = "process" THEN P!FindLatestProcessDefinitionById(db, "q")
    ELSE P!FindLatestDmnResourceDefinitionById(db, "r")

(* Engine.load and saveDmnResourceDefinition up to the first write: nothing
   to do when the latest version is the same, else the next version. *)
Load(d, q, p) ==
    LET latest == LatestOf(copy[deploys[d].to[q]][p], deploys[d].kind)
        v      == IF latest = {} THEN 0 ELSE (CHOOSE r \in latest : TRUE).version
    IN  /\ deploys[d].rpc[q] = "runs" /\ deploys[d].save[q] = Null
        /\ p \in deploys[d].todo[q]
        /\ IF \E r \in latest : r.checksum = deploys[d].sum THEN Done(d, q, p)
           ELSE deploys' = [deploys EXCEPT ![d].save[q] = [part |-> p, version |-> v + 1, of |-> "resource"]]
        /\ UNCHANGED <<placement, copy, calls, contested, torn, skipped>>

\* The rows of a deployment d that the partition p gets.
ResourceStmt(d, v) ==
    IF deploys[d].kind = "process"
    THEN P!SaveProcessDefinitionWith(
                [key |-> DeployKey(d), version |-> v, id |-> "q", name |-> "q", checksum |-> deploys[d].sum])
    ELSE P!SaveDmnResourceDefinitionWith(
                [key |-> DeployKey(d), version |-> v, id |-> "r", checksum |-> deploys[d].sum])

DecisionStmt(d, p, v) ==
    P!SaveDecisionDefinitionWith(
           [key |-> KeySpace * p + 90 + d, version |-> v, id |-> "d", tag |-> Null,
            drd_id |-> "r", drd |-> DeployKey(d)])

\* Each row is a statement of its own; a second row with the same key fails.
Save(d, q) ==
    LET w   == deploys[d].save[q]
        m   == deploys[d].to[q]
        db  == copy[m][w.part]
        row == IF w.of = "resource" THEN ResourceStmt(d, w.version) ELSE DecisionStmt(d, w.part, w.version)
        has == P!Q!Keys(IF w.of = "decision" THEN db.decision_definition
                        ELSE IF deploys[d].kind = "process" THEN db.process_definition
                        ELSE db.dmn_resource_definition)
    IN  /\ deploys[d].rpc[q] = "runs" /\ w # Null
        /\ IF raft[w.part] = m /\ row[1].row.key \notin has
           THEN /\ copy' = [copy EXCEPT ![m][w.part] = P!ExecContext(@, row[1])]
                /\ IF deploys[d].kind = "decision" /\ w.of = "resource"
                   THEN deploys' = [deploys EXCEPT ![d].save[q] =
                           [part |-> w.part, of |-> "decision",
                            version |-> 1 + (CHOOSE r \in P!GetLatestDecisionDefinitionById(db, "d") : TRUE).version]]
                   ELSE Done(d, q, w.part)
           ELSE copy' = copy /\ Fails(d, q)
        /\ UNCHANGED <<placement, calls, contested, torn, skipped>>

\* (mutant) One partition is enough.
OneIsEnough(d) ==
    IF \E p \in Partition : deploys[d].rpc[p] = "ok" THEN R!N!S!Ok(DeployKey(d)) ELSE R!N!S!Err("technical")

\* group.Wait: the first error of a goroutine, or none.
Waited(d) ==
    IF \A p \in Partition : deploys[d].rpc[p] = "ok" THEN R!N!S!Ok(DeployKey(d)) ELSE R!N!S!Err("technical")

DeployEnds(d) ==
    /\ deploys[d].status = Null
    /\ \A p \in Partition : deploys[d].rpc[p] \in {"ok", "failed"}
    /\ deploys' = [deploys EXCEPT ![d].status =
                     IF deploys[d].kind = "process" THEN R!CreateProcessDefinition(Waited(d)).status
                     ELSE R!CreateDmnResourceDefinition(Waited(d)).status]
    /\ UNCHANGED <<placement, copy, calls, contested, torn, skipped>>

-----------------------------------------------------------------------------
(* Specification *)

InstanceKeys == UNION {P!Q!Keys(DB(p).process_instance) : p \in Partition}
JobKeys      == UNION {P!Q!Keys(DB(p).job) : p \in Partition}
IncidentKeys == UNION {P!Q!Keys(DB(p).incident) : p \in Partition}

Next ==
    \/ \E p \in Partition, n \in Node : Elect(p, n) \/ Replicate(n, p) \/ CreateEngine(n, p)
    \/ \E p \in Partition : Announce(p)
    \/ \E corr \in scenario.corrs :
         \/ \E def \in scenario.defs : \/ CreateProcessInstance(def, corr)
                                    \/ StartProcessInstanceOnElements(def, corr)
         \/ \E n \in Node : PublishMessage(n, corr)
    \/ \E k \in JobKeys : CompleteJob(k) \/ FailJob(k) \/ AssignJob(k)
    \/ \E k \in IncidentKeys : ResolveIncident(k)
    \/ \E i \in InstanceKeys : CancelProcessInstance(i)
    \/ \E i \in InstanceKeys, op \in {"update", "delete"} : BeginVars(i, op)
    \/ EvaluateDecision
    \/ \E b \in calls : \/ UpdateProcessInstanceVariables(b) \/ DeleteProcessInstanceVariable(b)
                        \/ RunProcessInstance(b) \/ SavePointer(b) \/ Flush(b)
    \/ \E kind \in DeployKinds, sum \in {11, 12}, n \in Node : Deploy(kind, sum, n)
    \/ \E d \in DOMAIN deploys, q \in Partition :
         \/ DeployArrives(d, q) \/ DeployLost(d, q) \/ Save(d, q)
         \/ \E p \in Partition : Load(d, q, p)
    \/ \E d \in DOMAIN deploys : DeployEnds(d)

Spec == Init /\ [][Next]_vars

-----------------------------------------------------------------------------
(* Properties *)

(* A deployment that was answered with 201 is in every partition, whatever    *)
(* calls were lost, leaders changed and other deployments ran meanwhile,      *)
(* except where a leader had no engine yet (server.go, DeployProcessDefinition*)
(* answers success when it has nothing to do).                                *)
AcknowledgedDeploymentsAreEverywhere ==
    \A d \in DOMAIN deploys : deploys[d].status = 201 =>
        \A p \in Partition : <<d, p>> \notin skipped =>
            \E r \in IF deploys[d].kind = "process" THEN DB(p).process_definition
                     ELSE DB(p).dmn_resource_definition : r.checksum = deploys[d].sum

Subs(p) == {s \in DB(p).message_subscription : s.state = "active"}

(* An active message subscription can be found through the pointer at the     *)
(* home of its correlation key, which the batch of the subscription saves in  *)
(* another partition and before its own flush                                 *)
(* (partition_persistence.go, SaveMessageSubscriptionPointer), unless a flush *)
(* failed after its pointer was saved or two instances wait for the same key. *)
SubscriptionsAreReachable ==
    \A p \in Partition : \A s \in Subs(p) :
        \/ s.corr \in contested \cup torn
        \/ \E b \in calls : b.ptr # Null /\ b.ptr.corr = s.corr
        \/ \E x \in P!FindActiveMessageSubscriptionPointer(
                        DB(R!N!GetPartitionIdFromString(C, s.corr)), s.name, s.corr) : x.key = s.key

(* The state of an instance that has ended changes only when a call flushes   *)
(* what it read before the partition's leader changed and changed back: the   *)
(* lock of an instance and the state behind it are those of one engine        *)
(* process (engine_batch.go, NewEngineBatch).                                 *)
OnlyOldCallsReviveEnded ==
    [][\A i \in InstanceKeys :
         LET p   == R!N!S!GetPartitionId(i)
             old == TheInstance(DB(p), i).state
         IN  old \in {"completed", "terminated"} =>
               \/ TheInstance(DB(p), i).state = TheInstance(copy'[raft'[p]][p], i).state
               \/ \E b \in calls \ calls' : b.inst = i /\ b.pc = "flush" /\ b.term < elections[p]]_vars

Settled ==
    /\ leader = raft /\ calls = {}
    /\ \A p \in Partition : <<raft[p], p>> \in engine
    /\ \A n \in Node : \A p \in Hosting(n) : copy[n][p] = DB(p)

\* The nodes that reads of the partition go to have an engine of it: they led
\* it once, or there is no follower.
EngineWhereRead(p) == \A m \in R!N!GetPartitionFollower(C, p) : <<m, p>> \in engine

\* Whichever node serves, the answer is the same.
Answers(responses, status) == Cardinality(responses) = 1 /\ \A r \in responses : r.status = status

Found(responses, row) == responses = {R!Response(200, row)}

The(responses) == CHOOSE r \in responses : TRUE

NoFilter == [def |-> Null, parent |-> Null, business_key |-> Null, process_id |-> Null,
             element |-> Null, from |-> Null, to |-> Null, state |-> Null]
NoJobFilter      == [type |-> Null, state |-> Null, inst |-> Null, assignee |-> Null]
NoDecisionFilter == [drd |-> Null, drd_id |-> Null, inst |-> Null, from |-> Null, to |-> Null]

(* Pages of one row per partition: each is answered, together they list each *)
(* row of every partition once, and the total of the first counts them all.  *)
Complete(pages, table) ==
    /\ \A g \in DOMAIN pages : Answers(pages[g], 200)
    /\ \A p \in Partition :
         LET listed == FlattenSeq([g \in DOMAIN pages |-> The(pages[g]).body.partitions[p].rows])
         IN  Len(listed) = Cardinality(DB(p)[table]) /\ IsInjective(listed)
    /\ The(pages[1]).body.total = MapThenSumSet(LAMBDA p : Cardinality(DB(p)[table]), Partition)

\* The pages up to an empty one.
Pages(table) == 1..(1 + Max({Cardinality(DB(p)[table]) : p \in Partition}))

ListsAreComplete ==
    /\ Complete([g \in Pages("process_instance") |-> R!GetProcessInstances(C, NoFilter, FALSE, Null, <<g, 1>>)],
                "process_instance")
    /\ Complete([g \in Pages("job") |-> R!GetJobs(C, NoJobFilter, Null, <<g, 1>>)], "job")
    /\ Complete([g \in Pages("decision_instance") |-> R!GetDecisionInstances(C, NoDecisionFilter, "asc", <<g, 1>>)],
                "decision_instance")

RowsAreFound(p) ==
    /\ \A j \in DB(p).job : Found(R!GetJob(C, j.key), j) /\ R!getRestJobState(j.state) # "panic"
    /\ \A x \in DB(p).decision_instance : Found(R!GetDecisionInstance(C, x.key), x)
    /\ \A r \in DB(p).process_instance :
         LET mine(table) == {x \in DB(p)[table] : x.inst = r.key}
             toks == {t \in mine("execution_token") : t.state \in {"running", "waiting"}}
         IN  /\ IF EngineWhereRead(p)
                THEN /\ Answers(R!GetProcessInstance(C, r.key), 200)
                     /\ R!getRestProcessInstanceState(r.state) \in R!InstanceStates
                     /\ \A x \in The(R!GetProcessInstanceElementStatistics(C, r.key)).body[p] :
                          x.active = Cardinality({t \in toks : t.elem = x.elem})
                ELSE Answers(R!GetProcessInstance(C, r.key), 500)
             /\ The(R!GetProcessInstanceJobs(C, r.key, <<Null, Null>>)).body.total = Cardinality(mine("job"))
             /\ The(R!GetIncidents(C, r.key, Null, <<1, Null>>)).body.total = Cardinality(mine("incident"))
             /\ Cardinality(The(R!GetHistory(C, r.key)).body) = Cardinality(mine("flow_element_instance"))
             /\ Answers(R!GetChildProcessInstances(C, r.key, Null, Null, <<Null, Null>>), 200)
    /\ Answers(R!GetJob(C, KeySpace * p), 404)
    /\ Answers(R!GetDecisionInstance(C, KeySpace * p), 404)

\* Any node tells about the definitions that all partitions have.
DefinitionsAreFound(n) ==
    /\ \A k \in {JobProcess, MessageProcess} :
         /\ Found(R!GetProcessDefinition(C, n, k), Definition(k))
         /\ The(R!GetProcessDefinitions(C, n, ProcessId(k), TRUE, Null, <<1, Null>>)).body.rows = <<Definition(k)>>
         /\ LET stats == The(R!GetProcessDefinitionElementStatistics(C, n, k)).body
                counts == The(R!GetProcessDefinitionStatistics(C, Null, FALSE, {}, {k}, <<Null, Null>>)).body
            IN  \A p \in Partition :
                  LET mine == {r.key : r \in {r \in DB(p).process_instance : r.def = k}}
                      toks == {t \in DB(p).execution_token :
                                 t.inst \in mine /\ t.state \in {"running", "waiting"}}
                  IN  /\ MapThenSumSet(LAMBDA x : x.active, stats[p]) = Cardinality(toks)
                      /\ \A x \in counts[p] : x.total = Cardinality(mine)
    /\ Found(R!GetDmnResourceDefinition(C, n, DmnResource.key), DmnResource)
    /\ DmnResource \in Range(The(R!GetDmnResourceDefinitions(C, n, "r", FALSE, Null, <<1, Null>>)).body.rows)
    /\ Answers(R!GetProcessDefinition(C, n, 0), 400)
    /\ Answers(R!GetProcessDefinitions(C, n, Null, FALSE, Null, <<0, Null>>), 400)

(* When the replicas have caught up and every leader is known and has its     *)
(* engine, every node answers every read alike: rows are found by their key,  *)
(* the pages of a list have each row once, unknown keys are a 404 and keys of *)
(* unknown partitions a 502.  The exception is GetProcessInstance, which asks *)
(* for an engine on the follower that it is routed to (node.go,               *)
(* GetProcessInstance; server.go, GetProcessInstance) and answers 500.        *)
SettledReadsAgree ==
    Settled => /\ ListsAreComplete
               /\ \A p \in Partition : RowsAreFound(p)
               /\ \A n \in Node : DefinitionsAreFound(n)
               /\ LET k == KeySpace * (1 + Cardinality(Partition))
                  IN  /\ Answers(R!GetJob(C, k), 502)
                      /\ R!ModifyProcessInstance(C, k, "ok").status = 502

(* "returns an error if there is already an active conflicting message        *)
(* present" (pkg/storage/storage.go, SaveMessageSubscription): at most one    *)
(* active subscription per message name and correlation key.                  *)
NoConflictingSubscriptions ==
    \A p, q \in Partition : \A s \in Subs(p), t \in Subs(q) :
        s.name = t.name /\ s.corr = t.corr => s.key = t.key

(* "JobAssignByKey sets (or clears) the assignee of a job"                    *)
(* (pkg/bpmn/jobs_api.go): a job that has ended is not active again.          *)
EndedJobsStay ==
    [][\A p \in Partition : \A j \in DB(p).job : j.state \in {"completed", "terminated"} =>
         \A k \in copy'[raft'[p]][p].job : k.key = j.key => k.state = j.state]_vars

(* "all partitions should have the same definitions" (node.go,                *)
(* GetProcessDefinitions): when no deployment is under way, the partitions    *)
(* have the same rows.                                                        *)
SameDefinitions ==
    (\A d \in DOMAIN deploys : deploys[d].status # Null) =>
        \A p, q \in Partition : DB(p).process_definition = DB(q).process_definition
=============================================================================
