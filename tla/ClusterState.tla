----------------------------- MODULE ClusterState ---------------------------
(***************************************************************************)
(* The replicated state of the cluster (internal/cluster/store), the       *)
(* controller that each node runs on it (internal/cluster/controller), and *)
(* the way nodes form the cluster (bootstrap.go, join.go).                 *)
(*                                                                         *)
(* Raft is external: its log is one sequence of committed commands that    *)
(* every node applies in order, its leader one variable that nodes learn   *)
(* of late.  The raft group of the partition is external too: a leader     *)
(* among the nodes whose partition node runs.  There is one partition:     *)
(* DesiredPartitions is 1 in store.New.                                    *)
(*                                                                         *)
(* Every command a node applies cancels the context of the notification    *)
(* goroutine that runs and starts another one; at most Slots of a node are *)
(* alive at a time.                                                        *)
(***************************************************************************)
EXTENDS Naturals, Sequences, FiniteSets

CONSTANTS Node,
          None,
          Slots,             \* bound of the model: live notification goroutines
          BootstrapExpect,   \* nodes to wait for before the first configuration
          MaxLog,            \* bound of the model: commands
          MaxPartElections,  \* bound of the model: leaders of the partition
          MaxFaults          \* bound of the model: restarts, timeouts, new leaders

ASSUME ClusterStateAssumption ==
    /\ None \notin Node
    /\ Slots \in Nat \ {0}
    /\ BootstrapExpect \in Nat
    /\ MaxLog \in Nat
    /\ MaxPartElections \in Nat /\ MaxFaults \in Nat

VARIABLES
    \* raft, external
    members,      \* servers of the configuration; {} before the bootstrap
    leader,       \* the leader of the last term, or None
    log,          \* committed commands
    view,         \* raft.LeaderWithID of each node
    \* Store
    up,           \* s.open
    notifying,    \* s.notifyingNodes
    bootstrapped, \* s.bootstrapped
    observed,     \* observations in s.observerChan
    applied,      \* log entries applied to the state
    state,        \* s.state
    \* Controller
    notif,        \* notification goroutines
    running,      \* c.partitions: the partition node runs
    starts,       \* partition nodes started since the node started
    engine,       \* engines started since the node started
    \* raft group of the partition, external
    partLeader, partElections,
    faults

raftVars == <<members, leader, log, view>>
storeVars == <<up, notifying, bootstrapped, observed, applied, state>>
partVars == <<running, starts, engine, partLeader, partElections>>
vars == <<raftVars, storeVars, notif, partVars, faults>>

Slot == 1 .. Slots
NodeRole == {"none", "follower", "leader"}
PartState == {"none", "joining", "initializing", "initialized"}

NoNode == [known |-> FALSE, state |-> "unknown", role |-> "none",
           part |-> "none", partRole |-> "none"]
NoState == [nodes |-> [n \in Node |-> NoNode], leaderId |-> None]

\* command.Type and the fields of the two changes
NodeChange(n, st) == [kind |-> "node", node |-> n, state |-> st]
PartitionChange(n, st, role) ==
    [kind |-> "partition", node |-> n, state |-> st, role |-> role]

NoGo == [pc |-> "none", cancelled |-> FALSE, lock |-> "no", target |-> None,
         leaderClient |-> None]

Init ==
    /\ members = {}
    /\ leader = None
    /\ log = <<>>
    /\ view = [n \in Node |-> None]
    /\ up = [n \in Node |-> FALSE]
    /\ notifying = [n \in Node |-> {}]
    /\ bootstrapped = [n \in Node |-> FALSE]
    /\ observed = [n \in Node |-> {}]
    /\ applied = [n \in Node |-> 0]
    /\ state = [n \in Node |-> NoState]
    /\ notif = [n \in Node |-> [g \in Slot |-> NoGo]]
    /\ running = [n \in Node |-> FALSE]
    /\ starts = [n \in Node |-> 0]
    /\ engine = [n \in Node |-> 0]
    /\ partLeader = None
    /\ partElections = 0
    /\ faults = 0

-----------------------------------------------------------------------------
(* Forming the cluster.                                                    *)

Open(n) == ~up[n] /\ up' = [up EXCEPT ![n] = TRUE]

\* The store opens, and the controller's Start finds itself in no state.  A node
\* without a configuration goes on with ticks of Boot: Join and Notify.
StartZenNode(n) ==
    /\ Open(n)
    /\ UNCHANGED <<raftVars, notifying, bootstrapped, observed, applied, state,
                   notif, partVars, faults>>

CanJoin == leader # None /\ view[leader] = leader

\* One tick of Boot, which ends as soon as the node knows a leader.  Joiner.Do
\* comes first: the leader adds the node as a voter.
Join(n) ==
    /\ up[n] /\ view[n] = None
    /\ CanJoin
    /\ n \notin members
    /\ members' = members \cup {n}
    /\ observed' = [observed EXCEPT ![leader] = @ \cup {<<"peer", n>>}]
    /\ UNCHANGED <<leader, log, view, up, notifying, bootstrapped,
                   applied, state, notif, partVars, faults>>

\* The nodes that are told of a node: up to the first one that it cannot reach.
notify == LET reached == {m \in Node : up[m]}
          IN  IF reached = Node THEN {Node} ELSE SUBSET reached

\* Without a leader to join, the node tells its targets of itself.  Store.Notify of a target bootstraps the cluster
\* with the nodes it has heard of, once it has heard of enough.
Notify(n) ==
    LET heard == [m \in Node |-> notifying[m] \cup {n}]
        open == {m \in Node : view[m] = None /\ ~bootstrapped[m]}
        enough == {m \in Node : Cardinality(heard[m]) >= BootstrapExpect}
    IN  /\ up[n] /\ view[n] = None
        /\ ~CanJoin
        /\ BootstrapExpect > 0
        /\ \E T \in notify :
              LET told == {m \in T \cap open : n \notin notifying[m]}
              IN  /\ told # {}
                  /\ notifying' = [m \in Node |-> IF m \in told THEN heard[m]
                                                                ELSE notifying[m]]
                  /\ bootstrapped' = [m \in Node |->
                                         bootstrapped[m] \/ m \in told \cap enough]
                  /\ members' = IF members = {} /\ told \cap enough # {}
                                THEN heard[CHOOSE m \in told \cap enough : TRUE]
                                ELSE members
        /\ UNCHANGED <<leader, log, view, up, observed, applied, state,
                       notif, partVars, faults>>

-----------------------------------------------------------------------------
(* Raft as the store sees it.                                              *)

\* A leader follows one that stopped, or one that the others no longer hear.
Elect(n) ==
    /\ n \in members /\ up[n]
    /\ leader # n
    /\ faults' = IF leader = None THEN faults ELSE faults + 1
    /\ faults' <= MaxFaults
    /\ leader' = n
    /\ view' = [view EXCEPT ![n] = n]
    /\ observed' = [observed EXCEPT ![n] =
          @ \cup {<<"leader", n>>} \cup {<<"peer", m>> : m \in members \ {n}}]
    /\ UNCHANGED <<members, log, up, notifying, bootstrapped, applied, state,
                   notif, partVars>>

LearnLeader(n) ==
    /\ up[n] /\ n \in members
    /\ view[n] # leader
    /\ view' = [view EXCEPT ![n] = leader]
    /\ UNCHANGED <<members, leader, log, storeVars, notif, partVars,
                   faults>>

IsLeader(n) == up[n] /\ view[n] = n

-----------------------------------------------------------------------------
(* The state machine.                                                      *)

\* mutant: the leader before keeps its role
KeepsOldLeader(cs, cmd, leaderId) ==
    [cs EXCEPT !.nodes[cmd.node] =
       [@ EXCEPT !.known = TRUE, !.state = cmd.state,
                 !.role = IF leaderId = cmd.node THEN "leader" ELSE "follower"]]

\* role of the changed node: read from this node's own view of the leader
FsmApplyNodeChange(cs, cmd, leaderId) ==
    LET n == cmd.node
        isLeader == leaderId = n
        demoted == [m \in Node |->
                       IF cs.nodes[m].known
                       THEN [cs.nodes[m] EXCEPT !.role = "follower"]
                       ELSE cs.nodes[m]]
        nodes == IF isLeader /\ cs.nodes[n].role # "leader" THEN demoted
                                                            ELSE cs.nodes
    IN  [cs EXCEPT !.nodes =
           [nodes EXCEPT ![n] =
              [cs.nodes[n] EXCEPT !.known = TRUE, !.state = cmd.state,
                                  !.role = IF isLeader THEN "leader"
                                                       ELSE "follower"]]]

FsmApplyPartitionChange(cs, cmd) ==
    LET n == cmd.node
    IN  [nodes |-> [cs.nodes EXCEPT ![n] =
                       [@ EXCEPT !.known = TRUE, !.part = cmd.state,
                                 !.partRole = cmd.role]],
         leaderId |-> IF cmd.role = "leader" THEN n ELSE cs.leaderId]

\* mutant: the leader of the partition is taken from this node's view too
LocalPartitionLeader(cs, cmd, leaderId) ==
    IF cmd.kind = "node" THEN FsmApplyNodeChange(cs, cmd, leaderId)
    ELSE [FsmApplyPartitionChange(cs, cmd) EXCEPT
             !.leaderId = IF leaderId = cmd.node THEN cmd.node ELSE @]

FsmApply(cs, cmd, leaderId) ==
    IF cmd.kind = "node" THEN FsmApplyNodeChange(cs, cmd, leaderId)
                         ELSE FsmApplyPartitionChange(cs, cmd)

\* FSM.Apply starts a notification goroutine, and the context of the one before
\* is done.  A goroutine whose next step is to check its context is gone at once;
\* one that is past a check goes on.
ChecksContext == {"begin", "member", "lockJoining", "lockInitialized"}
Cancel(go) == IF go.pc = "none" \/ go.pc \in ChecksContext
              THEN NoGo ELSE [go EXCEPT !.cancelled = TRUE]
Spawn(nf, n) ==
    LET old == [g \in Slot |-> Cancel(nf[n][g])]
        h == CHOOSE g \in Slot : /\ old[g].pc = "none"
                                 /\ \A i \in 1 .. g - 1 : old[i].pc # "none"
    IN  [nf EXCEPT ![n] = [old EXCEPT ![h] = [NoGo EXCEPT !.pc = "begin"]]]
CanSpawn(nf, n) == \E g \in Slot : Cancel(nf[n][g]).pc = "none"

\* WriteNodeChange and WritePartitionChange at node m, which some node takes for
\* the leader: the call returns when the leader has applied the command.  On any
\* other node raft.Apply fails, and the failure is lost: the two return an error
\* only together with a response.
Write(m, cmd, nf) ==
    IF m # None /\ m = leader
    THEN /\ Len(log) < MaxLog
         /\ applied[m] = Len(log)
         /\ CanSpawn(nf, m)
         /\ log' = Append(log, cmd)
         /\ applied' = [applied EXCEPT ![m] = @ + 1]
         /\ state' = [state EXCEPT ![m] = FsmApply(@, cmd, view[m])]
         /\ notif' = Spawn(nf, m)
    ELSE UNCHANGED <<log, applied, state>> /\ notif' = nf

-----------------------------------------------------------------------------
(* The store's observer: only the leader writes.                           *)

Observation(n, o) ==
    /\ up[n]
    /\ o \in observed[n]
    /\ observed' = [observed EXCEPT ![n] = @ \ {o}]
    /\ UNCHANGED <<members, leader, view, up, notifying, bootstrapped,
                   partVars, faults>>

selfLeaderChange(n) ==
    /\ Observation(n, <<"leader", n>>)
    /\ Write(n, NodeChange(n, "started"), notif)

addNewNode(n, m) ==
    /\ Observation(n, <<"peer", m>>)
    /\ IF IsLeader(n) THEN Write(n, NodeChange(m, "started"), notif)
                      ELSE UNCHANGED <<log, applied, state, notif>>

\* FailedHeartbeatObservation: the heartbeats of m have stopped for too long.
shutdownNode(n, m) ==
    /\ faults < MaxFaults
    /\ faults' = faults + 1
    /\ n # m /\ m \in members
    /\ IsLeader(n)
    /\ Write(n, NodeChange(m, "shutdown"), notif)
    /\ UNCHANGED <<members, leader, view, up, notifying, bootstrapped,
                   observed, partVars>>

\* FSM.Apply on a node that follows
Apply(n) ==
    /\ up[n] /\ n \in members
    /\ view[n] # None              \* the leader's first message brings its id
    /\ applied[n] < Len(log)
    /\ CanSpawn(notif, n)
    /\ applied' = [applied EXCEPT ![n] = @ + 1]
    /\ state' = [state EXCEPT ![n] = FsmApply(@, log[applied[n] + 1], view[n])]
    /\ notif' = Spawn(notif, n)
    /\ UNCHANGED <<raftVars, up, notifying, bootstrapped, observed, partVars,
                   faults>>

\* The node stops and starts again: it keeps its log and applies it anew.
Restart(n) ==
    /\ faults < MaxFaults
    /\ faults' = faults + 1
    /\ up[n]
    /\ up' = [up EXCEPT ![n] = FALSE]
    /\ applied' = [applied EXCEPT ![n] = 0]
    /\ state' = [state EXCEPT ![n] = NoState]
    /\ observed' = [observed EXCEPT ![n] = {}]
    /\ notifying' = [notifying EXCEPT ![n] = {}]
    /\ bootstrapped' = [bootstrapped EXCEPT ![n] = FALSE]
    /\ view' = [view EXCEPT ![n] = None]
    /\ leader' = IF leader = n THEN None ELSE leader
    /\ notif' = [notif EXCEPT ![n] = [g \in Slot |-> NoGo]]
    /\ running' = [running EXCEPT ![n] = FALSE]
    /\ starts' = [starts EXCEPT ![n] = 0]
    /\ engine' = [engine EXCEPT ![n] = 0]
    /\ partLeader' = IF partLeader = n THEN None ELSE partLeader
    /\ UNCHANGED <<members, log, partElections>>

-----------------------------------------------------------------------------
(* ClusterStateChangeNotification: leader operations, then member          *)
(* operations.  go is the goroutine g of node n.                           *)

At(n, g, pc) == up[n] /\ notif[n][g].pc = pc
cancelled(n, g) == notif[n][g].cancelled
Goto(n, g, pc) == notif' = [notif EXCEPT ![n][g].pc = pc]
End(n, g) == notif' = [notif EXCEPT ![n][g] = NoGo]
Leave == UNCHANGED <<raftVars, storeVars, partVars, faults>>
LeaveRest == UNCHANGED <<members, leader, view, up, notifying,
                         bootstrapped, observed, partVars, faults>>

\* The leader takes a node that has no partition, as its state is now.
performLeaderOperations(n, g) ==
    LET cs == state[n]
        bare == {m \in Node : cs.nodes[m].known /\ cs.nodes[m].part = "none"}
    IN  /\ At(n, g, "begin") /\ IsLeader(n)
        /\ IF bare = {} THEN Goto(n, g, "member")
           ELSE \E m \in bare :
                   notif' = [notif EXCEPT ![n][g] = [@ EXCEPT !.pc = "assign",
                                                              !.target = m]]
        /\ Leave

\* assignPartition, after its check of the context.  Once the write is applied
\* the context is done, and the goroutine finds so at each of its next checks.
assignPartition(n, g) ==
    /\ At(n, g, "assign")
    /\ Write(n, PartitionChange(notif[n][g].target, "joining", "none"),
             [notif EXCEPT ![n][g] = IF n = leader \/ @.cancelled THEN NoGo
                                     ELSE [@ EXCEPT !.pc = "member",
                                                    !.target = None]])
    /\ LeaveRest

performMemberOperations(n, g) ==
    LET self == state[n].nodes[n]
    IN  /\ At(n, g, "member") \/ (At(n, g, "begin") /\ ~IsLeader(n))
        /\ IF ~self.known \/ view[n] = None \/ self.part = "none"
           THEN End(n, g)
           ELSE notif' = [notif EXCEPT ![n][g] =
                  [@ EXCEPT !.leaderClient = view[n],
                            !.pc = CASE self.part = "joining" -> "lockJoining"
                                     [] self.part = "initializing" -> "rlock"
                                     [] self.part = "initialized" ->
                                           "lockInitialized"]]
        /\ Leave

\* c.partitionsMu
Free(n) == \A g \in Slot : notif[n][g].lock = "no"
NoWriter(n) == \A g \in Slot : notif[n][g].lock # "write"

Lock(n, g, pc) ==
    /\ Free(n)
    /\ notif' = [notif EXCEPT ![n][g] = [@ EXCEPT !.lock = "write", !.pc = pc]]

\* handlePartitionStateJoining: nothing to do when the partition node runs and
\* the state says so.
handlePartitionStateJoining(n, g) ==
    /\ At(n, g, "lockJoining")
    /\ IF /\ running[n]
          /\ state[n].nodes[n].part \in {"initializing", "initialized"}
       THEN /\ Free(n)
            /\ End(n, g)
       ELSE Lock(n, g, "sendInitializing")
    /\ Leave

handlePartitionStateInitialized(n, g) ==
    /\ At(n, g, "lockInitialized")
    /\ IF running[n]
       THEN Free(n) /\ End(n, g)
       ELSE Lock(n, g, "sendInitializing")
    /\ Leave

\* The command of a node to the one it takes for the leader; the caller of a call
\* that failed goes on.
NodeCommand(m, cmd, nf) == Write(m, cmd, nf)

\* INITIALIZING, with this node's role in the cluster
sendInitializing(n, g) ==
    /\ At(n, g, "sendInitializing")
    /\ NodeCommand(notif[n][g].leaderClient,
             PartitionChange(n, "initializing",
                             IF IsLeader(n) THEN "leader" ELSE "follower"),
             [notif EXCEPT ![n][g].pc = "start"])
    /\ LeaveRest

\* The partition's store is open and takes part in the raft group of the
\* partition; its observer writes to a local channel that nothing reads.
StartZenPartitionNode(n) ==
    /\ running' = [running EXCEPT ![n] = TRUE]
    /\ starts' = [starts EXCEPT ![n] = @ + 1]

startPartitionNode(n, g) ==
    /\ At(n, g, "start")
    /\ StartZenPartitionNode(n)
    /\ Goto(n, g, "waitLeader")
    /\ UNCHANGED <<raftVars, storeVars, engine, partLeader, partElections, faults>>

\* A partition node that does not start is nil, and Stop is called on it: the
\* process of the node ends with a panic.
startPartitionNodeFails(n, g) == At(n, g, "start") /\ Restart(n)

\* mutant: nothing to do for a partition that another goroutine initializes
InitializingIgnored(n, g) ==
    /\ At(n, g, "rlock")
    /\ NoWriter(n)
    /\ End(n, g)
    /\ Leave

\* handlePartitionStateInitializing, reached on its own: without a partition
\* node it tries to join again after a while.
handlePartitionStateInitializing(n, g) ==
    /\ At(n, g, "rlock")
    /\ NoWriter(n)
    /\ IF running[n]
       THEN notif' = [notif EXCEPT ![n][g] = [@ EXCEPT !.lock = "read",
                                                       !.pc = "waitLeader"]]
       ELSE IF cancelled(n, g) THEN End(n, g) ELSE Goto(n, g, "lockJoining")
    /\ Leave

\* mutant: the partition may still be without a leader
DoesNotWait(n, g) ==
    /\ At(n, g, "waitLeader")
    /\ IF cancelled(n, g) THEN End(n, g)
       ELSE Goto(n, g, IF engine[n] = 0 /\ partLeader = n THEN "createEngine"
                                                          ELSE "report")
    /\ Leave

waitForLeader(n, g) ==
    /\ At(n, g, "waitLeader")
    /\ partLeader # None
    /\ IF cancelled(n, g) THEN End(n, g)
       ELSE Goto(n, g, IF engine[n] = 0 /\ partLeader = n THEN "createEngine"
                                                          ELSE "report")
    /\ Leave

\* No leader of the partition within a minute: the handler gives up.
waitForLeaderTimeout(n, g) ==
    /\ faults < MaxFaults
    /\ faults' = faults + 1
    /\ At(n, g, "waitLeader")
    /\ partLeader = None
    /\ End(n, g)
    /\ UNCHANGED <<raftVars, storeVars, partVars>>

createEngine(n, g) ==
    /\ At(n, g, "createEngine")
    /\ engine' = [engine EXCEPT ![n] = @ + 1]
    /\ Goto(n, g, "report")
    /\ UNCHANGED <<raftVars, storeVars, running, starts, partLeader,
                   partElections, faults>>

\* INITIALIZED, with the role in the partition
reportInitialized(n, g) ==
    /\ At(n, g, "report")
    /\ NodeCommand(notif[n][g].leaderClient,
             PartitionChange(n, "initialized",
                             IF partLeader = n THEN "leader" ELSE "follower"),
             [notif EXCEPT ![n][g] = NoGo])
    /\ LeaveRest

\* A leader of the partition's raft group; its observations reach no handler
\* (see StartZenPartitionNode).
ElectPartitionLeader(n) ==
    /\ partElections < MaxPartElections
    /\ running[n] /\ partLeader # n
    /\ partElections' = partElections + 1
    /\ partLeader' = n
    /\ UNCHANGED <<raftVars, storeVars, notif, running, starts, engine, faults>>

Notification(n, g) ==
    \/ performLeaderOperations(n, g)
    \/ assignPartition(n, g)
    \/ performMemberOperations(n, g) \/ handlePartitionStateJoining(n, g)
    \/ handlePartitionStateInitialized(n, g) \/ sendInitializing(n, g)
    \/ startPartitionNode(n, g) \/ startPartitionNodeFails(n, g) \/ handlePartitionStateInitializing(n, g)
    \/ waitForLeader(n, g) \/ createEngine(n, g) \/ reportInitialized(n, g)

Observe(n) == selfLeaderChange(n) \/ \E m \in Node : addNewNode(n, m)
Form(n) == StartZenNode(n) \/ Join(n) \/ Notify(n)

Next ==
    \E n \in Node :
       \/ Form(n) \/ Elect(n) \/ LearnLeader(n) \/ Observe(n) \/ Apply(n)
       \/ \E g \in Slot : Notification(n, g) \/ waitForLeaderTimeout(n, g)
       \/ ElectPartitionLeader(n)
       \/ \E m \in Node : shutdownNode(n, m)
       \/ Restart(n)

Spec == Init /\ [][Next]_vars

-----------------------------------------------------------------------------
(* Properties.                                                             *)

TypeOK ==
    /\ members \subseteq Node
    /\ leader \in Node \cup {None}
    /\ view \in [Node -> Node \cup {None}]
    /\ up \in [Node -> BOOLEAN]
    /\ applied \in [Node -> 0 .. Len(log)]
    /\ \A n \in Node : /\ state[n].leaderId \in Node \cup {None}
                        /\ \A m \in Node : /\ state[n].nodes[m].role \in NodeRole
                                           /\ state[n].nodes[m].part \in PartState

\* FsmApplyNodeChange leaves at most one node with the leader role in a state,
\* whatever the order of the leaders a node has seen.
AtMostOneLeader ==
    \A n, m, k \in Node :
       state[n].nodes[m].role = "leader" /\ state[n].nodes[k].role = "leader"
          => m = k

\* A state without the roles of its nodes.
Shared(cs) == [cs EXCEPT !.nodes = [m \in Node |->
                                       [cs.nodes[m] EXCEPT !.role = "none"]]]

\* Nodes that have applied the same commands agree on everything but the roles of
\* nodes: what a command does depends on the log alone (fsm.go, Apply).
ReplicasAgreeOnPartitions ==
    \A n, m \in Node : applied[n] = applied[m] => Shared(state[n]) = Shared(state[m])

\* Comment of FSM.Apply: "Apply must be deterministic and produce the same result
\* on all peers in the cluster".
ReplicasAgree ==
    \A n, m \in Node : applied[n] = applied[m] => state[n] = state[m]

\* A node that the state calls the initialized leader of the partition runs an
\* engine, as long as the partition keeps its leader.
InitializedLeaderHasEngine ==
    \A n, m \in Node :
       /\ faults = 0 /\ partElections <= 1
       /\ state[n].nodes[m].part = "initialized"
       /\ state[n].nodes[m].partRole = "leader"
       => engine[m] > 0

\* controller.go: "one zen node will be always working with maximum of one
\* partition node per partition".
OnePartitionNode == \A n \in Node : starts[n] <= 1

\* Nothing is left to do in a cluster: every command is applied, no observation
\* waits and no notification goroutine runs.
Quiescent ==
    /\ leader # None
    /\ \A n \in members : /\ up[n] /\ applied[n] = Len(log) /\ observed[n] = {}
                          /\ \A g \in Slot : notif[n][g].pc = "none"

\* The controllers do not stop half way: in a quiescent cluster whose leader has
\* not changed every node has initialized its partition node, and the leader of
\* the partition runs an engine.  Each notification goroutine may be cancelled by
\* the next, and acts on a state that may be old.
QuiescentIsInitialized ==
    Quiescent /\ faults = 0
       => /\ \A n \in members : /\ running[n]
                                /\ state[n].nodes[n].part = "initialized"
          /\ engine[partLeader] > 0
=============================================================================
