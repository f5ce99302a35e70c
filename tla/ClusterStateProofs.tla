------------------------- MODULE ClusterStateProofs -------------------------
(***************************************************************************)
(* Proofs about the cluster state, for any nodes and bounds.  Three facts  *)
(* carry them.  A state has at most one leader because a node that is not  *)
(* known has no role, so that demoting the known ones demotes all          *)
(* (OneLeader).  Replicas agree because what a command does to everything  *)
(* but the roles is a function of the command (Effect), hence the states   *)
(* of all replicas lie on one history of the log (OneHistory).  And an     *)
(* initialized leader has an engine because its report is written by a     *)
(* goroutine that has seen the leader of the partition (EngineInv).        *)
(***************************************************************************)
EXTENDS ClusterState, TLAPS

NodeState == [known : BOOLEAN, state : {"unknown", "started", "shutdown"},
              role : NodeRole, part : PartState, partRole : NodeRole]
State == [nodes : [Node -> NodeState], leaderId : Node \cup {None}]

NodeCmd == [kind : {"node"}, node : Node, state : {"started", "shutdown"}]
PartitionCmd == [kind : {"partition"}, node : Node,
                 state : PartState \ {"none"}, role : NodeRole]
Command == NodeCmd \cup PartitionCmd

PC == {"none", "begin", "member", "assign", "lockJoining", "rlock", "lockInitialized",
       "sendInitializing", "start", "waitLeader", "createEngine", "report"}
Go == [pc : PC, cancelled : BOOLEAN, lock : {"no", "read", "write"},
       target : Node \cup {None}, leaderClient : Node \cup {None}]

\* The notification goroutines of the nodes: one that assigns a partition has a
\* node to assign it to.
Goroutines(nf) ==
    /\ nf \in [Node -> [Slot -> Go]]
    /\ \A n \in Node, g \in Slot : nf[n][g].pc = "assign" => nf[n][g].target \in Node

\* The types of the variables that the states and the engines depend on.
TypeInv ==
    /\ members \subseteq Node
    /\ leader \in Node \cup {None}
    /\ log \in Seq(Command)
    /\ view \in [Node -> Node \cup {None}]
    /\ up \in [Node -> BOOLEAN]
    /\ notifying \in [Node -> SUBSET Node]
    /\ applied \in [Node -> Nat]
    /\ \A n \in Node : applied[n] <= Len(log)
    /\ state \in [Node -> State]
    /\ Goroutines(notif)
    /\ engine \in [Node -> Nat]
    /\ partLeader \in Node \cup {None}
    /\ partElections \in Nat
    /\ faults \in Nat

-----------------------------------------------------------------------------
(* The state machine.                                                      *)

\* Entries and states are equal when their fields are.
LEMMA NodeStateEqual ==
    ASSUME NEW r \in NodeState, NEW s \in NodeState,
           r.known = s.known, r.state = s.state, r.role = s.role, r.part = s.part,
           r.partRole = s.partRole
    PROVE  r = s
  BY DEF NodeState

LEMMA StateEqual ==
    ASSUME NEW r \in State, NEW s \in State, r.leaderId = s.leaderId,
           \A m \in Node : r.nodes[m] = s.nodes[m]
    PROVE  r = s
  <1>1. r.nodes = s.nodes
    BY DEF State
  <1>2. QED
    BY <1>1 DEF State

\* The three ways in which an entry r becomes x, field by field.
RoleChanged(r, x, role) ==
    /\ x \in NodeState
    /\ x.known = r.known /\ x.state = r.state /\ x.role = role
    /\ x.part = r.part /\ x.partRole = r.partRole

MemberChanged(r, x, st, role) ==
    /\ x \in NodeState
    /\ x.known = TRUE /\ x.state = st /\ x.role = role
    /\ x.part = r.part /\ x.partRole = r.partRole

PartChanged(r, x, st, role) ==
    /\ x \in NodeState
    /\ x.known = TRUE /\ x.state = r.state /\ x.role = r.role
    /\ x.part = st /\ x.partRole = role

LEMMA EntryChanges ==
    ASSUME NEW r \in NodeState, NEW role \in NodeRole
    PROVE  /\ RoleChanged(r, [r EXCEPT !.role = role], role)
           /\ \A st \in {"started", "shutdown"} :
                 MemberChanged(r, [r EXCEPT !.known = TRUE, !.state = st, !.role = role],
                               st, role)
           /\ \A st \in PartState :
                 PartChanged(r, [r EXCEPT !.known = TRUE, !.part = st, !.partRole = role],
                             st, role)
  BY DEF NodeState, RoleChanged, MemberChanged, PartChanged

\* What a node change makes of the state cs, field by field.
NodeChanged(cs, cmd, v, new) ==
    LET n == cmd.node
    IN  /\ new \in State
        /\ new.leaderId = cs.leaderId
        /\ MemberChanged(cs.nodes[n], new.nodes[n], cmd.state,
                         IF v = n THEN "leader" ELSE "follower")
        /\ \A m \in Node \ {n} :
              RoleChanged(cs.nodes[m], new.nodes[m],
                          IF v = n /\ cs.nodes[n].role # "leader" /\ cs.nodes[m].known
                          THEN "follower" ELSE cs.nodes[m].role)

LEMMA NodeChangeResult ==
    ASSUME NEW cs \in State, NEW cmd \in NodeCmd, NEW v
    PROVE  NodeChanged(cs, cmd, v, FsmApply(cs, cmd, v))
  <1> DEFINE n == cmd.node
             role == IF v = n THEN "leader" ELSE "follower"
             Role(m) == IF v = n /\ cs.nodes[n].role # "leader" /\ cs.nodes[m].known
                        THEN "follower" ELSE cs.nodes[m].role
             demoted == [m \in Node |-> IF cs.nodes[m].known
                                        THEN [cs.nodes[m] EXCEPT !.role = "follower"]
                                        ELSE cs.nodes[m]]
             nodes == IF v = n /\ cs.nodes[n].role # "leader" THEN demoted ELSE cs.nodes
             node == [cs.nodes[n] EXCEPT !.known = TRUE, !.state = cmd.state, !.role = role]
             result == [nodes EXCEPT ![n] = node]
  <1>1. FsmApply(cs, cmd, v) = [cs EXCEPT !.nodes = result]
    BY DEF FsmApply, FsmApplyNodeChange, NodeCmd
  <1>2. /\ n \in Node /\ cmd.state \in {"started", "shutdown"}
        /\ cs.nodes \in [Node -> NodeState] /\ role \in NodeRole
    BY DEF NodeCmd, State, NodeRole
  <1>3. MemberChanged(cs.nodes[n], node, cmd.state, role)
    <2>1. cs.nodes[n] \in NodeState
      BY <1>2
    <2> HIDE DEF role
    <2>2. QED
      BY <1>2, <2>1, EntryChanges
  <1>4. ASSUME NEW m \in Node
        PROVE  RoleChanged(cs.nodes[m], nodes[m], Role(m))
    <2>1. cs.nodes[m] \in NodeState /\ "follower" \in NodeRole
      BY <1>2 DEF NodeRole
    <2>2. RoleChanged(cs.nodes[m], [cs.nodes[m] EXCEPT !.role = "follower"], "follower")
      BY <2>1, EntryChanges
    <2>3. RoleChanged(cs.nodes[m], cs.nodes[m], cs.nodes[m].role)
      BY <2>1 DEF RoleChanged
    <2>4. CASE v = n /\ cs.nodes[n].role # "leader" /\ cs.nodes[m].known
      BY <2>2, <2>4
    <2>5. CASE ~(v = n /\ cs.nodes[n].role # "leader" /\ cs.nodes[m].known)
      <3>1. nodes[m] = cs.nodes[m] /\ Role(m) = cs.nodes[m].role
        BY <2>5
      <3>2. QED
        BY <3>1, <2>3
    <2>6. QED
      BY <2>4, <2>5
  <1>5. nodes \in [Node -> NodeState]
    <2>1. nodes = [m \in Node |-> nodes[m]]
      BY <1>2
    <2>2. QED
      BY <1>4, <2>1 DEF RoleChanged
  <1> HIDE DEF node, nodes, role, Role
  <1>6. result \in [Node -> NodeState] /\ result[n] = node
        /\ \A m \in Node \ {n} : result[m] = nodes[m]
    BY <1>2, <1>3, <1>5 DEF MemberChanged
  <1> HIDE DEF result
  <1>7. LET new == FsmApply(cs, cmd, v)
        IN  new \in State /\ new.nodes = result /\ new.leaderId = cs.leaderId
    BY <1>1, <1>6 DEF State
  <1>8. QED
    BY <1>2, <1>3, <1>4, <1>6, <1>7 DEF role, Role, NodeChanged

\* What a partition change makes of it.
PartitionChanged(cs, cmd, new) ==
    LET n == cmd.node
    IN  /\ new \in State
        /\ new.leaderId = IF cmd.role = "leader" THEN n ELSE cs.leaderId
        /\ PartChanged(cs.nodes[n], new.nodes[n], cmd.state, cmd.role)
        /\ \A m \in Node \ {n} : new.nodes[m] = cs.nodes[m]

LEMMA PartitionChangeResult ==
    ASSUME NEW cs \in State, NEW cmd \in PartitionCmd, NEW v
    PROVE  PartitionChanged(cs, cmd, FsmApply(cs, cmd, v))
  <1> DEFINE n == cmd.node
             node == [cs.nodes[n] EXCEPT !.known = TRUE, !.part = cmd.state,
                                         !.partRole = cmd.role]
             result == [cs.nodes EXCEPT ![n] = node]
             ldr == IF cmd.role = "leader" THEN n ELSE cs.leaderId
  <1>1. FsmApply(cs, cmd, v) = [nodes |-> result, leaderId |-> ldr]
    BY DEF FsmApply, FsmApplyPartitionChange, PartitionCmd
  <1>2. /\ n \in Node /\ cmd.state \in PartState /\ cmd.role \in NodeRole
        /\ cs.nodes \in [Node -> NodeState] /\ ldr \in Node \cup {None}
    BY DEF PartitionCmd, State
  <1>3. PartChanged(cs.nodes[n], node, cmd.state, cmd.role)
    <2>1. cs.nodes[n] \in NodeState
      BY <1>2
    <2>2. QED
      BY <1>2, <2>1, EntryChanges
  <1> HIDE DEF node, ldr
  <1>4. result \in [Node -> NodeState] /\ result[n] = node
        /\ \A m \in Node \ {n} : result[m] = cs.nodes[m]
    BY <1>2, <1>3 DEF PartChanged
  <1> HIDE DEF result
  <1>5. [nodes |-> result, leaderId |-> ldr] \in State
    BY <1>2, <1>4 DEF State
  <1>6. QED
    BY <1>1, <1>2, <1>3, <1>4, <1>5 DEF ldr, PartitionChanged

LEMMA FsmApplyType ==
    ASSUME NEW cs \in State, NEW cmd \in Command, NEW v
    PROVE  FsmApply(cs, cmd, v) \in State
  BY NodeChangeResult, PartitionChangeResult DEF Command, NodeChanged, PartitionChanged

\* A state has at most one leader, and a node that is not known has no role.
OneLeader(cs) ==
    /\ \A m, k \in Node :
          cs.nodes[m].role = "leader" /\ cs.nodes[k].role = "leader" => m = k
    /\ \A m \in Node : ~cs.nodes[m].known => cs.nodes[m].role = "none"

LEMMA FsmApplyKeepsOneLeader ==
    ASSUME NEW cs \in State, NEW cmd \in Command, NEW v, OneLeader(cs)
    PROVE  OneLeader(FsmApply(cs, cmd, v))
  <1> DEFINE new == FsmApply(cs, cmd, v)
  <1>a. cmd.node \in Node
    BY DEF Command, NodeCmd, PartitionCmd
  <1>1. CASE cmd \in NodeCmd
    <2>1. NodeChanged(cs, cmd, v, new)
      BY <1>1, NodeChangeResult
    <2> HIDE DEF new
    <2>2. OneLeader(new)
      BY <1>a, <2>1 DEF OneLeader, NodeChanged, MemberChanged, RoleChanged
    <2>3. QED
      BY <2>2 DEF new
  <1>2. CASE cmd \in PartitionCmd
    <2>1. PartitionChanged(cs, cmd, new)
      BY <1>2, PartitionChangeResult
    <2> HIDE DEF new
    <2>2. OneLeader(new)
      BY <1>a, <2>1 DEF OneLeader, PartitionChanged, PartChanged
    <2>3. QED
      BY <2>2 DEF new
  <1>3. QED
    BY <1>1, <1>2 DEF Command

\* What a command does to everything but the roles: no view of a leader in it.
Effect(sh, cmd) == Shared(FsmApply(sh, cmd, None))

LEMMA SharedFields ==
    ASSUME NEW cs \in State
    PROVE  /\ Shared(cs) \in State
           /\ Shared(cs).leaderId = cs.leaderId
           /\ \A m \in Node : RoleChanged(cs.nodes[m], Shared(cs).nodes[m], "none")
  <1> DEFINE nodes == [m \in Node |-> [cs.nodes[m] EXCEPT !.role = "none"]]
  <1>1. cs.nodes \in [Node -> NodeState] /\ "none" \in NodeRole
    BY DEF State, NodeRole
  <1>2. ASSUME NEW m \in Node
        PROVE  RoleChanged(cs.nodes[m], [cs.nodes[m] EXCEPT !.role = "none"], "none")
    BY <1>1, EntryChanges
  <1>3. nodes \in [Node -> NodeState]
    BY <1>2 DEF RoleChanged
  <1>4. Shared(cs) = [cs EXCEPT !.nodes = nodes]
    BY DEF Shared
  <1>5. Shared(cs) \in State /\ Shared(cs).nodes = nodes /\ Shared(cs).leaderId = cs.leaderId
    <2> HIDE DEF nodes
    <2> QED
      BY <1>3, <1>4 DEF State
  <1>6. QED
    BY <1>2, <1>5

\* Whatever a node takes for the leader, a command has the same effect on the
\* shared part of the state.
LEMMA FsmApplyIsDeterministic ==
    ASSUME NEW cs \in State, NEW cmd \in Command, NEW v
    PROVE  Shared(FsmApply(cs, cmd, v)) = Effect(Shared(cs), cmd)
  <1> DEFINE new == FsmApply(cs, cmd, v)
             eff == FsmApply(Shared(cs), cmd, None)
  <1>1. /\ new \in State /\ eff \in State /\ Shared(cs) \in State
        /\ Shared(new) \in State /\ Shared(eff) \in State
    BY FsmApplyType, SharedFields
  <1>2. /\ new.leaderId = eff.leaderId
        /\ \A m \in Node : /\ new.nodes[m].known = eff.nodes[m].known
                           /\ new.nodes[m].state = eff.nodes[m].state
                           /\ new.nodes[m].part = eff.nodes[m].part
                           /\ new.nodes[m].partRole = eff.nodes[m].partRole
    <2> DEFINE sh == Shared(cs)
    <2>a. /\ cmd.node \in Node
          /\ sh.leaderId = cs.leaderId
          /\ \A m \in Node : RoleChanged(cs.nodes[m], sh.nodes[m], "none")
      BY SharedFields DEF Command, NodeCmd, PartitionCmd
    <2>1. CASE cmd \in NodeCmd
      <3>1. NodeChanged(cs, cmd, v, new) /\ NodeChanged(sh, cmd, None, eff)
        BY <1>1, <2>1, NodeChangeResult
      <3> HIDE DEF new, eff, sh
      <3>2. new.leaderId = eff.leaderId
        BY <2>a, <3>1 DEF NodeChanged
      <3>3. ASSUME NEW m \in Node
            PROVE  /\ new.nodes[m].known = eff.nodes[m].known
                   /\ new.nodes[m].state = eff.nodes[m].state
                   /\ new.nodes[m].part = eff.nodes[m].part
                   /\ new.nodes[m].partRole = eff.nodes[m].partRole
        <4>1. CASE m = cmd.node
          <5>1. /\ MemberChanged(cs.nodes[m], new.nodes[m], cmd.state,
                                 IF v = m THEN "leader" ELSE "follower")
                /\ MemberChanged(sh.nodes[m], eff.nodes[m], cmd.state,
                                 IF None = m THEN "leader" ELSE "follower")
            BY <3>1, <4>1 DEF NodeChanged
          <5>2. sh.nodes[m].part = cs.nodes[m].part /\ sh.nodes[m].partRole = cs.nodes[m].partRole
            BY <2>a DEF RoleChanged
          <5>3. QED
            BY <5>1, <5>2 DEF MemberChanged
        <4>2. CASE m # cmd.node
          BY <2>a, <3>1, <4>2 DEF NodeChanged, MemberChanged, RoleChanged
        <4>3. QED
          BY <4>1, <4>2
      <3>4. QED
        BY <3>2, <3>3
    <2>2. CASE cmd \in PartitionCmd
      <3>1. PartitionChanged(cs, cmd, new) /\ PartitionChanged(sh, cmd, eff)
        BY <1>1, <2>2, PartitionChangeResult
      <3> HIDE DEF new, eff, sh
      <3>2. new.leaderId = eff.leaderId
        BY <2>a, <3>1 DEF PartitionChanged
      <3>3. ASSUME NEW m \in Node
            PROVE  /\ new.nodes[m].known = eff.nodes[m].known
                   /\ new.nodes[m].state = eff.nodes[m].state
                   /\ new.nodes[m].part = eff.nodes[m].part
                   /\ new.nodes[m].partRole = eff.nodes[m].partRole
        <4>1. CASE m = cmd.node
          BY <2>a, <3>1, <4>1 DEF PartitionChanged, PartChanged, RoleChanged
        <4>2. CASE m # cmd.node
          BY <2>a, <3>1, <4>2 DEF PartitionChanged, PartChanged, RoleChanged
        <4>3. QED
          BY <4>1, <4>2
      <3>4. QED
        BY <3>2, <3>3
    <2>3. QED
      BY <2>1, <2>2 DEF Command
  <1> HIDE DEF new, eff
  <1>3. ASSUME NEW m \in Node
        PROVE  Shared(new).nodes[m] = Shared(eff).nodes[m]
    <2>1. Shared(new).nodes[m] \in NodeState /\ Shared(eff).nodes[m] \in NodeState
      BY <1>1 DEF State
    <2>2. QED
      BY <1>1, <1>2, <2>1, NodeStateEqual, SharedFields DEF RoleChanged
  <1>4. Shared(new) = Shared(eff)
    <2>1. Shared(new).leaderId = Shared(eff).leaderId
      BY <1>1, <1>2, SharedFields
    <2>2. QED
      BY <1>1, <1>3, <2>1, StateEqual
  <1>5. QED
    BY <1>4 DEF Effect, new, eff

-----------------------------------------------------------------------------
(* The goroutines.                                                         *)

\* A goroutine that a step gives a new place.
GoAt(x, pc) == x \in Go /\ x.pc = pc /\ (pc = "assign" => x.target \in Node)

LEMMA NoGoIsGo == GoAt(NoGo, "none") /\ GoAt([NoGo EXCEPT !.pc = "begin"], "begin")
  BY DEF GoAt, NoGo, Go, PC

\* The ways in which a step moves a goroutine.
LEMMA GoChanges ==
    ASSUME NEW go \in Go, NEW pc \in PC \ {"assign"}
    PROVE  /\ GoAt([go EXCEPT !.pc = pc], pc)
           /\ \A l \in {"no", "read", "write"} : GoAt([go EXCEPT !.lock = l, !.pc = pc], pc)
           /\ \A v \in Node \cup {None} :
                 /\ GoAt([go EXCEPT !.leaderClient = v, !.pc = pc], pc)
                 /\ GoAt([go EXCEPT !.pc = pc, !.target = v], pc)
  BY DEF GoAt, Go, PC

LEMMA AssignChange ==
    ASSUME NEW go \in Go, NEW m \in Node
    PROVE  GoAt([go EXCEPT !.pc = "assign", !.target = m], "assign")
  BY DEF GoAt, Go, PC

\* One goroutine moves, the others stay.
OneMoved(nf, new, n, g, pc) ==
    /\ Goroutines(new)
    /\ new[n][g].pc = pc
    /\ \A m \in Node, h \in Slot : m # n \/ h # g => new[m][h] = nf[m][h]

LEMMA OneGoMoves ==
    ASSUME NEW nf, Goroutines(nf), NEW n \in Node, NEW g \in Slot,
           NEW x, NEW pc, GoAt(x, pc)
    PROVE  OneMoved(nf, [nf EXCEPT ![n][g] = x], n, g, pc)
  <1> DEFINE new == [nf EXCEPT ![n][g] = x]
  <1>1. new \in [Node -> [Slot -> Go]] /\ new[n][g] = x
    BY DEF GoAt, Goroutines
  <1>2. \A m \in Node, h \in Slot : m # n \/ h # g => new[m][h] = nf[m][h]
    BY DEF Goroutines
  <1> HIDE DEF new
  <1>3. OneMoved(nf, new, n, g, pc)
    BY <1>1, <1>2 DEF GoAt, Goroutines, OneMoved
  <1>4. QED
    BY <1>3 DEF new

\* A goroutine of nf is gone, new or where it was in the result of Spawn.
LEMMA SpawnResult ==
    ASSUME NEW nf, Goroutines(nf), NEW n \in Node
    PROVE  /\ Goroutines(Spawn(nf, n))
           /\ \A m \in Node, g \in Slot :
                 \/ Spawn(nf, n)[m][g].pc \in {"none", "begin"}
                 \/ Spawn(nf, n)[m][g].pc = nf[m][g].pc
  <1> DEFINE old == [g \in Slot |-> Cancel(nf[n][g])]
             h == CHOOSE g \in Slot : /\ old[g].pc = "none"
                                      /\ \A i \in 1 .. g - 1 : old[i].pc # "none"
             slots == [old EXCEPT ![h] = [NoGo EXCEPT !.pc = "begin"]]
  <1>1. Spawn(nf, n) = [nf EXCEPT ![n] = slots]
    BY DEF Spawn
  <1>2. ASSUME NEW g \in Slot
        PROVE  /\ old[g] \in Go
               /\ old[g] = NoGo \/ (old[g].pc = nf[n][g].pc /\ old[g].target = nf[n][g].target)
    <2>1. nf[n][g] \in Go
      BY DEF Goroutines
    <2>2. LET x == [nf[n][g] EXCEPT !.cancelled = TRUE]
          IN  x \in Go /\ x.pc = nf[n][g].pc /\ x.target = nf[n][g].target
      BY <2>1 DEF Go
    <2>3. QED
      BY <2>2, NoGoIsGo DEF Cancel, GoAt
  <1>3. ASSUME NEW g \in Slot
        PROVE  slots[g] = old[g] \/ slots[g] = [NoGo EXCEPT !.pc = "begin"]
    BY <1>3
  <1> HIDE DEF old, h
  <1>4. slots = [g \in Slot |-> slots[g]]
    BY DEF old
  <1> HIDE DEF slots
  <1>5. ASSUME NEW g \in Slot
        PROVE  /\ slots[g] \in Go
               /\ slots[g].pc = "assign" => slots[g].target \in Node
               /\ slots[g].pc \in {"none", "begin"} \/ slots[g].pc = nf[n][g].pc
    <2>1. CASE slots[g] = old[g] /\ old[g] # NoGo
      BY <1>2, <2>1 DEF Goroutines
    <2>2. CASE slots[g] = NoGo
      BY <2>2, NoGoIsGo DEF GoAt
    <2>3. CASE slots[g] = [NoGo EXCEPT !.pc = "begin"]
      BY <2>3, NoGoIsGo DEF GoAt
    <2>4. QED
      BY <1>3, <2>1, <2>2, <2>3
  <1>6. slots \in [Slot -> Go]
    BY <1>4, <1>5
  <1>7. QED
    BY <1>1, <1>5, <1>6 DEF Goroutines

-----------------------------------------------------------------------------
(* What a step does to the log and to the states.                          *)

DataStays == UNCHANGED <<log, applied, state>>

\* The leader m appends a command to the log and applies it.
Writes(m, cmd) ==
    /\ m \in Node /\ cmd \in Command
    /\ applied[m] = Len(log)
    /\ log' = Append(log, cmd)
    /\ applied' = [applied EXCEPT ![m] = @ + 1]
    /\ state' = [state EXCEPT ![m] = FsmApply(@, cmd, view[m])]

\* The node n applies its next command.
Applies(n) ==
    /\ n \in Node
    /\ applied[n] < Len(log)
    /\ log' = log
    /\ applied' = [applied EXCEPT ![n] = @ + 1]
    /\ state' = [state EXCEPT ![n] = FsmApply(@, log[applied[n] + 1], view[n])]

\* The node n forgets its state.
Resets(n) ==
    /\ n \in Node
    /\ log' = log
    /\ applied' = [applied EXCEPT ![n] = 0]
    /\ state' = [state EXCEPT ![n] = NoState]

DataStep == \/ DataStays
            \/ \E m \in Node, cmd \in Command : Writes(m, cmd)
            \/ \E n \in Node : Applies(n) \/ Resets(n)

LEMMA NoStateFields ==
    /\ NoState \in State /\ NoState.leaderId = None
    /\ \A m \in Node : NoState.nodes[m] = NoNode
  BY DEF NoState, NoNode, State, NodeState, NodeRole, PartState

LEMMA DataTypes ==
    ASSUME TypeInv, DataStep
    PROVE  /\ log' \in Seq(Command)
           /\ applied' \in [Node -> Nat]
           /\ \A n \in Node : applied'[n] <= Len(log')
           /\ state' \in [Node -> State]
  <1>a. /\ log \in Seq(Command) /\ applied \in [Node -> Nat] /\ state \in [Node -> State]
        /\ \A n \in Node : applied[n] <= Len(log)
    BY DEF TypeInv
  <1>1. CASE DataStays
    BY <1>a, <1>1 DEF DataStays
  <1>2. ASSUME NEW m \in Node, NEW cmd \in Command, Writes(m, cmd)
        PROVE  /\ log' \in Seq(Command)
               /\ applied' \in [Node -> Nat]
               /\ \A n \in Node : applied'[n] <= Len(log')
               /\ state' \in [Node -> State]
    <2>1. log' \in Seq(Command) /\ Len(log') = Len(log) + 1
      BY <1>a, <1>2 DEF Writes
    <2>2. FsmApply(state[m], cmd, view[m]) \in State
      BY <1>a, FsmApplyType
    <2>3. QED
      BY <1>a, <1>2, <2>1, <2>2 DEF Writes
  <1>3. ASSUME NEW n \in Node, Applies(n)
        PROVE  /\ log' \in Seq(Command)
               /\ applied' \in [Node -> Nat]
               /\ \A m \in Node : applied'[m] <= Len(log')
               /\ state' \in [Node -> State]
    <2>1. log[applied[n] + 1] \in Command
      BY <1>a, <1>3 DEF Applies
    <2>2. FsmApply(state[n], log[applied[n] + 1], view[n]) \in State
      BY <1>a, <2>1, FsmApplyType
    <2>3. QED
      BY <1>a, <1>3, <2>2 DEF Applies
  <1>4. ASSUME NEW n \in Node, Resets(n)
        PROVE  /\ log' \in Seq(Command)
               /\ applied' \in [Node -> Nat]
               /\ \A m \in Node : applied'[m] <= Len(log')
               /\ state' \in [Node -> State]
    BY <1>a, <1>4, NoStateFields DEF Resets
  <1>5. QED
    BY <1>1, <1>2, <1>3, <1>4 DEF DataStep

\* A write reaches the leader, or is lost.
LEMMA WriteResult ==
    ASSUME TypeInv, NEW m \in Node \cup {None}, NEW cmd \in Command,
           NEW nf, Goroutines(nf), Write(m, cmd, nf)
    PROVE  /\ DataStays \/ Writes(m, cmd)
           /\ Goroutines(notif')
           /\ \A k \in Node, g \in Slot : \/ notif'[k][g].pc \in {"none", "begin"}
                                          \/ notif'[k][g].pc = nf[k][g].pc
  <1>1. CASE m # None /\ m = leader
    <2>1. Writes(m, cmd) /\ notif' = Spawn(nf, m)
      BY <1>1 DEF Write, Writes
    <2>2. m \in Node
      BY <1>1
    <2>3. QED
      BY <2>1, <2>2, SpawnResult
  <1>2. CASE ~(m # None /\ m = leader)
    BY <1>2 DEF Write, DataStays
  <1>3. QED
    BY <1>1, <1>2

\* Where the goroutines of a step can be: the goroutine g of n moves to pc, the
\* others are gone, new or where they were.
Moves(n, g, pc) ==
    /\ Goroutines(notif')
    /\ notif'[n][g].pc \in {"none", "begin", pc}
    /\ \A m \in Node, h \in Slot :
          m # n \/ h # g => \/ notif'[m][h].pc \in {"none", "begin"}
                            \/ notif'[m][h].pc = notif[m][h].pc

LEMMA LocalMove ==
    ASSUME TypeInv, NEW n \in Node, NEW g \in Slot, NEW x, NEW pc, GoAt(x, pc),
           notif' = [notif EXCEPT ![n][g] = x]
    PROVE  Moves(n, g, pc)
  <1>1. Goroutines(notif)
    BY DEF TypeInv
  <1>2. OneMoved(notif, notif', n, g, pc)
    BY <1>1, OneGoMoves
  <1>3. QED
    BY <1>2 DEF OneMoved, Moves

LEMMA WritingMove ==
    ASSUME TypeInv, NEW n \in Node, NEW g \in Slot, NEW x, NEW pc, GoAt(x, pc),
           NEW m \in Node \cup {None}, NEW cmd \in Command,
           Write(m, cmd, [notif EXCEPT ![n][g] = x])
    PROVE  Moves(n, g, pc) /\ (DataStays \/ Writes(m, cmd))
  <1> DEFINE nf == [notif EXCEPT ![n][g] = x]
  <1>1. OneMoved(notif, nf, n, g, pc)
    <2>1. Goroutines(notif)
      BY DEF TypeInv
    <2>2. QED
      BY <2>1, OneGoMoves
  <1>2. Write(m, cmd, nf)
    OBVIOUS
  <1> HIDE DEF nf
  <1>3. /\ DataStays \/ Writes(m, cmd)
        /\ Goroutines(notif')
        /\ \A k \in Node, h \in Slot : \/ notif'[k][h].pc \in {"none", "begin"}
                                       \/ notif'[k][h].pc = nf[k][h].pc
    BY <1>1, <1>2, WriteResult DEF OneMoved
  <1>4. QED
    BY <1>1, <1>3 DEF Moves, OneMoved

\* The command of a node that reports itself as initialized leader.
LeaderReport(cmd) ==
    /\ cmd \in PartitionCmd
    /\ cmd.state = "initialized" /\ cmd.role = "leader"

\* What a step of the goroutine g of n does to the goroutines and to the engine of
\* n: it goes to createEngine and to the report only with a leader of the partition,
\* and past the engine only when n is not that leader or has one.
GoesOn(n, g) ==
    /\ UNCHANGED <<partLeader, partElections>>
    /\ \/ /\ \E pc \in PC \ {"createEngine", "report"} : Moves(n, g, pc)
          /\ UNCHANGED engine
       \/ /\ \E pc \in {"createEngine", "report"} :
                Moves(n, g, pc) /\ (pc = "report" /\ partLeader = n => engine[n] # 0)
          /\ partLeader # None
          /\ UNCHANGED engine
       \/ /\ Moves(n, g, "report")
          /\ notif[n][g].pc = "createEngine"
          /\ engine' = [engine EXCEPT ![n] = @ + 1]

\* ... and to the log.
Reports(n, g) ==
    \/ DataStays
    \/ \E m \in Node, cmd \in Command :
          /\ Writes(m, cmd)
          /\ LeaderReport(cmd) => cmd.node = n /\ partLeader = n /\ notif[n][g].pc = "report"

Stays == UNCHANGED <<members, leader, view, up, notifying>>

LEMMA NotificationStep ==
    ASSUME TypeInv, NEW n \in Node, NEW g \in Slot,
           Notification(n, g), ~startPartitionNodeFails(n, g)
    PROVE  GoesOn(n, g) /\ Reports(n, g) /\ Stays /\ UNCHANGED faults
  <1> DEFINE go == notif[n][g]
  <1>a. /\ go \in Go /\ view[n] \in Node \cup {None}
        /\ go.leaderClient \in Node \cup {None}
        /\ go.pc = "assign" => go.target \in Node
    BY DEF TypeInv, Goroutines, Go
  \* A step that only moves the goroutine.
  <1>b. ASSUME NEW x, NEW pc \in PC \ {"createEngine", "report"}, GoAt(x, pc),
               notif' = [notif EXCEPT ![n][g] = x],
               UNCHANGED <<raftVars, storeVars, engine, partLeader, partElections, faults>>
        PROVE  GoesOn(n, g) /\ Reports(n, g) /\ Stays /\ UNCHANGED faults
    <2>1. Moves(n, g, pc)
      BY <1>b, LocalMove
    <2>2. QED
      BY <1>b, <2>1 DEF GoesOn, Reports, DataStays, Stays, raftVars, storeVars
  <1>c. ASSUME Leave
        PROVE  UNCHANGED <<raftVars, storeVars, engine, partLeader, partElections, faults>>
    BY <1>c DEF Leave, partVars
  <1>1. CASE performLeaderOperations(n, g)
    <2>1. CASE Goto(n, g, "member")
      <3>1. GoAt([go EXCEPT !.pc = "member"], "member")
        BY <1>a, GoChanges DEF PC
      <3>2. notif' = [notif EXCEPT ![n][g] = [go EXCEPT !.pc = "member"]]
        BY <2>1 DEF Goto
      <3>3. QED
        BY <1>1, <3>1, <3>2, <1>b, <1>c DEF performLeaderOperations, PC
    <2>2. ASSUME NEW m \in Node,
                 notif' = [notif EXCEPT ![n][g] = [@ EXCEPT !.pc = "assign", !.target = m]]
          PROVE  GoesOn(n, g) /\ Reports(n, g) /\ Stays /\ UNCHANGED faults
      <3>1. GoAt([go EXCEPT !.pc = "assign", !.target = m], "assign")
        BY <1>a, AssignChange
      <3>2. notif' = [notif EXCEPT ![n][g] = [go EXCEPT !.pc = "assign", !.target = m]]
        BY <2>2
      <3>3. QED
        BY <1>1, <3>1, <3>2, <1>b, <1>c DEF performLeaderOperations, PC
    <2>3. QED
      BY <1>1, <2>1, <2>2 DEF performLeaderOperations
  <1>2. CASE performMemberOperations(n, g)
    <2>1. CASE End(n, g)
      BY <1>2, <2>1, <1>b, <1>c, NoGoIsGo DEF performMemberOperations, End, PC
    <2>2. CASE ~End(n, g)
      <3> DEFINE part == state[n].nodes[n].part
                 pc == CASE part = "joining" -> "lockJoining"
                         [] part = "initializing" -> "rlock"
                         [] part = "initialized" -> "lockInitialized"
      <3>1. part \in PartState
        BY DEF TypeInv, State, NodeState
      <3>2. part # "none" /\ notif' = [notif EXCEPT ![n][g] = [go EXCEPT !.leaderClient = view[n], !.pc = pc]]
        BY <1>2, <2>2 DEF performMemberOperations
      <3>3. pc \in PC \ {"assign", "createEngine", "report"}
        BY <3>1, <3>2 DEF PartState, PC
      <3> HIDE DEF pc
      <3>4. GoAt([go EXCEPT !.leaderClient = view[n], !.pc = pc], pc)
        BY <1>a, <3>3, GoChanges
      <3>5. QED
        BY <1>2, <3>2, <3>3, <3>4, <1>b, <1>c DEF performMemberOperations
    <2>3. QED
      BY <2>1, <2>2
  \* The goroutine ends, or takes the lock and goes on to pc.
  <1>d. ASSUME Leave, NEW pc \in PC \ {"assign", "createEngine", "report"},
               End(n, g) \/ Lock(n, g, pc) \/ Goto(n, g, pc)
        PROVE  GoesOn(n, g) /\ Reports(n, g) /\ Stays /\ UNCHANGED faults
    <2>1. CASE End(n, g)
      BY <1>d, <2>1, <1>b, <1>c, NoGoIsGo DEF End, PC
    <2>2. CASE Lock(n, g, pc)
      <3>1. GoAt([go EXCEPT !.lock = "write", !.pc = pc], pc)
        BY <1>a, GoChanges
      <3>2. notif' = [notif EXCEPT ![n][g] = [go EXCEPT !.lock = "write", !.pc = pc]]
        BY <2>2 DEF Lock
      <3>3. QED
        BY <1>d, <3>1, <3>2, <1>b, <1>c
    <2>3. CASE Goto(n, g, pc)
      <3>1. GoAt([go EXCEPT !.pc = pc], pc)
        BY <1>a, GoChanges
      <3>2. notif' = [notif EXCEPT ![n][g] = [go EXCEPT !.pc = pc]]
        BY <2>3 DEF Goto
      <3>3. QED
        BY <1>d, <3>1, <3>2, <1>b, <1>c
    <2>4. QED
      BY <1>d, <2>1, <2>2, <2>3
  <1>3. CASE handlePartitionStateJoining(n, g) \/ handlePartitionStateInitialized(n, g)
    BY <1>3, <1>d DEF handlePartitionStateJoining, handlePartitionStateInitialized, PC
  <1>4. CASE handlePartitionStateInitializing(n, g)
    <2>1. CASE running[n]
      <3>1. GoAt([go EXCEPT !.lock = "read", !.pc = "waitLeader"], "waitLeader")
        BY <1>a, GoChanges DEF PC
      <3>2. notif' = [notif EXCEPT ![n][g] = [go EXCEPT !.lock = "read", !.pc = "waitLeader"]]
        BY <1>4, <2>1 DEF handlePartitionStateInitializing
      <3>3. QED
        BY <1>4, <3>1, <3>2, <1>b, <1>c DEF handlePartitionStateInitializing, PC
    <2>2. CASE ~running[n]
      BY <1>4, <2>2, <1>d DEF handlePartitionStateInitializing, PC
    <2>3. QED
      BY <2>1, <2>2
  <1>5. CASE startPartitionNode(n, g)
    <2>1. GoAt([go EXCEPT !.pc = "waitLeader"], "waitLeader")
      BY <1>a, GoChanges DEF PC
    <2>2. notif' = [notif EXCEPT ![n][g] = [go EXCEPT !.pc = "waitLeader"]]
      BY <1>5 DEF startPartitionNode, Goto
    <2>3. QED
      BY <1>5, <2>1, <2>2, <1>b DEF startPartitionNode, PC
  <1>6. CASE waitForLeader(n, g)
    <2>1. CASE cancelled(n, g)
      BY <1>6, <2>1, <1>d DEF waitForLeader, PC
    <2>2. CASE ~cancelled(n, g)
      <3> DEFINE pc == IF engine[n] = 0 /\ partLeader = n THEN "createEngine" ELSE "report"
      <3>1. pc \in {"createEngine", "report"} /\ (pc = "report" /\ partLeader = n => engine[n] # 0)
        OBVIOUS
      <3>2. notif' = [notif EXCEPT ![n][g] = [go EXCEPT !.pc = pc]]
        BY <1>6, <2>2 DEF waitForLeader, Goto
      <3> HIDE DEF pc
      <3>3. GoAt([go EXCEPT !.pc = pc], pc)
        BY <1>a, <3>1, GoChanges DEF PC
      <3>4. Moves(n, g, pc)
        BY <3>2, <3>3, LocalMove
      <3>5. GoesOn(n, g)
        BY <1>6, <3>1, <3>4 DEF waitForLeader, GoesOn, Leave, partVars
      <3>6. QED
        BY <1>6, <3>5 DEF waitForLeader, Leave, Reports, DataStays, Stays, raftVars, storeVars
    <2>3. QED
      BY <2>1, <2>2
  <1>7. CASE createEngine(n, g)
    <2>1. GoAt([go EXCEPT !.pc = "report"], "report")
      BY <1>a, GoChanges DEF PC
    <2>2. notif' = [notif EXCEPT ![n][g] = [go EXCEPT !.pc = "report"]]
      BY <1>7 DEF createEngine, Goto
    <2>3. Moves(n, g, "report")
      BY <2>1, <2>2, LocalMove
    <2>4. QED
      BY <1>7, <2>3 DEF createEngine, At, GoesOn, Reports, DataStays, Stays, raftVars, storeVars
  \* A step that writes a command.
  <1>e. ASSUME LeaveRest, NEW x, NEW pc \in PC \ {"createEngine", "report"}, GoAt(x, pc),
               NEW m \in Node \cup {None}, NEW cmd \in Command,
               Write(m, cmd, [notif EXCEPT ![n][g] = x]),
               LeaderReport(cmd) => cmd.node = n /\ partLeader = n /\ notif[n][g].pc = "report"
        PROVE  GoesOn(n, g) /\ Reports(n, g) /\ Stays /\ UNCHANGED faults
    <2>1. Moves(n, g, pc) /\ (DataStays \/ Writes(m, cmd))
      BY <1>e, WritingMove
    <2>2. GoesOn(n, g)
      BY <1>e, <2>1 DEF LeaveRest, partVars, GoesOn
    <2>3. Reports(n, g)
      BY <1>e, <2>1 DEF Reports, Writes
    <2>4. QED
      BY <1>e, <2>2, <2>3 DEF LeaveRest, Stays
  <1>8. CASE assignPartition(n, g)
    <2> DEFINE cmd == PartitionChange(go.target, "joining", "none")
               x == IF n = leader \/ go.cancelled THEN NoGo
                    ELSE [go EXCEPT !.pc = "member", !.target = None]
    <2>1. cmd \in Command /\ ~LeaderReport(cmd)
      BY <1>8, <1>a DEF assignPartition, At, PartitionChange, Command, PartitionCmd,
                        PartState, NodeRole, LeaderReport
    <2>2. \E pc \in {"none", "member"} : GoAt(x, pc)
      BY <1>a, NoGoIsGo, GoChanges DEF PC
    <2>3. Write(n, cmd, [notif EXCEPT ![n][g] = x]) /\ LeaveRest
      BY <1>8 DEF assignPartition
    <2> HIDE DEF cmd, x
    <2>4. QED
      BY <2>1, <2>2, <2>3, <1>e DEF PC
  <1>9. CASE sendInitializing(n, g)
    <2> DEFINE cmd == PartitionChange(n, "initializing",
                                      IF IsLeader(n) THEN "leader" ELSE "follower")
               x == [go EXCEPT !.pc = "start"]
    <2>1. cmd \in Command /\ ~LeaderReport(cmd)
      BY DEF PartitionChange, Command, PartitionCmd, PartState, NodeRole, LeaderReport
    <2>2. GoAt(x, "start")
      BY <1>a, GoChanges DEF PC
    <2>3. Write(go.leaderClient, cmd, [notif EXCEPT ![n][g] = x]) /\ LeaveRest
      BY <1>9 DEF sendInitializing, NodeCommand
    <2> HIDE DEF cmd, x
    <2>4. QED
      BY <1>a, <2>1, <2>2, <2>3, <1>e DEF PC
  <1>10. CASE reportInitialized(n, g)
    <2> DEFINE cmd == PartitionChange(n, "initialized",
                                      IF partLeader = n THEN "leader" ELSE "follower")
    <2>1. /\ cmd \in Command
          /\ LeaderReport(cmd) => cmd.node = n /\ partLeader = n
      BY DEF PartitionChange, Command, PartitionCmd, PartState, NodeRole, LeaderReport
    <2>2. Write(go.leaderClient, cmd, [notif EXCEPT ![n][g] = NoGo]) /\ LeaveRest
          /\ go.pc = "report"
      BY <1>10 DEF reportInitialized, NodeCommand, At
    <2> HIDE DEF cmd
    <2>3. QED
      BY <1>a, <2>1, <2>2, <1>e, NoGoIsGo DEF PC
  <1>11. QED
    BY <1>1, <1>2, <1>3, <1>4, <1>5, <1>6, <1>7, <1>8, <1>9, <1>10 DEF Notification

-----------------------------------------------------------------------------
(* Types.                                                                  *)

LEMMA InitTypeInv == Init => TypeInv
  <1> SUFFICES ASSUME Init
               PROVE  TypeInv
    OBVIOUS
  <1>1. Goroutines(notif)
    BY NoGoIsGo DEF Init, Goroutines, GoAt
  <1>2. state \in [Node -> State]
    BY NoStateFields DEF Init
  <1>3. QED
    BY <1>1, <1>2 DEF Init, TypeInv

\* A restart of n leaves n without state and without goroutines.
LEMMA RestartStep ==
    ASSUME TypeInv, NEW n \in Node, Restart(n)
    PROVE  TypeInv' /\ Resets(n) /\ faults' = faults + 1
  <1>1. Resets(n) /\ faults' = faults + 1
    BY DEF Restart, Resets
  <1>2. Goroutines(notif')
    <2>1. notif' \in [Node -> [Slot -> Go]]
          /\ \A m \in Node, g \in Slot : notif'[m][g] = NoGo \/ notif'[m][g] = notif[m][g]
      BY NoGoIsGo DEF Restart, TypeInv, Goroutines, GoAt
    <2>2. QED
      BY <2>1, NoGoIsGo DEF TypeInv, Goroutines, GoAt
  <1>3. /\ log' \in Seq(Command) /\ applied' \in [Node -> Nat]
        /\ \A m \in Node : applied'[m] <= Len(log')
        /\ state' \in [Node -> State]
    BY <1>1, DataTypes DEF DataStep
  <1>4. /\ members' \subseteq Node /\ leader' \in Node \cup {None}
        /\ view' \in [Node -> Node \cup {None}] /\ up' \in [Node -> BOOLEAN]
        /\ notifying' \in [Node -> SUBSET Node]
    BY DEF Restart, TypeInv
  <1>5. /\ engine' \in [Node -> Nat] /\ partLeader' \in Node \cup {None}
        /\ partElections' \in Nat /\ faults' \in Nat
    BY DEF Restart, TypeInv
  <1>6. QED
    BY <1>1, <1>2, <1>3, <1>4, <1>5 DEF TypeInv

\* The commands that the store's observer writes.
LEMMA ObserverStep ==
    ASSUME TypeInv, NEW n \in Node, NEW m \in Node,
           NEW st \in {"started", "shutdown"}, Write(n, NodeChange(m, st), notif)
    PROVE  /\ Goroutines(notif')
           /\ \A k \in Node, g \in Slot : \/ notif'[k][g].pc \in {"none", "begin"}
                                          \/ notif'[k][g].pc = notif[k][g].pc
           /\ DataStays \/ \E cmd \in NodeCmd : Writes(n, cmd)
  <1>1. NodeChange(m, st) \in NodeCmd
    BY DEF NodeChange, NodeCmd
  <1>2. QED
    BY <1>1, WriteResult DEF TypeInv, Command

\* The steps in which the goroutines do not act: the cluster forms, raft elects and
\* replicates, the observer writes.
Others(n) ==
    \/ Form(n) \/ Elect(n) \/ LearnLeader(n) \/ Observe(n) \/ Apply(n)
    \/ \E m \in Node : shutdownNode(n, m)

LEMMA OthersStep ==
    ASSUME TypeInv, NEW n \in Node, Others(n)
    PROVE  /\ TypeInv'
           /\ \A k \in Node, g \in Slot : \/ notif'[k][g].pc \in {"none", "begin"}
                                          \/ notif'[k][g].pc = notif[k][g].pc
           /\ DataStays \/ (\E m \in Node, cmd \in NodeCmd : Writes(m, cmd)) \/ Applies(n)
           /\ UNCHANGED <<engine, partLeader, partElections>>
           /\ faults' \in Nat /\ faults' >= faults
  <1> DEFINE Calm == \A k \in Node, g \in Slot : \/ notif'[k][g].pc \in {"none", "begin"}
                                                 \/ notif'[k][g].pc = notif[k][g].pc
             Data == DataStays \/ (\E m \in Node, cmd \in NodeCmd : Writes(m, cmd)) \/ Applies(n)
             Cluster == /\ members' \subseteq Node /\ leader' \in Node \cup {None}
                        /\ view' \in [Node -> Node \cup {None}] /\ up' \in [Node -> BOOLEAN]
                        /\ notifying' \in [Node -> SUBSET Node]
             Rest == /\ UNCHANGED <<engine, partLeader, partElections>>
                     /\ faults' \in Nat /\ faults' >= faults
  <1>a. /\ members \subseteq Node /\ leader \in Node \cup {None}
        /\ view \in [Node -> Node \cup {None}] /\ up \in [Node -> BOOLEAN]
        /\ notifying \in [Node -> SUBSET Node] /\ faults \in Nat
        /\ Goroutines(notif) /\ MaxFaults \in Nat
    BY ClusterStateAssumption DEF TypeInv
  <1>b. ASSUME Data, Goroutines(notif'), Cluster, Rest
        PROVE  TypeInv'
    <2>1. DataStep
      BY <1>b DEF DataStep, Command
    <2>2. QED
      BY <1>b, <2>1, DataTypes DEF TypeInv
  <1>1. CASE StartZenNode(n) \/ Join(n)
    <2>1. Cluster
      BY <1>1, <1>a DEF StartZenNode, Open, Join, raftVars
    <2>2. Data /\ Rest /\ Calm /\ notif' = notif
      BY <1>1, <1>a DEF StartZenNode, Join, raftVars, partVars, DataStays
    <2>3. QED
      BY <1>a, <1>b, <2>1, <2>2
  <1>2. CASE Notify(n)
    <2> DEFINE heard == [m \in Node |-> notifying[m] \cup {n}]
               open == {m \in Node : view[m] = None /\ ~bootstrapped[m]}
               enough == {m \in Node : Cardinality(heard[m]) >= BootstrapExpect}
               Told(T) == {m \in T \cap open : n \notin notifying[m]}
    <2>1. PICK T \in notify :
             /\ notifying' = [m \in Node |-> IF m \in Told(T) THEN heard[m] ELSE notifying[m]]
             /\ members' = IF members = {} /\ Told(T) \cap enough # {}
                           THEN heard[CHOOSE m \in Told(T) \cap enough : TRUE]
                           ELSE members
      BY <1>2 DEF Notify
    <2>2. notifying' \in [Node -> SUBSET Node]
      BY <1>a, <2>1
    <2>3. members' \subseteq Node
      <3>1. heard \in [Node -> SUBSET Node]
        BY <1>a
      <3> DEFINE both == Told(T) \cap enough
      <3>2. both \subseteq Node
        OBVIOUS
      <3>3. members' = IF members = {} /\ both # {} THEN heard[CHOOSE m \in both : TRUE]
                                                    ELSE members
        BY <2>1
      <3> HIDE DEF heard, both
      <3>4. CASE both = {}
        BY <1>a, <3>3, <3>4
      <3>5. CASE both # {}
        <4>1. (CHOOSE m \in both : TRUE) \in Node
          BY <3>2, <3>5
        <4>2. QED
          BY <1>a, <3>1, <3>3, <4>1
      <3>6. QED
        BY <3>4, <3>5
    <2>4. Cluster
      BY <1>2, <1>a, <2>2, <2>3 DEF Notify
    <2>5. Data /\ Rest /\ Calm /\ notif' = notif
      BY <1>2, <1>a DEF Notify, partVars, DataStays
    <2>6. QED
      BY <1>a, <1>b, <2>4, <2>5
  <1>3. CASE Elect(n) \/ LearnLeader(n)
    <2>1. Cluster
      BY <1>3, <1>a DEF Elect, LearnLeader, storeVars
    <2>2. Data /\ Calm /\ notif' = notif
      BY <1>3 DEF Elect, LearnLeader, storeVars, DataStays
    <2>3. Rest
      BY <1>3, <1>a DEF Elect, LearnLeader, partVars
    <2>4. QED
      BY <1>a, <1>b, <2>1, <2>2, <2>3
  <1>4. CASE Observe(n)
    <2>1. PICK m, o : /\ m \in Node
                      /\ Observation(n, o)
                      /\ \/ Write(n, NodeChange(m, "started"), notif)
                         \/ UNCHANGED <<log, applied, state, notif>>
      BY <1>4 DEF Observe, selfLeaderChange, addNewNode
    <2>2. Cluster /\ Rest
      BY <1>a, <2>1 DEF Observation, partVars
    <2>3. Data /\ Calm /\ Goroutines(notif')
      <3>1. CASE Write(n, NodeChange(m, "started"), notif)
        BY <2>1, <3>1, ObserverStep
      <3>2. CASE UNCHANGED <<log, applied, state, notif>>
        BY <3>2, <1>a DEF DataStays
      <3>3. QED
        BY <2>1, <3>1, <3>2
    <2>4. QED
      BY <1>b, <2>2, <2>3
  <1>5. CASE \E m \in Node : shutdownNode(n, m)
    <2>1. PICK m \in Node : shutdownNode(n, m)
      BY <1>5
    <2>2. Cluster /\ Rest
      BY <1>a, <2>1 DEF shutdownNode, partVars
    <2>3. Data /\ Calm /\ Goroutines(notif')
      BY <2>1, ObserverStep DEF shutdownNode
    <2>4. QED
      BY <1>b, <2>2, <2>3
  <1>6. CASE Apply(n)
    <2>1. Cluster /\ Rest
      BY <1>6, <1>a DEF Apply, raftVars, partVars
    <2>2. Data
      BY <1>6 DEF Apply, Applies, raftVars
    <2>3. Calm /\ Goroutines(notif')
      BY <1>6, <1>a, SpawnResult DEF Apply
    <2>4. QED
      BY <1>b, <2>1, <2>2, <2>3
  <1>7. QED
    BY <1>1, <1>2, <1>3, <1>4, <1>5, <1>6 DEF Others, Form

LEMMA ElectPartitionLeaderTypes ==
    ASSUME TypeInv, NEW n \in Node, ElectPartitionLeader(n)
    PROVE  TypeInv' /\ DataStays
  BY DEF TypeInv, ElectPartitionLeader, raftVars, storeVars, DataStays, Goroutines

LEMMA TimeoutStep ==
    ASSUME TypeInv, NEW n \in Node, NEW g \in Slot, waitForLeaderTimeout(n, g)
    PROVE  TypeInv' /\ DataStays /\ faults' = faults + 1
  <1>1. Moves(n, g, "none")
    BY NoGoIsGo, LocalMove DEF waitForLeaderTimeout, End
  <1>2. DataStays /\ faults' = faults + 1
    BY DEF waitForLeaderTimeout, storeVars, raftVars, DataStays
  <1>3. QED
    BY <1>1, <1>2 DEF waitForLeaderTimeout, Moves, TypeInv, raftVars, storeVars, partVars

LEMMA NotificationTypes ==
    ASSUME TypeInv, NEW n \in Node, NEW g \in Slot,
           Notification(n, g), ~startPartitionNodeFails(n, g)
    PROVE  TypeInv'
  <1>1. GoesOn(n, g) /\ Reports(n, g) /\ Stays /\ UNCHANGED faults
    BY NotificationStep
  <1>2. /\ log' \in Seq(Command) /\ applied' \in [Node -> Nat]
        /\ \A m \in Node : applied'[m] <= Len(log')
        /\ state' \in [Node -> State]
    BY <1>1, DataTypes DEF Reports, DataStep
  <1>3. Goroutines(notif') /\ engine' \in [Node -> Nat]
    BY <1>1 DEF GoesOn, Moves, TypeInv
  <1>4. QED
    BY <1>1, <1>2, <1>3 DEF GoesOn, Stays, TypeInv

\* Every step is one of the steps above.
LEMMA NextCases ==
    ASSUME Next
    PROVE  \E n \in Node :
              \/ Others(n) \/ Restart(n) \/ ElectPartitionLeader(n)
              \/ \E g \in Slot :
                    \/ Notification(n, g) /\ ~startPartitionNodeFails(n, g)
                    \/ waitForLeaderTimeout(n, g)
  BY DEF Next, Others, startPartitionNodeFails

\* The variables keep their types, and the log and the states change in the ways of
\* DataStep only.
LEMMA TypeStep == TypeInv /\ [Next]_vars => TypeInv' /\ DataStep
  <1> SUFFICES ASSUME TypeInv, [Next]_vars
               PROVE  TypeInv' /\ DataStep
    OBVIOUS
  <1>1. CASE UNCHANGED vars
    <2>1. DataStep
      BY <1>1 DEF vars, raftVars, storeVars, DataStep, DataStays
    <2>2. QED
      BY <1>1, <2>1 DEF vars, raftVars, storeVars, partVars, TypeInv, Goroutines
  <1>2. ASSUME NEW n \in Node, Others(n)
        PROVE  TypeInv' /\ DataStep
    BY <1>2, OthersStep DEF DataStep, Command
  <1>3. ASSUME NEW n \in Node, Restart(n)
        PROVE  TypeInv' /\ DataStep
    BY <1>3, RestartStep DEF DataStep
  <1>4. ASSUME NEW n \in Node, ElectPartitionLeader(n)
        PROVE  TypeInv' /\ DataStep
    BY <1>4, ElectPartitionLeaderTypes DEF DataStep
  <1>5. ASSUME NEW n \in Node, NEW g \in Slot, Notification(n, g), ~startPartitionNodeFails(n, g)
        PROVE  TypeInv' /\ DataStep
    BY <1>5, NotificationTypes, NotificationStep DEF Reports, DataStep
  <1>6. ASSUME NEW n \in Node, NEW g \in Slot, waitForLeaderTimeout(n, g)
        PROVE  TypeInv' /\ DataStep
    BY <1>6, TimeoutStep DEF DataStep
  <1>7. QED
    BY <1>1, <1>2, <1>3, <1>4, <1>5, <1>6, NextCases

-----------------------------------------------------------------------------
(* At most one leader.                                                     *)

LeadersInv == \A n \in Node : OneLeader(state[n])

LEMMA LeadersStep == TypeInv /\ LeadersInv /\ DataStep => LeadersInv'
  <1> SUFFICES ASSUME TypeInv, LeadersInv, DataStep, NEW k \in Node
               PROVE  OneLeader(state'[k])
    BY DEF LeadersInv
  <1>a. state \in [Node -> State] /\ log \in Seq(Command) /\ applied \in [Node -> Nat]
    BY DEF TypeInv
  <1>b. OneLeader(state[k])
    BY DEF LeadersInv
  <1>1. CASE state'[k] = state[k]
    BY <1>1, <1>b
  <1>2. ASSUME NEW cmd \in Command, NEW v, state'[k] = FsmApply(state[k], cmd, v)
        PROVE  OneLeader(state'[k])
    BY <1>2, <1>a, <1>b, FsmApplyKeepsOneLeader
  <1>3. CASE \E m \in Node, cmd \in Command : Writes(m, cmd)
    <2>1. PICK m \in Node, cmd \in Command : Writes(m, cmd)
      BY <1>3
    <2>2. state'[k] = state[k] \/ state'[k] = FsmApply(state[k], cmd, view[k])
      BY <1>a, <2>1 DEF Writes
    <2>3. QED
      BY <1>1, <1>2, <2>2
  <1>4. CASE \E n \in Node : Applies(n)
    <2>1. PICK n \in Node : Applies(n)
      BY <1>4
    <2>2. log[applied[n] + 1] \in Command
      BY <1>a, <2>1 DEF Applies
    <2>3. \/ state'[k] = state[k]
          \/ state'[k] = FsmApply(state[k], log[applied[n] + 1], view[k])
      BY <1>a, <2>1 DEF Applies
    <2>4. QED
      BY <1>1, <1>2, <2>2, <2>3
  <1>5. CASE \E n \in Node : Resets(n)
    <2>1. state'[k] = state[k] \/ state'[k] = NoState
      BY <1>a, <1>5 DEF Resets
    <2>2. OneLeader(NoState)
      BY NoStateFields DEF OneLeader, NoNode
    <2>3. QED
      BY <1>1, <2>1, <2>2
  <1>6. QED
    BY <1>1, <1>3, <1>4, <1>5 DEF DataStep, DataStays

-----------------------------------------------------------------------------
(* The replicas.                                                           *)

\* h is the history of the shared state along the log: h[k] is what the first k
\* commands make of the empty state, and every replica is somewhere on it.
IsHistory(h) ==
    /\ h[0] = Shared(NoState)
    /\ \A k \in 1 .. Len(log) : h[k] = Effect(h[k - 1], log[k])
    /\ \A n \in Node : Shared(state[n]) = h[applied[n]]

OneHistory == \E h : IsHistory(h)

LEMMA HistoryStep == TypeInv /\ OneHistory /\ DataStep => OneHistory'
  <1> SUFFICES ASSUME TypeInv, OneHistory, DataStep
               PROVE  OneHistory'
    OBVIOUS
  <1>a. /\ state \in [Node -> State] /\ log \in Seq(Command) /\ applied \in [Node -> Nat]
        /\ \A n \in Node : applied[n] <= Len(log)
        /\ Len(log) \in Nat
    BY DEF TypeInv
  <1>1. PICK h : IsHistory(h)
    BY DEF OneHistory
  <1>2. CASE DataStays
    BY <1>1, <1>2 DEF DataStays, OneHistory, IsHistory
  <1>3. ASSUME NEW m \in Node, NEW cmd \in Command, Writes(m, cmd)
        PROVE  OneHistory'
    <2> DEFINE last == Len(log)
               new == [k \in 0 .. (last + 1) |-> IF k <= last THEN h[k]
                                                 ELSE Effect(h[last], cmd)]
    <2>1. /\ Len(log') = last + 1 /\ log'[last + 1] = cmd
          /\ \A k \in 1 .. last : log'[k] = log[k]
      BY <1>a, <1>3 DEF Writes
    <2>2. new[0] = Shared(NoState)
      BY <1>a, <1>1 DEF IsHistory
    <2>3. ASSUME NEW k \in 1 .. Len(log')
          PROVE  new[k] = Effect(new[k - 1], log'[k])
      <3>1. CASE k <= last
        <4>1. new[k] = h[k] /\ new[k - 1] = h[k - 1] /\ log'[k] = log[k] /\ k \in 1 .. last
          BY <1>a, <2>1, <2>3, <3>1
        <4>2. h[k] = Effect(h[k - 1], log[k])
          BY <1>1, <4>1 DEF IsHistory
        <4>3. QED
          BY <4>1, <4>2
      <3>2. CASE k = last + 1
        <4>1. new[k] = Effect(h[last], cmd) /\ new[k - 1] = h[last] /\ log'[k] = cmd
          BY <1>a, <2>1, <3>2
        <4>2. QED
          BY <4>1
      <3>3. QED
        BY <1>a, <2>1, <2>3, <3>1, <3>2
    <2>4. ASSUME NEW n \in Node
          PROVE  Shared(state'[n]) = new[applied'[n]]
      <3>1. CASE n # m
        <4>1. state'[n] = state[n] /\ applied'[n] = applied[n]
          BY <1>a, <1>3, <3>1 DEF Writes
        <4>2. new[applied[n]] = h[applied[n]]
          BY <1>a
        <4>3. QED
          BY <1>1, <4>1, <4>2 DEF IsHistory
      <3>2. CASE n = m
        <4>1. /\ state'[m] = FsmApply(state[m], cmd, view[m])
              /\ applied'[m] = last + 1 /\ applied[m] = last
          BY <1>a, <1>3 DEF Writes
        <4>2. new[last + 1] = Effect(h[last], cmd)
          BY <1>a
        <4>3. Shared(state[m]) = h[last]
          BY <1>1, <4>1 DEF IsHistory
        <4>4. Shared(state'[m]) = Effect(Shared(state[m]), cmd)
          BY <1>a, <4>1, FsmApplyIsDeterministic
        <4>5. QED
          BY <3>2, <4>1, <4>2, <4>3, <4>4
      <3>3. QED
        BY <3>1, <3>2
    <2> HIDE DEF new
    <2>5. QED
      BY <2>2, <2>3, <2>4 DEF OneHistory, IsHistory
  <1>4. ASSUME NEW n \in Node, Applies(n)
        PROVE  OneHistory'
    <2> DEFINE k == applied[n] + 1
    <2>1. /\ k \in 1 .. Len(log) /\ log[k] \in Command /\ k - 1 = applied[n]
          /\ log' = log /\ applied'[n] = k
          /\ state'[n] = FsmApply(state[n], log[k], view[n])
      BY <1>a, <1>4 DEF Applies
    <2>2. Shared(state'[n]) = h[applied'[n]]
      <3>1. Shared(state'[n]) = Effect(Shared(state[n]), log[k])
        BY <1>a, <2>1, FsmApplyIsDeterministic
      <3>2. h[k] = Effect(h[k - 1], log[k]) /\ Shared(state[n]) = h[applied[n]]
        BY <1>1, <2>1 DEF IsHistory
      <3> HIDE DEF k
      <3>3. QED
        BY <2>1, <3>1, <3>2
    <2>3. \A m \in Node : m # n => state'[m] = state[m] /\ applied'[m] = applied[m]
      BY <1>a, <1>4 DEF Applies
    <2>4. \A m \in Node : Shared(state'[m]) = h[applied'[m]]
      BY <1>1, <2>2, <2>3 DEF IsHistory
    <2>5. QED
      BY <1>1, <2>1, <2>4 DEF OneHistory, IsHistory
  <1>5. ASSUME NEW n \in Node, Resets(n)
        PROVE  OneHistory'
    <2>1. \A m \in Node : \/ state'[m] = NoState /\ applied'[m] = 0
                          \/ state'[m] = state[m] /\ applied'[m] = applied[m]
      BY <1>a, <1>5 DEF Resets
    <2>2. \A m \in Node : Shared(state'[m]) = h[applied'[m]]
      BY <1>1, <2>1 DEF IsHistory
    <2>3. QED
      BY <1>1, <1>5, <2>2 DEF Resets, OneHistory, IsHistory
  <1>6. QED
    BY <1>2, <1>3, <1>4, <1>5 DEF DataStep

\* Initially nothing is applied and nothing is in the log.
LEMMA InitHistory == Init => OneHistory /\ LeadersInv
  <1> SUFFICES ASSUME Init
               PROVE  OneHistory /\ LeadersInv
    OBVIOUS
  <1>1. LeadersInv
    BY NoStateFields DEF Init, LeadersInv, OneLeader, NoNode
  <1>2. IsHistory([k \in {0} |-> Shared(NoState)])
    BY DEF Init, IsHistory
  <1>3. QED
    BY <1>1, <1>2 DEF OneHistory

-----------------------------------------------------------------------------
(* The engine of the partition's leader.                                   *)

\* The state of some node calls m the initialized leader of the partition.
Initialized(cs, m) == cs.nodes[m].part = "initialized" /\ cs.nodes[m].partRole = "leader"

\* Whoever is reported as initialized leader, in the log or in a state, has an engine.
Backed ==
    /\ \A i \in 1 .. Len(log) : LeaderReport(log[i]) => engine[log[i].node] > 0
    /\ \A n, m \in Node : Initialized(state[n], m) => engine[m] > 0

\* A goroutine past waitForLeader has seen a leader of the partition, and the one
\* that reports for that leader has an engine.
Waited ==
    \A n \in Node, g \in Slot :
       /\ notif[n][g].pc \in {"createEngine", "report"} => partLeader # None
       /\ notif[n][g].pc = "report" /\ partLeader = n => engine[n] > 0

EngineInv ==
    /\ partElections = 0 => partLeader = None
    /\ faults = 0 /\ partElections <= 1 => Backed /\ Waited

\* A state calls a node an initialized leader only after the node's own report.
LEMMA InitializedByReport ==
    ASSUME NEW cs \in State, NEW cmd \in Command, NEW v, NEW m \in Node,
           Initialized(FsmApply(cs, cmd, v), m)
    PROVE  Initialized(cs, m) \/ (LeaderReport(cmd) /\ cmd.node = m)
  <1> DEFINE new == FsmApply(cs, cmd, v)
  <1>1. CASE cmd \in NodeCmd
    <2>1. NodeChanged(cs, cmd, v, new)
      BY <1>1, NodeChangeResult
    <2>2. new.nodes[m].part = cs.nodes[m].part /\ new.nodes[m].partRole = cs.nodes[m].partRole
      <3> HIDE DEF new
      <3> QED
        BY <2>1 DEF NodeChanged, MemberChanged, RoleChanged
    <2>3. QED
      BY <2>2 DEF Initialized
  <1>2. CASE cmd \in PartitionCmd
    <2>1. PartitionChanged(cs, cmd, new)
      BY <1>2, PartitionChangeResult
    <2>2. \/ new.nodes[m] = cs.nodes[m]
          \/ m = cmd.node /\ new.nodes[m].part = cmd.state /\ new.nodes[m].partRole = cmd.role
      <3> HIDE DEF new
      <3> QED
        BY <2>1 DEF PartitionChanged, PartChanged
    <2>3. QED
      BY <1>2, <2>2 DEF Initialized, LeaderReport
  <1>3. QED
    BY <1>1, <1>2 DEF Command

LEMMA BackedStep ==
    ASSUME TypeInv, Backed,
           \A m \in Node : engine[m] > 0 => engine'[m] > 0,
           \/ DataStays
           \/ \E m \in Node, cmd \in Command :
                 Writes(m, cmd) /\ (LeaderReport(cmd) => engine'[cmd.node] > 0)
           \/ \E n \in Node : Applies(n)
    PROVE  Backed'
  <1>a. /\ state \in [Node -> State] /\ log \in Seq(Command) /\ applied \in [Node -> Nat]
        /\ Len(log) \in Nat
    BY DEF TypeInv
  <1>b. \A cmd \in Command : cmd.node \in Node
    BY DEF Command, NodeCmd, PartitionCmd
  <1>1. CASE DataStays
    BY <1>a, <1>b, <1>1 DEF DataStays, Backed
  <1>2. ASSUME NEW m \in Node, NEW cmd \in Command, Writes(m, cmd),
               LeaderReport(cmd) => engine'[cmd.node] > 0
        PROVE  Backed'
    <2>1. /\ Len(log') = Len(log) + 1 /\ log'[Len(log) + 1] = cmd
          /\ \A i \in 1 .. Len(log) : log'[i] = log[i] /\ log[i] \in Command
      BY <1>a, <1>2 DEF Writes
    <2>2. ASSUME NEW i \in 1 .. Len(log'), LeaderReport(log'[i])
          PROVE  engine'[log'[i].node] > 0
      <3>1. CASE i = Len(log) + 1
        BY <1>2, <2>1, <2>2, <3>1
      <3>2. CASE i # Len(log) + 1
        <4>1. i \in 1 .. Len(log)
          BY <1>a, <2>1, <3>2
        <4>2. QED
          BY <1>b, <2>1, <2>2, <4>1 DEF Backed
      <3>3. QED
        BY <3>1, <3>2
    <2>3. ASSUME NEW n \in Node, NEW k \in Node, Initialized(state'[n], k)
          PROVE  engine'[k] > 0
      <3>1. state'[n] = state[n] \/ state'[n] = FsmApply(state[n], cmd, view[n])
        BY <1>a, <1>2 DEF Writes
      <3>2. Initialized(state[n], k) \/ (LeaderReport(cmd) /\ cmd.node = k)
        BY <1>a, <2>3, <3>1, InitializedByReport
      <3>3. QED
        BY <1>2, <3>2 DEF Backed
    <2>4. QED
      BY <2>2, <2>3 DEF Backed
  <1>3. ASSUME NEW n \in Node, Applies(n)
        PROVE  Backed'
    <2> DEFINE cmd == log[applied[n] + 1]
    <2>1. /\ log' = log /\ applied[n] + 1 \in 1 .. Len(log) /\ cmd \in Command
          /\ \A i \in 1 .. Len(log) : log[i] \in Command
      BY <1>a, <1>3 DEF Applies
    <2>2. \A i \in 1 .. Len(log') : LeaderReport(log'[i]) => engine'[log'[i].node] > 0
      BY <1>b, <2>1 DEF Backed
    <2>3. ASSUME NEW m \in Node, NEW k \in Node, Initialized(state'[m], k)
          PROVE  engine'[k] > 0
      <3>1. state'[m] = state[m] \/ state'[m] = FsmApply(state[m], cmd, view[m])
        BY <1>a, <1>3 DEF Applies
      <3>2. Initialized(state[m], k) \/ (LeaderReport(cmd) /\ cmd.node = k)
        BY <1>a, <2>1, <2>3, <3>1, InitializedByReport
      <3>3. LeaderReport(cmd) => engine'[cmd.node] > 0
        BY <2>1, <2>2
      <3> HIDE DEF cmd
      <3>4. QED
        BY <3>2, <3>3 DEF Backed
    <2>4. QED
      BY <2>2, <2>3 DEF Backed
  <1>4. QED
    BY <1>1, <1>2, <1>3

LEMMA EngineStep == TypeInv /\ EngineInv /\ [Next]_vars => EngineInv'
  <1> SUFFICES ASSUME TypeInv, EngineInv, [Next]_vars
               PROVE  EngineInv'
    OBVIOUS
  <1>a. /\ engine \in [Node -> Nat] /\ partElections \in Nat /\ faults \in Nat
        /\ partLeader \in Node \cup {None} /\ None \notin Node
        /\ notif \in [Node -> [Slot -> Go]]
    BY ClusterStateAssumption DEF TypeInv, Goroutines
  <1>1. CASE UNCHANGED vars
    BY <1>1 DEF vars, raftVars, storeVars, partVars, EngineInv, Backed, Waited
  <1>2. ASSUME NEW n \in Node, Others(n)
        PROVE  EngineInv'
    <2>1. /\ \A k \in Node, g \in Slot : \/ notif'[k][g].pc \in {"none", "begin"}
                                         \/ notif'[k][g].pc = notif[k][g].pc
          /\ DataStays \/ (\E m \in Node, cmd \in NodeCmd : Writes(m, cmd)) \/ Applies(n)
          /\ UNCHANGED <<engine, partLeader, partElections>>
          /\ faults' \in Nat /\ faults' >= faults
      BY <1>2, OthersStep
    <2>2. Waited => Waited'
      BY <2>1 DEF Waited
    <2>3. \A cmd \in NodeCmd : cmd \in Command /\ ~LeaderReport(cmd)
      BY DEF Command, NodeCmd, PartitionCmd, LeaderReport
    <2>4. Backed => Backed'
      BY <2>1, <2>3, BackedStep
    <2>5. QED
      BY <1>a, <2>1, <2>2, <2>4 DEF EngineInv
  <1>3. ASSUME NEW n \in Node, Restart(n)
        PROVE  EngineInv'
    <2>1. faults' = faults + 1
      BY <1>3, RestartStep
    <2>2. partElections' = 0 => partLeader' = None
      BY <1>3 DEF Restart, EngineInv
    <2>3. QED
      BY <1>a, <2>1, <2>2 DEF EngineInv
  <1>4. ASSUME NEW n \in Node, ElectPartitionLeader(n)
        PROVE  EngineInv'
    <2>1. /\ partElections' = partElections + 1 /\ partLeader' = n
          /\ UNCHANGED <<engine, notif, faults>> /\ DataStays
      BY <1>4 DEF ElectPartitionLeader, DataStays, raftVars, storeVars
    <2>2. Backed => Backed'
      BY <2>1, BackedStep
    <2>3. ASSUME faults' = 0, partElections' <= 1
          PROVE  Backed' /\ Waited'
      <3>1. partLeader = None /\ Backed /\ Waited
        BY <1>a, <2>1, <2>3 DEF EngineInv
      <3>2. QED
        BY <2>1, <2>2, <3>1 DEF Waited
    <2>4. QED
      BY <1>a, <2>1, <2>3 DEF EngineInv
  <1>5. ASSUME NEW n \in Node, NEW g \in Slot, Notification(n, g), ~startPartitionNodeFails(n, g)
        PROVE  EngineInv'
    <2>1. GoesOn(n, g) /\ Reports(n, g) /\ UNCHANGED faults
      BY <1>5, NotificationStep
    <2>2. UNCHANGED <<partLeader, partElections>>
      BY <2>1 DEF GoesOn
    <2>3. \A m \in Node : engine[m] > 0 => engine'[m] > 0
      BY <1>a, <2>1 DEF GoesOn
    <2>4. Waited => Waited'
      <3>1. CASE UNCHANGED engine /\ \E pc \in PC \ {"createEngine", "report"} : Moves(n, g, pc)
        BY <3>1, <2>2 DEF Waited, Moves
      <3>2. CASE /\ UNCHANGED engine /\ partLeader # None
                 /\ \E pc \in {"createEngine", "report"} :
                       Moves(n, g, pc) /\ (pc = "report" /\ partLeader = n => engine[n] # 0)
        <4>1. notif'[n][g].pc = "report" /\ partLeader = n => engine[n] > 0
          BY <3>2, <1>a DEF Moves
        <4>2. QED
          BY <3>2, <4>1, <2>2 DEF Waited, Moves
      <3>3. CASE /\ Moves(n, g, "report") /\ notif[n][g].pc = "createEngine"
                 /\ engine' = [engine EXCEPT ![n] = @ + 1]
        <4>1. engine'[n] > 0
          BY <1>a, <3>3
        <4>2. QED
          BY <3>3, <4>1, <2>2, <2>3 DEF Waited, Moves
      <3>4. QED
        BY <2>1, <3>1, <3>2, <3>3 DEF GoesOn
    <2>5. Backed /\ Waited => Backed'
      <3> SUFFICES ASSUME Backed, Waited
                   PROVE  Backed'
        OBVIOUS
      <3>1. \/ DataStays
            \/ \E m \in Node, cmd \in Command :
                  Writes(m, cmd) /\ (LeaderReport(cmd) => engine'[cmd.node] > 0)
        BY <2>1, <2>3 DEF Reports, Waited
      <3>2. QED
        BY <2>3, <3>1, BackedStep
    <2>6. QED
      BY <2>1, <2>2, <2>4, <2>5 DEF EngineInv
  <1>6. ASSUME NEW n \in Node, NEW g \in Slot, waitForLeaderTimeout(n, g)
        PROVE  EngineInv'
    <2>1. faults' = faults + 1 /\ UNCHANGED <<partLeader, partElections>>
      BY <1>6 DEF waitForLeaderTimeout, partVars
    <2>2. QED
      BY <1>a, <2>1 DEF EngineInv
  <1>7. QED
    BY <1>1, <1>2, <1>3, <1>4, <1>5, <1>6, NextCases

LEMMA InitEngine == Init => EngineInv
  BY NoStateFields DEF Init, EngineInv, Backed, Waited, Initialized, NoNode, NoGo

-----------------------------------------------------------------------------
ClusterInv == TypeInv /\ LeadersInv /\ OneHistory /\ EngineInv

\* The inductive invariant of the cluster state.
THEOREM ClusterInvariance == Spec => []ClusterInv
  <1>1. Init => ClusterInv
    BY InitTypeInv, InitHistory, InitEngine DEF ClusterInv
  <1>2. ClusterInv /\ [Next]_vars => ClusterInv'
    BY TypeStep, LeadersStep, HistoryStep, EngineStep DEF ClusterInv
  <1>3. QED
    BY <1>1, <1>2, PTL DEF Spec

\* The variables keep their types, in a cluster of any size.
THEOREM ClusterTypes == Spec => []TypeOK
  <1>1. ClusterInv => TypeOK
    <2> SUFFICES ASSUME TypeInv
                 PROVE  TypeOK
      BY DEF ClusterInv
    <2>1. applied \in [Node -> 0 .. Len(log)]
      BY DEF TypeInv
    <2>2. \A n \in Node : /\ state[n].leaderId \in Node \cup {None}
                          /\ \A m \in Node : /\ state[n].nodes[m].role \in NodeRole
                                             /\ state[n].nodes[m].part \in PartState
      BY DEF TypeInv, State, NodeState
    <2>3. QED
      BY <2>1, <2>2 DEF TypeInv, TypeOK
  <1>2. QED
    BY ClusterInvariance, <1>1, PTL

\* FsmApplyNodeChange leaves at most one leader in the state of a node, in whatever
\* order the node learns of leaders, and however often it starts again.
THEOREM StatesHaveOneLeader == Spec => []AtMostOneLeader
  <1>1. ClusterInv => AtMostOneLeader
    BY DEF ClusterInv, LeadersInv, OneLeader, AtMostOneLeader
  <1>2. QED
    BY ClusterInvariance, <1>1, PTL

\* Replicas that have applied the same number of commands agree on everything but
\* the roles of the nodes: restarts, elections and late views make no difference.
THEOREM ReplicasAgreeBesidesRoles == Spec => []ReplicasAgreeOnPartitions
  <1>1. ClusterInv => ReplicasAgreeOnPartitions
    BY DEF ClusterInv, OneHistory, IsHistory, ReplicasAgreeOnPartitions
  <1>2. QED
    BY ClusterInvariance, <1>1, PTL

\* As long as the partition keeps its first leader and no node fails, a node that
\* some state calls the initialized leader of the partition runs an engine.
THEOREM InitializedLeadersHaveEngines == Spec => []InitializedLeaderHasEngine
  <1>1. ClusterInv => InitializedLeaderHasEngine
    BY DEF ClusterInv, EngineInv, Backed, Initialized, InitializedLeaderHasEngine
  <1>2. QED
    BY ClusterInvariance, <1>1, PTL
=============================================================================
