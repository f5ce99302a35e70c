------------------------- MODULE ClusterCallsProofs -------------------------
(***************************************************************************)
(* Proofs about ClusterCalls, for every cluster, every placement of its    *)
(* partitions and every number of elections, calls and deployments: a      *)
(* deployment that was acknowledged is in every partition, and an instance *)
(* that has ended stays so, but for calls from before an election.         *)
(*                                                                         *)
(* A goroutine of a deployment decides what to do from the replica of one  *)
(* node and writes to the raft leader, which may have changed, and other   *)
(* calls write to the same database in between.  So the argument needs     *)
(* that no statement of an engine touches a definition, that what a        *)
(* replica has the leader has too, and for every goroutine which of its    *)
(* partitions it has left behind.                                          *)
(***************************************************************************)
EXTENDS ClusterCalls, FiniteSetTheorems, WellFoundedInduction, TLAPS

\* The statements that engine calls put into their batches.
EngineQueries == {"SaveProcessInstance", "SaveToken", "SaveJob", "SaveMessageSubscription",
                  "SaveFlowElementInstance", "UpdateOutputFlowElementInstance", "SaveIncident",
                  "SaveDecisionInstance"}

\* A sequence of such statements.
EngineStmts(stmts) == \E S : stmts \in Seq(S) /\ \A s \in S : s.q \in EngineQueries

\* A database has its tables, which are finite.
Sound(b) == DOMAIN b = P!Q!Tables /\ \A t \in P!Q!Tables : IsFiniteSet(b[t])

\* No foreign key of it dangles.
Database(b) == Sound(b) /\ P!Q!References(b)

\* All the definitions of b are in c.
Within(b, c) == /\ b.process_definition \subseteq c.process_definition
                /\ b.dmn_resource_definition \subseteq c.dmn_resource_definition

-----------------------------------------------------------------------------
(* The invariant *)

\* Partitions are led by nodes that host them.
Placement ==
    /\ scenario \in Scenarios
    /\ raft \in [Partition -> Node] /\ leader \in [Partition -> Node]
    /\ \A p \in Partition : p \in Hosting(raft[p]) /\ p \in Hosting(leader[p])

\* A node has a replica of every partition that it hosts, and the replica has no
\* definition that the raft leader does not have.
Replicas ==
    /\ DOMAIN copy = Node
    /\ \A n \in Node : DOMAIN copy[n] = Hosting(n)
    /\ \A n \in Node : \A p \in Hosting(n) : Database(copy[n][p]) /\ Within(copy[n][p], DB(p))

\* Engine calls save nothing but rows of instances.
CallsSaveRows == \A b \in calls : EngineStmts(b.stmts)

DeployFields == {"kind", "sum", "to", "status", "lost", "rpc", "todo", "save"}

DeployTypes ==
    /\ \E S : deploys \in Seq(S)
    /\ \A d \in DOMAIN deploys :
         /\ DOMAIN deploys[d] = DeployFields
         /\ deploys[d].to \in [Partition -> Node]
         /\ deploys[d].rpc \in [Partition -> {"sent", "runs", "ok", "failed"}]
         /\ deploys[d].todo \in [Partition -> SUBSET Partition]
         /\ DOMAIN deploys[d].save = Partition
         /\ \A q \in Partition : /\ deploys[d].todo[q] \subseteq Hosting(deploys[d].to[q])
                                 /\ deploys[d].save[q] # Null => deploys[d].save[q].part \in Partition

\* The resource of a deployment is in the partition p.
Stored(d, p) ==
    \E r \in IF deploys[d].kind = "process" THEN DB(p).process_definition
             ELSE DB(p).dmn_resource_definition : r.checksum = deploys[d].sum

\* The goroutine of partition q has the partition ahead of it, left it out, or
\* has saved the resource there; its decisions come after the resource.
GoroutinesDeliver ==
    \A d \in DOMAIN deploys : \A q \in Partition :
        /\ deploys[d].rpc[q] = "runs" => q \in deploys[d].todo[q] \/ <<d, q>> \in skipped \/ Stored(d, q)
        /\ deploys[d].rpc[q] = "ok" => <<d, q>> \in skipped \/ Stored(d, q)
        /\ deploys[d].save[q] # Null /\ deploys[d].save[q].of # "resource"
              => Stored(d, deploys[d].save[q].part)

\* Only a deployment that every goroutine has finished is acknowledged.
AcknowledgedAreFinished ==
    \A d \in DOMAIN deploys : deploys[d].status = 201 =>
        \A p \in Partition : deploys[d].rpc[p] = "ok"

CallsInv == /\ Placement /\ Replicas /\ CallsSaveRows
            /\ DeployTypes /\ GoroutinesDeliver /\ AcknowledgedAreFinished

-----------------------------------------------------------------------------
(* Statements: induction on their number, as a least counterexample *)

\* A set of numbers that is not empty has a least one.
LEMMA LeastNumber ==
    ASSUME NEW S \in SUBSET Nat, S # {}
    PROVE  \E m \in S : \A n \in S : m <= n
<1>1. PICK m \in S : \A n \in S : ~(<<n, m>> \in OpToRel(<, Nat))
  BY NatLessThanWellFounded, WFMin
<1>2. ASSUME NEW n \in S PROVE m <= n
  <2>1. SUFFICES ASSUME n < m PROVE FALSE
    OBVIOUS
  <2>2. <<n, m>> \in Nat \X Nat /\ <<n, m>>[1] < <<n, m>>[2]
    BY <2>1
  <2>3. <<n, m>> \in OpToRel(<, Nat)
    BY <2>2 DEF OpToRel
  <2>4. QED BY <1>1, <2>3
<1>3. QED BY <1>2

\* After is the function that its recursive definition promises.
LEMMA AfterIsDefined ==
    ASSUME NEW b, NEW stmts, Len(stmts) \in Nat
    PROVE  P!After(b, stmts) = [n \in 0..Len(stmts) |->
               IF n = 0 THEN b ELSE P!Exec(P!After(b, stmts)[n - 1], stmts[n])]
<1> DEFINE Step(g, m) == g = [n \in 0..m |-> IF n = 0 THEN b ELSE P!Exec(g[n - 1], stmts[n])]
           Bad == {m \in Nat : ~\E g : Step(g, m)}
<1>1. Bad = {}
  <2>1. SUFFICES ASSUME Bad # {} PROVE FALSE
    OBVIOUS
  <2>2. PICK m \in Bad : \A n \in Bad : m <= n
    BY <2>1, LeastNumber
  <2>3. m # 0
    <3>1. Step([n \in 0..0 |-> b], 0)
      OBVIOUS
    <3>2. QED BY <3>1
  <2>4. m - 1 \in Nat /\ m - 1 \notin Bad
    <3>1. m \in Nat
      OBVIOUS
    <3> HIDE DEF Bad
    <3>2. QED BY <2>2, <2>3, <3>1
  <2>5. PICK g : Step(g, m - 1)
    BY <2>4
  <2>6. Step([n \in 0..m |-> IF n = m THEN P!Exec(g[m - 1], stmts[m]) ELSE g[n]], m)
    <3> DEFINE h == [n \in 0..m |-> IF n = m THEN P!Exec(g[m - 1], stmts[m]) ELSE g[n]]
    <3>1. ASSUME NEW n \in 0..m
          PROVE  h[n] = IF n = 0 THEN b ELSE P!Exec(h[n - 1], stmts[n])
      <4>1. CASE n = m
        BY <4>1, <2>3
      <4>2. CASE n = 0
        BY <4>2, <2>3, <2>5
      <4>3. CASE n # m /\ n # 0
        <5>1. n \in 0..(m - 1) /\ n - 1 \in 0..m /\ n - 1 # m
          BY <4>3
        <5>2. h[n] = g[n] /\ h[n - 1] = g[n - 1]
          BY <5>1, <4>3
        <5>3. QED BY <5>1, <5>2, <4>3, <2>5
      <4>4. QED BY <4>1, <4>2, <4>3
    <3>2. QED BY <3>1
  <2>7. QED BY <2>2, <2>6
<1>2. PICK g : Step(g, Len(stmts))
  BY <1>1
<1>3. P!After(b, stmts) = CHOOSE after : Step(after, Len(stmts))
  BY DEF P!After
<1>4. Step(P!After(b, stmts), Len(stmts))
  <2> HIDE DEF Step
  <2>1. QED BY <1>2, <1>3
<1>5. QED BY <1>4

\* It starts with the database, and each statement is executed on what the ones
\* before it have left.
LEMMA AfterResult ==
    ASSUME NEW b, NEW stmts, Len(stmts) \in Nat
    PROVE  /\ P!After(b, stmts)[0] = b
           /\ \A n \in 1..Len(stmts) :
                P!After(b, stmts)[n] = P!Exec(P!After(b, stmts)[n - 1], stmts[n])
<1> DEFINE f == P!After(b, stmts)
<1>1. f = [n \in 0..Len(stmts) |-> IF n = 0 THEN b ELSE P!Exec(f[n - 1], stmts[n])]
  BY AfterIsDefined
<1> HIDE DEF f
<1>2. f[0] = b
  BY <1>1
<1>3. ASSUME NEW n \in 1..Len(stmts) PROVE f[n] = P!Exec(f[n - 1], stmts[n])
  BY <1>1
<1>4. QED BY <1>2, <1>3 DEF f

\* The image of a finite set is finite.
LEMMA ImageIsFinite ==
    ASSUME NEW T, IsFiniteSet(T), NEW f, DOMAIN f = T, f = [x \in T |-> f[x]]
    PROVE  IsFiniteSet({f[x] : x \in T})
<1> DEFINE U == {f[x] : x \in T}
<1>1. f \in [T -> U]
  OBVIOUS
<1>2. f \in Surjection(T, U)
  BY <1>1 DEF Surjection
<1>3. QED BY <1>2, FS_Surjection

\* An upsert keeps a table finite.
LEMMA UpsertIsFinite ==
    ASSUME NEW T, IsFiniteSet(T), NEW r, NEW cols
    PROVE  IsFiniteSet(P!Q!Upsert(T, r, cols))
<1> DEFINE put(q) == IF q.key = r.key THEN [c \in DOMAIN q |-> IF c \in cols THEN r[c] ELSE q[c]]
                     ELSE q
<1>1. IsFiniteSet({put(q) : q \in T})
  <2> DEFINE f == [q \in T |-> put(q)]
  <2>1. IsFiniteSet({f[q] : q \in T})
    <3>1. DOMAIN f = T /\ f = [q \in T |-> f[q]]
      OBVIOUS
    <3> HIDE DEF f
    <3>2. QED BY <3>1, ImageIsFinite
  <2>2. {f[q] : q \in T} = {put(q) : q \in T}
    OBVIOUS
  <2>3. QED BY <2>1, <2>2
<1>2. IsFiniteSet(T \cup {r})
  BY FS_AddElement
<1>3. QED BY <1>1, <1>2 DEF P!Q!Upsert

\* A statement of an engine writes one table, which holds no definitions.
LEMMA EngineExec ==
    ASSUME NEW b, Sound(b), NEW s, s.q \in EngineQueries
    PROVE  /\ Sound(P!Exec(b, s))
           /\ P!Exec(b, s).process_definition = b.process_definition
           /\ P!Exec(b, s).dmn_resource_definition = b.dmn_resource_definition
<1> DEFINE written == {"process_instance", "execution_token", "job", "message_subscription",
                       "flow_element_instance", "incident", "decision_instance"}
<1>1. ASSUME NEW t \in written, NEW T, IsFiniteSet(T), NEW c, c = [b EXCEPT ![t] = T]
      PROVE  /\ Sound(c)
             /\ c.process_definition = b.process_definition
             /\ c.dmn_resource_definition = b.dmn_resource_definition
  <2>1. t \in P!Q!Tables /\ "process_definition" \in P!Q!Tables
        /\ "dmn_resource_definition" \in P!Q!Tables
        /\ t # "process_definition" /\ t # "dmn_resource_definition"
    BY DEF P!Q!Tables
  <2>2. DOMAIN c = P!Q!Tables
    BY <1>1 DEF Sound
  <2>3. c[t] = T /\ \A u \in P!Q!Tables \ {t} : c[u] = b[u]
    BY <1>1, <2>1 DEF Sound
  <2>4. QED BY <1>1, <2>1, <2>2, <2>3 DEF Sound
<1>2. ASSUME NEW t \in P!Q!Tables PROVE IsFiniteSet(b[t])
  BY DEF Sound
<1>3. ASSUME NEW t \in written, NEW r, NEW cols
      PROVE  IsFiniteSet(P!Q!Upsert(b[t], r, cols))
  <2>1. IsFiniteSet(b[t])
    BY <1>2 DEF P!Q!Tables
  <2>2. QED BY <2>1, UpsertIsFinite
<1> HIDE DEF written
<1>4. CASE s.q = "SaveProcessInstance"
  <2>1. P!Exec(b, s) = [b EXCEPT !.process_instance =
           P!Q!Upsert(b.process_instance, s.row, {"state", "variables", "business_key"})]
    BY <1>4 DEF P!Exec, P!Q!SaveProcessInstance
  <2>2. QED BY <2>1, <1>1, <1>3 DEF written
<1>5. CASE s.q = "SaveToken"
  <2>1. P!Exec(b, s) = [b EXCEPT !.execution_token =
           P!Q!Upsert(b.execution_token, s.row, {"state", "elem", "element_instance"})]
    BY <1>5 DEF P!Exec, P!Q!SaveToken
  <2>2. QED BY <2>1, <1>1, <1>3 DEF written
<1>6. CASE s.q = "SaveJob"
  <2>1. P!Exec(b, s) = [b EXCEPT !.job = P!Q!Upsert(b.job, s.row, {"state", "variables", "assignee"})]
    BY <1>6 DEF P!Exec, P!Q!SaveJob
  <2>2. QED BY <2>1, <1>1, <1>3 DEF written
<1>7. CASE s.q = "SaveMessageSubscription"
  <2>1. P!Exec(b, s) = [b EXCEPT !.message_subscription =
           P!Q!Upsert(b.message_subscription, s.row, {"state"})]
    BY <1>7 DEF P!Exec, P!Q!SaveMessageSubscription
  <2>2. QED BY <2>1, <1>1, <1>3 DEF written
<1>8. CASE s.q = "SaveFlowElementInstance"
  <2>1. P!Exec(b, s) = [b EXCEPT !.flow_element_instance =
           P!Q!Upsert(b.flow_element_instance, s.row, {"input"})]
    BY <1>8 DEF P!Exec, P!Q!SaveFlowElementInstance
  <2>2. QED BY <2>1, <1>1, <1>3 DEF written
<1>9. CASE s.q = "UpdateOutputFlowElementInstance"
  <2> DEFINE T == P!Q!Upsert(b.flow_element_instance, [s.row EXCEPT !.input = ""], {"output"})
  <2>1. P!Exec(b, s) = [b EXCEPT !.flow_element_instance = T]
    BY <1>9 DEF P!Exec, P!Q!UpdateOutputFlowElementInstance
  <2>2. IsFiniteSet(T)
    BY <1>3 DEF written
  <2> HIDE DEF T
  <2>3. QED BY <2>1, <2>2, <1>1 DEF written
<1>10. CASE s.q = "SaveIncident"
  <2>1. P!Exec(b, s) = [b EXCEPT !.incident = P!Q!Upsert(b.incident, s.row, {"resolved_at"})]
    BY <1>10 DEF P!Exec, P!Q!SaveIncident
  <2>2. QED BY <2>1, <1>1, <1>3 DEF written
<1>11. CASE s.q = "SaveDecisionInstance"
  <2>1. P!Exec(b, s) = [b EXCEPT !.decision_instance = b.decision_instance \cup {s.row}]
    BY <1>11 DEF P!Exec, P!Q!SaveDecisionInstance
  <2>2. IsFiniteSet(b.decision_instance \cup {s.row})
    BY <1>2, FS_AddElement DEF P!Q!Tables
  <2>3. QED BY <2>1, <2>2, <1>1 DEF written
<1>12. QED
  BY <1>4, <1>5, <1>6, <1>7, <1>8, <1>9, <1>10, <1>11 DEF EngineQueries

\* The same for any number of them.
LEMMA EngineAfter ==
    ASSUME NEW b, Sound(b), NEW stmts, EngineStmts(stmts), NEW n \in 0..Len(stmts)
    PROVE  /\ Sound(P!After(b, stmts)[n])
           /\ P!After(b, stmts)[n].process_definition = b.process_definition
           /\ P!After(b, stmts)[n].dmn_resource_definition = b.dmn_resource_definition
<1> DEFINE f == P!After(b, stmts)
           Kept(m) == /\ Sound(f[m])
                      /\ f[m].process_definition = b.process_definition
                      /\ f[m].dmn_resource_definition = b.dmn_resource_definition
           Bad == {m \in 0..Len(stmts) : ~Kept(m)}
<1>1. Len(stmts) \in Nat /\ \A m \in 1..Len(stmts) : stmts[m].q \in EngineQueries
  BY DEF EngineStmts
<1>2. f[0] = b /\ \A m \in 1..Len(stmts) : f[m] = P!Exec(f[m - 1], stmts[m])
  BY <1>1, AfterResult
<1> HIDE DEF f
<1>3. Kept(0)
  BY <1>2
<1>4. ASSUME NEW m \in 1..Len(stmts), Kept(m - 1) PROVE Kept(m)
  BY <1>1, <1>2, <1>4, EngineExec
<1>5. Bad \in SUBSET Nat
  BY <1>1
<1>6. ASSUME NEW m \in Bad, \A k \in Bad : m <= k PROVE FALSE
  <2>1. m \in 0..Len(stmts) /\ ~Kept(m)
    OBVIOUS
  <2> HIDE DEF Kept
  <2>2. m \in 1..Len(stmts) /\ m - 1 \in 0..Len(stmts)
    BY <1>1, <1>3, <2>1
  <2>3. m - 1 \notin Bad
    <3>1. ~(m <= m - 1)
      BY <2>2
    <3> HIDE DEF Bad
    <3>2. QED BY <1>6, <3>1
  <2>4. QED BY <1>4, <2>1, <2>2, <2>3
<1>7. Bad = {}
  <2> HIDE DEF Bad
  <2>1. QED BY <1>5, <1>6, LeastNumber
<1>8. Kept(n)
  BY <1>7
<1>9. QED BY <1>8 DEF f

\* A batch of an engine is executed whole or not at all; the database stays one
\* without dangling keys, and the definitions stay what they are.
LEMMA EngineBatch ==
    ASSUME NEW b, Database(b), NEW stmts, EngineStmts(stmts)
    PROVE  /\ Database(P!ExecuteStatements(b, stmts))
           /\ P!ExecuteStatements(b, stmts).process_definition = b.process_definition
           /\ P!ExecuteStatements(b, stmts).dmn_resource_definition = b.dmn_resource_definition
<1> DEFINE f == P!After(b, stmts)
<1>1. Len(stmts) \in Nat
  BY DEF EngineStmts
<1>2. CASE P!StatementsFail(b, stmts)
  BY <1>2 DEF P!ExecuteStatements
<1>3. CASE ~P!StatementsFail(b, stmts)
  <2>1. P!ExecuteStatements(b, stmts) = f[Len(stmts)]
    BY <1>3 DEF P!ExecuteStatements, P!Run
  <2>2. \A n \in 1..Len(stmts) : P!Q!References(f[n])
    BY <1>3 DEF P!StatementsFail
  <2>3. f[0] = b
    BY <1>1, AfterResult
  <2>4. P!Q!References(f[Len(stmts)])
    <3>1. CASE Len(stmts) = 0
      BY <3>1, <2>3 DEF Database
    <3>2. CASE Len(stmts) # 0
      BY <3>2, <1>1, <2>2
    <3>3. QED BY <3>1, <3>2
  <2>5. /\ Sound(f[Len(stmts)])
        /\ f[Len(stmts)].process_definition = b.process_definition
        /\ f[Len(stmts)].dmn_resource_definition = b.dmn_resource_definition
    BY <1>1, EngineAfter DEF Database
  <2>6. QED BY <2>1, <2>4, <2>5 DEF Database
<1>4. QED BY <1>2, <1>3

\* A statement of its own.
LEMMA ExecContextResult ==
    ASSUME NEW b, NEW s
    PROVE  P!ExecContext(b, s) = IF P!Q!References(P!Exec(b, s)) THEN P!Exec(b, s) ELSE b
<1> DEFINE f == P!After(b, <<s>>)
<1>1. Len(<<s>>) = 1 /\ <<s>>[1] = s
  OBVIOUS
<1>2. f[0] = b /\ f[1] = P!Exec(f[0], s)
  BY <1>1, AfterResult
<1> HIDE DEF f
<1>3. P!StatementsFail(b, <<s>>) <=> ~P!Q!References(f[1])
  BY <1>1 DEF P!StatementsFail, f
<1>4. P!Run(b, <<s>>) = f[1]
  BY <1>1 DEF P!Run, f
<1>5. QED BY <1>2, <1>3, <1>4 DEF P!ExecContext, P!ExecuteStatements

\* Saving a process definition adds it, and breaks no foreign key.
LEMMA SaveProcessDefinitionResult ==
    ASSUME NEW b, Database(b), NEW r, NEW s, s = P!Stmt("SaveProcessDefinition", r)
    PROVE  /\ Database(P!ExecContext(b, s))
           /\ P!ExecContext(b, s).process_definition = b.process_definition \cup {r}
           /\ P!ExecContext(b, s).dmn_resource_definition = b.dmn_resource_definition
<1> DEFINE c == [b EXCEPT !.process_definition = b.process_definition \cup {r}]
<1>1. P!Exec(b, s) = c
  BY DEF P!Exec, P!Stmt, P!Q!SaveProcessDefinition
<1>2. DOMAIN c = P!Q!Tables /\ "process_definition" \in P!Q!Tables
  BY DEF Database, Sound, P!Q!Tables
<1>3. /\ c.process_definition = b.process_definition \cup {r}
      /\ \A t \in P!Q!Tables \ {"process_definition"} : c[t] = b[t]
  BY <1>2 DEF Database, Sound
<1>4. Sound(c)
  <2>1. IsFiniteSet(b.process_definition \cup {r})
    BY <1>2, FS_AddElement DEF Database, Sound
  <2> HIDE DEF c
  <2>2. QED BY <1>2, <1>3, <2>1 DEF Sound, Database
<1> HIDE DEF c
<1>5. P!Q!References(c)
  <2>1. /\ c.process_instance = b.process_instance /\ c.execution_token = b.execution_token
        /\ c.flow_element_instance = b.flow_element_instance /\ c.job = b.job
        /\ c.timer = b.timer /\ c.message_subscription = b.message_subscription
        /\ c.incident = b.incident /\ c.decision_definition = b.decision_definition
        /\ c.decision_instance = b.decision_instance
        /\ c.dmn_resource_definition = b.dmn_resource_definition
    BY <1>3 DEF P!Q!Tables
  <2>2. P!Q!Keys(b.process_definition) \subseteq P!Q!Keys(c.process_definition)
    BY <1>3 DEF P!Q!Keys
  <2>3. QED BY <2>1, <2>2 DEF P!Q!References, Database
<1>6. P!ExecContext(b, s) = c
  BY <1>1, <1>5, ExecContextResult
<1>7. QED BY <1>3, <1>4, <1>5, <1>6 DEF Database, P!Q!Tables

\* So does saving a decision resource, ...
LEMMA SaveDmnResourceDefinitionResult ==
    ASSUME NEW b, Database(b), NEW r, NEW s, s = P!Stmt("SaveDmnResourceDefinition", r)
    PROVE  /\ Database(P!ExecContext(b, s))
           /\ P!ExecContext(b, s).dmn_resource_definition = b.dmn_resource_definition \cup {r}
           /\ P!ExecContext(b, s).process_definition = b.process_definition
<1> DEFINE c == [b EXCEPT !.dmn_resource_definition = b.dmn_resource_definition \cup {r}]
<1>1. P!Exec(b, s) = c
  BY DEF P!Exec, P!Stmt, P!Q!SaveDmnResourceDefinition
<1>2. DOMAIN c = P!Q!Tables /\ "dmn_resource_definition" \in P!Q!Tables
  BY DEF Database, Sound, P!Q!Tables
<1>3. /\ c.dmn_resource_definition = b.dmn_resource_definition \cup {r}
      /\ \A t \in P!Q!Tables \ {"dmn_resource_definition"} : c[t] = b[t]
  BY <1>2 DEF Database, Sound
<1>4. Sound(c)
  <2>1. IsFiniteSet(b.dmn_resource_definition \cup {r})
    BY <1>2, FS_AddElement DEF Database, Sound
  <2> HIDE DEF c
  <2>2. QED BY <1>2, <1>3, <2>1 DEF Sound, Database
<1> HIDE DEF c
<1>5. P!Q!References(c)
  <2>1. /\ c.process_instance = b.process_instance /\ c.execution_token = b.execution_token
        /\ c.flow_element_instance = b.flow_element_instance /\ c.job = b.job
        /\ c.timer = b.timer /\ c.message_subscription = b.message_subscription
        /\ c.incident = b.incident /\ c.decision_definition = b.decision_definition
        /\ c.decision_instance = b.decision_instance
        /\ c.process_definition = b.process_definition
    BY <1>3 DEF P!Q!Tables
  <2>2. P!Q!Keys(b.dmn_resource_definition) \subseteq P!Q!Keys(c.dmn_resource_definition)
    BY <1>3 DEF P!Q!Keys
  <2>3. QED BY <2>1, <2>2 DEF P!Q!References, Database
<1>6. P!ExecContext(b, s) = c
  BY <1>1, <1>5, ExecContextResult
<1>7. QED BY <1>3, <1>4, <1>5, <1>6 DEF Database, P!Q!Tables

\* ... while a decision definition whose resource is missing is refused; it leaves
\* the other definitions alone in any case.
LEMMA SaveDecisionDefinitionResult ==
    ASSUME NEW b, Database(b), NEW r, NEW s, s = P!Stmt("SaveDecisionDefinition", r)
    PROVE  /\ Database(P!ExecContext(b, s))
           /\ P!ExecContext(b, s).process_definition = b.process_definition
           /\ P!ExecContext(b, s).dmn_resource_definition = b.dmn_resource_definition
<1> DEFINE c == [b EXCEPT !.decision_definition = b.decision_definition \cup {r}]
<1>1. P!Exec(b, s) = c
  BY DEF P!Exec, P!Stmt, P!Q!SaveDecisionDefinition
<1>2. DOMAIN c = P!Q!Tables /\ "decision_definition" \in P!Q!Tables
  BY DEF Database, Sound, P!Q!Tables
<1>3. /\ c.decision_definition = b.decision_definition \cup {r}
      /\ \A t \in P!Q!Tables \ {"decision_definition"} : c[t] = b[t]
  BY <1>2 DEF Database, Sound
<1>4. Sound(c)
  <2>1. IsFiniteSet(b.decision_definition \cup {r})
    BY <1>2, FS_AddElement DEF Database, Sound
  <2> HIDE DEF c
  <2>2. QED BY <1>2, <1>3, <2>1 DEF Sound, Database
<1> HIDE DEF c
<1>5. CASE P!Q!References(c)
  <2>1. P!ExecContext(b, s) = c
    BY <1>1, <1>5, ExecContextResult
  <2>2. QED BY <1>3, <1>4, <1>5, <2>1 DEF Database, P!Q!Tables
<1>6. CASE ~P!Q!References(c)
  <2>1. P!ExecContext(b, s) = b
    BY <1>1, <1>6, ExecContextResult
  <2>2. QED BY <2>1
<1>7. QED BY <1>5, <1>6

\* A pointer is no key of anything.
LEMMA SavePointerResult ==
    ASSUME NEW b, Database(b), NEW x
    PROVE  /\ Database(P!Q!SaveMessageSubscriptionPointer(b, x))
           /\ P!Q!SaveMessageSubscriptionPointer(b, x).process_definition = b.process_definition
           /\ P!Q!SaveMessageSubscriptionPointer(b, x).dmn_resource_definition
                = b.dmn_resource_definition
<1> DEFINE T == {q \in b.message_subscription_pointer : q.name # x.name \/ q.corr # x.corr} \cup {x}
           c == [b EXCEPT !.message_subscription_pointer = T]
<1>1. P!Q!SaveMessageSubscriptionPointer(b, x) = c
  BY DEF P!Q!SaveMessageSubscriptionPointer
<1>2. IsFiniteSet(T)
  <2>1. IsFiniteSet(b.message_subscription_pointer)
    BY DEF Database, Sound, P!Q!Tables
  <2>2. IsFiniteSet({q \in b.message_subscription_pointer : q.name # x.name \/ q.corr # x.corr})
    BY <2>1, FS_Subset
  <2>3. QED BY <2>2, FS_AddElement
<1> HIDE DEF T
<1>3. DOMAIN c = P!Q!Tables /\ "message_subscription_pointer" \in P!Q!Tables
  BY DEF Database, Sound, P!Q!Tables
<1>4. /\ c.message_subscription_pointer = T
      /\ \A t \in P!Q!Tables \ {"message_subscription_pointer"} : c[t] = b[t]
  BY <1>3 DEF Database, Sound
<1> HIDE DEF c
<1>5. Sound(c)
  BY <1>2, <1>3, <1>4 DEF Sound, Database
<1>6. /\ c.process_instance = b.process_instance /\ c.execution_token = b.execution_token
      /\ c.flow_element_instance = b.flow_element_instance /\ c.job = b.job
      /\ c.timer = b.timer /\ c.message_subscription = b.message_subscription
      /\ c.incident = b.incident /\ c.decision_definition = b.decision_definition
      /\ c.decision_instance = b.decision_instance
      /\ c.dmn_resource_definition = b.dmn_resource_definition
      /\ c.process_definition = b.process_definition
  BY <1>4 DEF P!Q!Tables
<1>7. P!Q!References(c)
  BY <1>6 DEF P!Q!References, Database
<1>8. QED BY <1>1, <1>5, <1>6, <1>7 DEF Database

\* One more statement at the end of a sequence.
LEMMA OneMore ==
    ASSUME NEW S, NEW u \in Seq(S), NEW e \in S, NEW v, v = u \o <<e>>
    PROVE  /\ v \in Seq(S)
           /\ Len(v) = Len(u) + 1
           /\ \A i \in 1..Len(u) : v[i] = u[i]
           /\ v[Len(u) + 1] = e
<1>1. <<e>> \in Seq(S) /\ Len(<<e>>) = 1 /\ <<e>>[1] = e
  OBVIOUS
<1>2. QED BY <1>1

\* The databases that a cluster starts with.
LEMMA DeployedResult ==
    ASSUME NEW p
    PROVE  Database(Deployed(p)) /\ Deployed(p).process_instance = {}
<1> DEFINE s1 == P!Stmt("SaveProcessDefinition", Definition(JobProcess))
           s2 == P!Stmt("SaveProcessDefinition", Definition(MessageProcess))
           s3 == P!Stmt("SaveDmnResourceDefinition", DmnResource)
           s4 == P!Stmt("SaveDecisionDefinition", Decision(p))
           stmts == <<s1>> \o <<s2>> \o <<s3>> \o <<s4>>
           f == P!After(P!Q!EmptyDB, stmts)
<1>1. Deployed(p) = f[Len(stmts)]
  BY DEF Deployed, P!Run, P!SaveProcessDefinitionWith, P!SaveDmnResourceDefinitionWith,
         P!SaveDecisionDefinitionWith
<1>2. /\ Len(stmts) = 4
      /\ stmts[1] = s1 /\ stmts[2] = s2 /\ stmts[3] = s3 /\ stmts[4] = s4
  <2> HIDE DEF s1, s2, s3, s4
  <2> DEFINE S == {s1, s2, s3, s4}
             u == <<s1>> \o <<s2>>
             v == u \o <<s3>>
  <2>1. <<s1>> \in Seq(S) /\ <<s2>> \in Seq(S) /\ s3 \in S /\ s4 \in S
    OBVIOUS
  <2>2. u \in Seq(S) /\ Len(u) = 2 /\ u[1] = s1 /\ u[2] = s2
    BY <2>1
  <2> HIDE DEF u, S
  <2>3. v \in Seq(S) /\ Len(v) = 3 /\ v[1] = s1 /\ v[2] = s2 /\ v[3] = s3
    <3>1. v = u \o <<s3>>
      OBVIOUS
    <3> HIDE DEF v
    <3>2. /\ v \in Seq(S) /\ Len(v) = Len(u) + 1 /\ v[Len(u) + 1] = s3
          /\ \A i \in 1..Len(u) : v[i] = u[i]
      BY <2>1, <2>2, <3>1, OneMore
    <3>3. QED BY <2>2, <3>2
  <2> HIDE DEF v
  <2>4. stmts = v \o <<s4>>
    BY DEF u, v
  <2> HIDE DEF stmts
  <2>5. /\ Len(stmts) = Len(v) + 1 /\ stmts[Len(v) + 1] = s4
        /\ \A i \in 1..Len(v) : stmts[i] = v[i]
    BY <2>1, <2>3, <2>4, OneMore, SMTT(40)
  <2>6. QED BY <2>3, <2>5
<1>3. /\ f[0] = P!Q!EmptyDB /\ f[1] = P!Exec(f[0], s1) /\ f[2] = P!Exec(f[1], s2)
      /\ f[3] = P!Exec(f[2], s3) /\ f[4] = P!Exec(f[3], s4)
  <2> HIDE DEF stmts, s1, s2, s3, s4
  <2>1. /\ f[0] = P!Q!EmptyDB
        /\ \A n \in 1..Len(stmts) : f[n] = P!Exec(f[n - 1], stmts[n])
    <3>1. Len(stmts) \in Nat
      BY <1>2
    <3>2. QED BY <3>1, AfterResult
  <2> HIDE DEF f
  <2>2. \A n \in {1, 2, 3, 4} : f[n] = P!Exec(f[n - 1], stmts[n])
    BY <2>1, <1>2
  <2>3. QED BY <2>1, <2>2, <1>2
<1> HIDE DEF f
<1>4. ASSUME NEW b PROVE /\ P!Exec(b, s1) = P!Q!SaveProcessDefinition(b, Definition(JobProcess))
                         /\ P!Exec(b, s2) = P!Q!SaveProcessDefinition(b, Definition(MessageProcess))
                         /\ P!Exec(b, s3) = P!Q!SaveDmnResourceDefinition(b, DmnResource)
                         /\ P!Exec(b, s4) = P!Q!SaveDecisionDefinition(b, Decision(p))
  BY DEF P!Exec, P!Stmt
<1> HIDE DEF s1, s2, s3, s4
<1>5. DOMAIN P!Q!EmptyDB = P!Q!Tables /\ \A t \in P!Q!Tables : P!Q!EmptyDB[t] = {}
  BY DEF P!Q!EmptyDB
<1> DEFINE d1 == Definition(JobProcess)
           d2 == Definition(MessageProcess)
           defs == {"process_definition", "dmn_resource_definition", "decision_definition"}
           Rest(b) == DOMAIN b = P!Q!Tables /\ \A t \in P!Q!Tables \ defs : b[t] = {}
<1> HIDE DEF d1, d2
<1>6. defs \subseteq P!Q!Tables
  BY DEF P!Q!Tables
<1>7. /\ Rest(f[4])
      /\ f[4].process_definition = {d1, d2}
      /\ f[4].dmn_resource_definition = {DmnResource}
      /\ f[4].decision_definition = {Decision(p)}
  <2>0. f[0] = P!Q!EmptyDB
    BY <1>3
  <2>1. /\ Rest(f[1])
        /\ f[1].process_definition = {d1}
        /\ f[1].dmn_resource_definition = {} /\ f[1].decision_definition = {}
    <3>1. f[1] = [P!Q!EmptyDB EXCEPT !.process_definition = P!Q!EmptyDB.process_definition \cup {d1}]
      BY <1>3, <1>4 DEF P!Q!SaveProcessDefinition, d1
    <3>2. QED BY <3>1, <1>5, <1>6
  <2>2. /\ Rest(f[2])
        /\ f[2].process_definition = {d1, d2}
        /\ f[2].dmn_resource_definition = {} /\ f[2].decision_definition = {}
    <3>1. f[2] = [f[1] EXCEPT !.process_definition = f[1].process_definition \cup {d2}]
      BY <1>3, <1>4 DEF P!Q!SaveProcessDefinition, d2
    <3>2. QED BY <3>1, <2>1, <1>6
  <2>3. /\ Rest(f[3])
        /\ f[3].process_definition = {d1, d2}
        /\ f[3].dmn_resource_definition = {DmnResource} /\ f[3].decision_definition = {}
    <3>1. f[3] = [f[2] EXCEPT !.dmn_resource_definition = f[2].dmn_resource_definition \cup {DmnResource}]
      BY <1>3, <1>4 DEF P!Q!SaveDmnResourceDefinition
    <3>2. QED BY <3>1, <2>2, <1>6
  <2>4. QED
    <3>1. f[4] = [f[3] EXCEPT !.decision_definition = f[3].decision_definition \cup {Decision(p)}]
      BY <1>3, <1>4 DEF P!Q!SaveDecisionDefinition
    <3>2. QED BY <3>1, <2>3, <1>6
<1>8. Sound(f[4])
  <2>1. IsFiniteSet({}) /\ IsFiniteSet({DmnResource}) /\ IsFiniteSet({Decision(p)})
    BY FS_EmptySet, FS_Singleton
  <2>2. IsFiniteSet({d1, d2})
    <3>1. IsFiniteSet({d1})
      BY FS_Singleton
    <3>2. IsFiniteSet({d1} \cup {d2})
      BY <3>1, FS_AddElement
    <3>3. {d1} \cup {d2} = {d1, d2}
      OBVIOUS
    <3>4. QED BY <3>2, <3>3
  <2>3. QED BY <2>1, <2>2, <1>7 DEF Sound
<1>9. P!Q!References(f[4])
  <2>1. Decision(p).drd = DmnResource.key
    BY DEF Decision, DmnResource
  <2>2. QED BY <2>1, <1>7 DEF P!Q!References, P!Q!Keys, P!Q!Tables
<1>10. f[4].process_instance = {}
  BY <1>7 DEF P!Q!Tables
<1>11. QED BY <1>1, <1>2, <1>8, <1>9, <1>10 DEF Database

-----------------------------------------------------------------------------
(* Batches of engine calls *)

\* A statement is what it says.
LEMMA StmtQuery == ASSUME NEW q, NEW r PROVE P!Stmt(q, r).q = q
BY DEF P!Stmt

\* A sequence of statements of engines, by the set that they are from.
LEMMA StmtsOver ==
    ASSUME NEW S, NEW u, u \in Seq(S), \A s \in S : s.q \in EngineQueries
    PROVE  EngineStmts(u)
BY DEF EngineStmts

\* Up to four statements in a row.
LEMMA FewStmts ==
    /\ EngineStmts(<<>>)
    /\ \A a : a.q \in EngineQueries => EngineStmts(<<a>>)
    /\ \A a, b : a.q \in EngineQueries /\ b.q \in EngineQueries => EngineStmts(<<a, b>>)
    /\ \A a, b, c : a.q \in EngineQueries /\ b.q \in EngineQueries /\ c.q \in EngineQueries
                       => EngineStmts(<<a, b, c>>)
    /\ \A a, b, c, d : /\ a.q \in EngineQueries /\ b.q \in EngineQueries
                       /\ c.q \in EngineQueries /\ d.q \in EngineQueries
                       => EngineStmts(<<a, b, c, d>>)
<1>1. EngineStmts(<<>>)
  <2> DEFINE S == {}
             u == <<>>
  <2>1. u \in Seq(S)
    OBVIOUS
  <2>2. \A s \in S : s.q \in EngineQueries
    OBVIOUS
  <2> HIDE DEF S
  <2>3. EngineStmts(u)
    <3> HIDE DEF u
    <3>1. QED BY <2>1, <2>2, StmtsOver
  <2>4. QED BY <2>3
<1>2. ASSUME NEW a, a.q \in EngineQueries PROVE EngineStmts(<<a>>)
  <2> DEFINE S == {a}
             u == <<a>>
  <2>1. u \in Seq(S)
    OBVIOUS
  <2>2. \A s \in S : s.q \in EngineQueries
    BY <1>2
  <2> HIDE DEF S
  <2>3. EngineStmts(u)
    <3> HIDE DEF u
    <3>1. QED BY <2>1, <2>2, StmtsOver
  <2>4. QED BY <2>3
<1>3. ASSUME NEW a, NEW b, a.q \in EngineQueries, b.q \in EngineQueries PROVE EngineStmts(<<a, b>>)
  <2> DEFINE S == {a, b}
             u == <<a, b>>
  <2>1. u \in Seq(S)
    OBVIOUS
  <2>2. \A s \in S : s.q \in EngineQueries
    BY <1>3
  <2> HIDE DEF S
  <2>3. EngineStmts(u)
    <3> HIDE DEF u
    <3>1. QED BY <2>1, <2>2, StmtsOver
  <2>4. QED BY <2>3
<1>4. ASSUME NEW a, NEW b, NEW c, a.q \in EngineQueries, b.q \in EngineQueries, c.q \in EngineQueries
      PROVE  EngineStmts(<<a, b, c>>)
  <2> DEFINE S == {a, b, c}
             u == <<a, b, c>>
  <2>1. u \in Seq(S)
    OBVIOUS
  <2>2. \A s \in S : s.q \in EngineQueries
    BY <1>4
  <2> HIDE DEF S
  <2>3. EngineStmts(u)
    <3> HIDE DEF u
    <3>1. QED BY <2>1, <2>2, StmtsOver
  <2>4. QED BY <2>3
<1>5. ASSUME NEW a, NEW b, NEW c, NEW d, a.q \in EngineQueries, b.q \in EngineQueries,
             c.q \in EngineQueries, d.q \in EngineQueries
      PROVE  EngineStmts(<<a, b, c, d>>)
  <2> DEFINE S == {a, b, c, d}
             u == <<a, b, c, d>>
  <2>1. u \in Seq(S)
    OBVIOUS
  <2>2. \A s \in S : s.q \in EngineQueries
    BY <1>5
  <2> HIDE DEF S
  <2>3. EngineStmts(u)
    <3> HIDE DEF u
    <3>1. QED BY <2>1, <2>2, StmtsOver
  <2>4. QED BY <2>3
<1>6. QED BY <1>1, <1>2, <1>3, <1>4, <1>5

\* One batch after another.
LEMMA JoinedStmts ==
    ASSUME NEW u, NEW v, EngineStmts(u), EngineStmts(v)
    PROVE  EngineStmts(u \o v)
<1>1. PICK S : u \in Seq(S) /\ \A s \in S : s.q \in EngineQueries
  BY DEF EngineStmts
<1>2. PICK T : v \in Seq(T) /\ \A s \in T : s.q \in EngineQueries
  BY DEF EngineStmts
<1>3. u \in Seq(S \cup T) /\ v \in Seq(S \cup T)
  BY <1>1, <1>2
<1>4. u \o v \in Seq(S \cup T)
  BY <1>3
<1>5. QED BY <1>1, <1>2, <1>4 DEF EngineStmts

\* The rows of a finite set, in some order.
LEMMA SetToSeqResult ==
    ASSUME NEW S, IsFiniteSet(S)
    PROVE  SetToSeq(S) \in Seq(S)
<1>1. Cardinality(S) \in Nat /\ ExistsBijection(1..Cardinality(S), S)
  BY FS_NatBijection, FS_CountingElements
<1>2. PICK f : f \in Bijection(1..Cardinality(S), S)
  BY <1>1 DEF ExistsBijection
<1>3. f \in [1..Cardinality(S) -> S] /\ IsInjective(f)
  BY <1>2 DEF Bijection, Injection
<1>4. SetToSeq(S) \in [1..Cardinality(S) -> S]
  BY <1>3 DEF SetToSeq
<1>5. QED BY <1>1, <1>4

\* Rows that are saved by the same statement.
LEMMA RowsAsStmts ==
    ASSUME NEW q \in EngineQueries, NEW f, IsFiniteSet(DOMAIN f), f = [x \in DOMAIN f |-> f[x]]
    PROVE  EngineStmts(SetToSeq({P!Stmt(q, f[x]) : x \in DOMAIN f}))
<1> DEFINE g == [x \in DOMAIN f |-> P!Stmt(q, f[x])]
           S == {g[x] : x \in DOMAIN f}
<1>1. IsFiniteSet(S)
  <2>1. DOMAIN g = DOMAIN f /\ g = [x \in DOMAIN f |-> g[x]]
    OBVIOUS
  <2> HIDE DEF g
  <2>2. QED BY <2>1, ImageIsFinite
<1>2. {P!Stmt(q, f[x]) : x \in DOMAIN f} = S
  OBVIOUS
<1>3. \A s \in S : s.q \in EngineQueries
  BY StmtQuery
<1> HIDE DEF S
<1>4. SetToSeq(S) \in Seq(S)
  BY <1>1, SetToSeqResult
<1>5. EngineStmts(SetToSeq(S))
  BY <1>3, <1>4 DEF EngineStmts
<1>6. QED BY <1>2, <1>5

\* The statements of a call, whatever else it has.
LEMMA CallStmtsResult ==
    ASSUME NEW n, NEW i, NEW pc, NEW rows, NEW then
    PROVE  /\ Call(n, i, pc).stmts = <<>>
           /\ \A x, y : [Call(n, i, pc) EXCEPT !.then = x].stmts = <<>>
           /\ \A x : [Call(n, i, pc) EXCEPT !.term = x].stmts = <<>>
           /\ Batch(n, i, rows, then).stmts = rows
           /\ \A x : [Batch(n, i, rows, then) EXCEPT !.locked = x].stmts = rows
           /\ \A x : [Batch(n, i, rows, then) EXCEPT !.from = x].stmts = rows
           /\ \A x : [Batch(n, i, rows, then) EXCEPT !.term = x].stmts = rows
<1> DEFINE fields == {"node", "part", "inst", "pc", "term", "from", "locked", "then", "ptr", "stmts"}
<1>1. ASSUME NEW m PROVE DOMAIN Call(n, i, m) = fields /\ Call(n, i, m).stmts = <<>>
  BY DEF Call
<1>2. PICK m, ptr : Batch(n, i, rows, then)
                       = [Call(n, i, m) EXCEPT !.stmts = rows, !.then = then, !.ptr = ptr]
  BY DEF Batch
<1>3. DOMAIN Batch(n, i, rows, then) = fields /\ Batch(n, i, rows, then).stmts = rows
  BY <1>1, <1>2
<1>4. QED BY <1>1, <1>3

-----------------------------------------------------------------------------
(* What steps do to the replicas *)

\* The raft leader of a partition keeps its definitions, whoever it is.
DefinitionsStay == \A p \in Partition : Within(DB(p), DB(p)')

\* What every step has to do to the replicas.
CopiesGood == Placement' /\ Replicas' /\ DefinitionsStay

\* A node hosts partitions only.
LEMMA HostedPartitions ==
    ASSUME Placement
    PROVE  /\ \A n \in Node : Hosting(n) \subseteq Partition
           /\ \A p \in Partition : raft[p] \in Node /\ p \in Hosting(raft[p])
           /\ \A p \in Partition : leader[p] \in Node /\ p \in Hosting(leader[p])
BY ClusterCallsAssumption DEF Placement, Hosting

\* Within is an order.
LEMMA WithinOrder ==
    /\ \A a : Within(a, a)
    /\ \A a, b, c : Within(a, b) /\ Within(b, c) => Within(a, c)
BY DEF Within

\* Nothing is written.
LEMMA CopiesUnchanged ==
    ASSUME Placement, Replicas, UNCHANGED <<scenario, copy, raft>>,
           leader' \in [Partition -> Node], \A p \in Partition : p \in Hosting(leader'[p])
    PROVE  CopiesGood
<1>1. /\ \A n : Hosting(n)' = Hosting(n)
      /\ \A p : DB(p)' = DB(p)
  BY DEF Hosting, DB
<1>2. Placement'
  BY <1>1 DEF Placement
<1>3. Replicas'
  BY <1>1 DEF Replicas
<1>4. QED BY <1>1, <1>2, <1>3, WithinOrder DEF CopiesGood, DefinitionsStay

\* A replica is replaced by a database that has its definitions; only the raft
\* leader gets new ones.
LEMMA CopyWritten ==
    ASSUME Placement, Replicas, UNCHANGED <<scenario, raft, leader>>,
           NEW m, NEW q, NEW x, copy' = [copy EXCEPT ![m][q] = x],
           m \in Node /\ q \in Hosting(m) =>
              /\ Database(x)
              /\ Within(copy[m][q], x)
              /\ Within(x, copy[m][q]) \/ raft[q] = m
    PROVE  CopiesGood
<1>1. \A n : Hosting(n)' = Hosting(n)
  BY DEF Hosting
<1>2. Placement'
  BY <1>1 DEF Placement
<1>3. /\ DOMAIN copy' = Node
      /\ \A n \in Node : DOMAIN copy'[n] = Hosting(n)
      /\ \A n \in Node, p \in Partition : p \in Hosting(n) =>
            copy'[n][p] = IF n = m /\ p = q THEN x ELSE copy[n][p]
  BY DEF Replicas
<1>4. \A n \in Node : Hosting(n) \subseteq Partition
  BY HostedPartitions
<1>5. ASSUME NEW p \in Partition
      PROVE  /\ DB(p)' = IF raft[p] = m /\ p = q THEN x ELSE DB(p)
             /\ Within(DB(p), DB(p)')
  <2>1. raft[p] \in Node /\ p \in Hosting(raft[p])
    BY HostedPartitions
  <2>2. DB(p)' = copy'[raft[p]][p] /\ DB(p) = copy[raft[p]][p]
    BY DEF DB
  <2>3. DB(p)' = IF raft[p] = m /\ p = q THEN x ELSE DB(p)
    BY <1>3, <2>1, <2>2
  <2>4. QED BY <2>1, <2>2, <2>3, WithinOrder
<1>6. ASSUME NEW n \in Node, NEW p \in Hosting(n)
      PROVE  Database(copy'[n][p]) /\ Within(copy'[n][p], DB(p)')
  <2>1. p \in Partition
    BY <1>4
  <2>2. Database(copy[n][p]) /\ Within(copy[n][p], DB(p))
    BY DEF Replicas
  <2>3. Within(DB(p), DB(p)')
    BY <1>5, <2>1
  <2>4. CASE n = m /\ p = q
    <3>1. copy'[n][p] = x /\ Database(x)
      BY <1>3, <2>1, <2>4
    <3>2. CASE raft[q] = m
      BY <3>1, <3>2, <2>1, <2>4, <1>5, WithinOrder
    <3>3. CASE Within(x, copy[m][q])
      BY <3>1, <3>3, <2>2, <2>3, <2>4, WithinOrder
    <3>4. QED BY <3>2, <3>3, <2>4
  <2>5. CASE ~(n = m /\ p = q)
    BY <1>3, <2>1, <2>2, <2>3, <2>5, WithinOrder
  <2>6. QED BY <2>4, <2>5
<1>7. Replicas'
  BY <1>1, <1>3, <1>6 DEF Replicas
<1>8. QED BY <1>2, <1>5, <1>7 DEF CopiesGood, DefinitionsStay

\* A replica catches up.
LEMMA ReplicateIsGood ==
    ASSUME Placement, Replicas, NEW n \in Node, NEW p \in Partition, Replicate(n, p)
    PROVE  CopiesGood
<1>1. /\ copy' = [copy EXCEPT ![n][p] = DB(p)]
      /\ UNCHANGED <<scenario, raft, leader>>
      /\ p \in Hosting(n)
  BY DEF Replicate, placement
<1>2. Database(DB(p)) /\ Within(copy[n][p], DB(p))
  BY <1>1, HostedPartitions DEF Replicas, DB
<1>3. Within(DB(p), DB(p))
  BY WithinOrder
<1>4. QED
  <2>1. CASE raft[p] = n
    BY <1>1, <1>2, <2>1, CopyWritten
  <2>2. CASE raft[p] # n
    <3>1. \A k : Hosting(k)' = Hosting(k)
      BY <1>1 DEF Hosting
    <3>2. /\ DOMAIN copy' = Node
          /\ \A k \in Node : DOMAIN copy'[k] = Hosting(k)
          /\ \A k \in Node, r \in Partition : r \in Hosting(k) =>
                copy'[k][r] = IF k = n /\ r = p THEN DB(p) ELSE copy[k][r]
      BY <1>1 DEF Replicas
    <3>3. \A r \in Partition : DB(r)' = DB(r)
      BY <1>1, <2>2, <3>2, HostedPartitions DEF DB
    <3>4. Replicas'
      BY <1>2, <1>3, <3>1, <3>2, <3>3, HostedPartitions DEF Replicas
    <3>5. Placement'
      BY <1>1, <3>1 DEF Placement
    <3>6. QED BY <3>3, <3>4, <3>5, WithinOrder DEF CopiesGood, DefinitionsStay
  <2>3. QED BY <2>1, <2>2

\* A new raft leader has what the old one had.
LEMMA ElectIsGood ==
    ASSUME Placement, Replicas, NEW n \in Node, NEW p \in Partition, Elect(p, n)
    PROVE  CopiesGood
<1>1. /\ copy' = [copy EXCEPT ![n][p] = DB(p)]
      /\ raft' = [raft EXCEPT ![p] = n]
      /\ UNCHANGED <<scenario, leader>>
      /\ p \in Hosting(n) /\ n # raft[p]
  BY DEF Elect
<1>2. Database(DB(p))
  BY HostedPartitions DEF Replicas, DB
<1>3. \A k : Hosting(k)' = Hosting(k)
  BY <1>1 DEF Hosting
<1>4. /\ DOMAIN copy' = Node
      /\ \A k \in Node : DOMAIN copy'[k] = Hosting(k)
      /\ \A k \in Node, r \in Partition : r \in Hosting(k) =>
            copy'[k][r] = IF k = n /\ r = p THEN DB(p) ELSE copy[k][r]
  BY <1>1 DEF Replicas
<1>5. /\ raft' \in [Partition -> Node]
      /\ raft'[p] = n /\ \A r \in Partition \ {p} : raft'[r] = raft[r]
  BY <1>1 DEF Placement
<1>6. Placement'
  BY <1>1, <1>3, <1>5 DEF Placement
<1>7. \A r \in Partition : DB(r)' = DB(r)
  BY <1>1, <1>4, <1>5, HostedPartitions DEF DB
<1>8. Replicas'
  BY <1>2, <1>3, <1>4, <1>7, HostedPartitions, WithinOrder DEF Replicas
<1>9. QED BY <1>6, <1>7, <1>8, WithinOrder DEF CopiesGood, DefinitionsStay

-----------------------------------------------------------------------------
(* Engine calls *)

\* What a step that is no deployment's has to do.
EngineGood == CopiesGood /\ CallsSaveRows' /\ UNCHANGED <<scenario, deploys, skipped>>

\* A batch that is written anywhere keeps the definitions.
LEMMA EngineWrites ==
    ASSUME Placement, Replicas, UNCHANGED <<scenario, raft, leader>>, NEW m, NEW q,
           NEW stmts, EngineStmts(stmts),
           copy' = [copy EXCEPT ![m][q] = P!ExecuteStatements(@, stmts)]
    PROVE  CopiesGood
<1> DEFINE x == P!ExecuteStatements(copy[m][q], stmts)
<1>1. copy' = [copy EXCEPT ![m][q] = x]
  OBVIOUS
<1>2. ASSUME m \in Node, q \in Hosting(m)
      PROVE  Database(x) /\ Within(copy[m][q], x) /\ Within(x, copy[m][q])
  <2>1. Database(copy[m][q])
    BY <1>2 DEF Replicas
  <2>2. /\ Database(x)
        /\ x.process_definition = copy[m][q].process_definition
        /\ x.dmn_resource_definition = copy[m][q].dmn_resource_definition
    BY <2>1, EngineBatch
  <2> HIDE DEF x
  <2>3. QED BY <2>2 DEF Within
<1> HIDE DEF x
<1>3. QED BY <1>1, <1>2, CopyWritten

\* Nothing but the calls under way changes.
LEMMA OnlyCallsChange ==
    ASSUME Placement, Replicas, CallsSaveRows, NEW new, calls' \subseteq calls \cup new,
           \A b \in new : EngineStmts(b.stmts),
           UNCHANGED <<placement, copy, deploys, skipped>>
    PROVE  EngineGood
<1>1. UNCHANGED <<scenario, copy, raft, leader>>
  BY DEF placement
<1>2. CopiesGood
  BY <1>1, CopiesUnchanged, HostedPartitions DEF Placement
<1>3. CallsSaveRows'
  BY DEF CallsSaveRows
<1>4. QED BY <1>1, <1>2, <1>3 DEF EngineGood

\* A call begins.
LEMMA BeginIsGood ==
    ASSUME Placement, Replicas, CallsSaveRows, NEW b, EngineStmts(b.stmts), Begin(b)
    PROVE  EngineGood
<1> DEFINE new == {b}
<1>1. calls' \subseteq calls \cup new /\ UNCHANGED <<placement, copy, deploys, skipped>>
  BY DEF Begin
<1>2. \A x \in new : EngineStmts(x.stmts)
  OBVIOUS
<1> HIDE DEF new
<1>3. QED BY <1>1, <1>2, OnlyCallsChange

\* A call begins with its rows.
LEMMA BatchIsGood ==
    ASSUME Placement, Replicas, CallsSaveRows, NEW n, NEW i, NEW rows, NEW then, EngineStmts(rows),
           Begin(Batch(n, i, rows, then))
    PROVE  EngineGood
<1> DEFINE b == Batch(n, i, rows, then)
<1>1. EngineStmts(b.stmts)
  BY CallStmtsResult
<1> HIDE DEF b
<1>2. QED BY <1>1, BeginIsGood DEF b

\* The statements that calls are put together from.
LEMMA Queries ==
    /\ \A b, i, s : SaveInstance(b, i, s).q \in EngineQueries
    /\ \A b, i, s, e : SaveTokenAs(b, i, s, e).q \in EngineQueries
    /\ \A q \in EngineQueries : \A r : P!Stmt(q, r).q \in EngineQueries
    /\ {"SaveProcessInstance", "SaveToken", "SaveJob", "SaveMessageSubscription",
        "SaveFlowElementInstance", "UpdateOutputFlowElementInstance", "SaveIncident",
        "SaveDecisionInstance"} \subseteq EngineQueries
BY DEF SaveInstance, SaveTokenAs, P!Stmt, EngineQueries

\* Completing, failing and assigning a job.
LEMMA CompleteJobIsGood ==
    ASSUME Placement, Replicas, CallsSaveRows, NEW k, CompleteJob(k)
    PROVE  EngineGood
<1>1. PICK j \in OpenJobs(k) :
         Begin(Batch(Server(k), j.inst,
            <<P!Stmt("UpdateOutputFlowElementInstance", FlowElement(k, j.inst, 1)),
              SaveTokenAs(Replica(k), j.inst, "running", 2),
              P!Stmt("SaveJob", [j EXCEPT !.state = "completed"])>>, "run"))
  BY DEF CompleteJob
<1> DEFINE x == P!Stmt("UpdateOutputFlowElementInstance", FlowElement(k, j.inst, 1))
           y == SaveTokenAs(Replica(k), j.inst, "running", 2)
           z == P!Stmt("SaveJob", [j EXCEPT !.state = "completed"])
           rows == <<x, y, z>>
<1>2. x.q \in EngineQueries /\ y.q \in EngineQueries /\ z.q \in EngineQueries
  BY Queries
<1> HIDE DEF x, y, z
<1>3. EngineStmts(rows)
  BY <1>2, FewStmts
<1>4. Begin(Batch(Server(k), j.inst, rows, "run"))
  BY <1>1 DEF x, y, z
<1> HIDE DEF rows
<1>5. QED BY <1>3, <1>4, BatchIsGood

\* A job is failed: its incident is saved with it.
LEMMA FailJobIsGood ==
    ASSUME Placement, Replicas, CallsSaveRows, NEW k, FailJob(k)
    PROVE  EngineGood
<1>1. PICK m, i, w, x, y, z, then :
         /\ w.q \in EngineQueries /\ x.q \in EngineQueries
         /\ y.q \in EngineQueries /\ z.q \in EngineQueries
         /\ Begin(Batch(m, i, <<w, x, y, z>>, then))
  BY Queries DEF FailJob
<1> DEFINE rows == <<w, x, y, z>>
<1>2. EngineStmts(rows)
  BY <1>1, FewStmts
<1> HIDE DEF rows
<1>3. QED BY <1>1, <1>2, BatchIsGood DEF rows

\* A job is assigned: one row is saved.
LEMMA AssignJobIsGood ==
    ASSUME Placement, Replicas, CallsSaveRows, NEW k, AssignJob(k)
    PROVE  EngineGood
<1> DEFINE Begun(j) ==
              Begin([Batch(Server(k), j.inst, <<P!Stmt("SaveJob", [j EXCEPT !.assignee = "user"])>>, "none")
                        EXCEPT !.locked = FALSE])
<1>0. \E j \in {Row(q) : q \in P!FindJobByJobKey(Replica(k), k) \ {P!Error}} : Begun(j)
  BY Zenon DEF AssignJob
<1> HIDE DEF Begun
<1>1. PICK j : Begun(j)
  BY <1>0
<1> DEFINE x == P!Stmt("SaveJob", [j EXCEPT !.assignee = "user"])
           rows == <<x>>
           b == [Batch(Server(k), j.inst, rows, "none") EXCEPT !.locked = FALSE]
<1>2. x.q \in EngineQueries
  BY Queries
<1> HIDE DEF x
<1>3. EngineStmts(rows)
  BY <1>2, FewStmts
<1>4. Begin(b)
  BY <1>1 DEF Begun, x
<1> HIDE DEF rows
<1>5. EngineStmts(b.stmts)
  BY <1>3, CallStmtsResult
<1> HIDE DEF b
<1>6. QED BY <1>4, <1>5, BeginIsGood

\* A message.
LEMMA PublishMessageIsGood ==
    ASSUME Placement, Replicas, CallsSaveRows, NEW n, NEW corr, PublishMessage(n, corr)
    PROVE  EngineGood
<1> DEFINE home == R!N!GetPartitionIdFromString(C, corr)
           k == (CHOOSE x \in P!FindActiveMessageSubscriptionPointer(copy[n][home], "m", corr) : TRUE).key
           sub == CHOOSE q \in P!Q!GetMessageSubscriptionById(Replica(k), k, "active") : TRUE
<1>1. PICK s :
         Begin(Batch(Server(s.inst), s.inst,
            <<P!Stmt("SaveMessageSubscription", [sub EXCEPT !.state = "completed"]),
              P!Stmt("UpdateOutputFlowElementInstance", FlowElement(k, s.inst, 1)),
              SaveTokenAs(Replica(k), s.inst, "running", 2)>>, "run"))
  BY Zenon DEF PublishMessage
<1> HIDE DEF k, sub
<1> DEFINE u == P!Stmt("SaveMessageSubscription", [sub EXCEPT !.state = "completed"])
           v == P!Stmt("UpdateOutputFlowElementInstance", FlowElement(k, s.inst, 1))
           w == SaveTokenAs(Replica(k), s.inst, "running", 2)
           rows == <<u, v, w>>
<1>2. u.q \in EngineQueries /\ v.q \in EngineQueries /\ w.q \in EngineQueries
  BY Queries
<1> HIDE DEF u, v, w
<1>3. EngineStmts(rows)
  BY <1>2, FewStmts
<1>4. Begin(Batch(Server(s.inst), s.inst, rows, "run"))
  BY <1>1 DEF u, v, w
<1> HIDE DEF rows
<1>5. QED BY <1>3, <1>4, BatchIsGood

\* A call that gets through is served from a database.
LEMMA ServedFromDatabase ==
    ASSUME Placement, Replicas, NEW k,
           \/ R!ResolveIncident(C, k, "ok").status = 201
           \/ R!CancelProcessInstance(C, k, "ok").status = 204
    PROVE  Database(Replica(k))
<1> DEFINE p == R!N!S!GetPartitionId(k)
<1>1. R!N!PartitionLeader(C, p) # Null
  <2>1. SUFFICES ASSUME R!N!PartitionLeader(C, p) = Null PROVE FALSE
    OBVIOUS
  <2>2. R!N!ResolveIncident(C, k, "ok").code = "cluster" /\ R!N!CancelProcessInstance(C, k, "ok").code = "cluster"
    BY <2>1 DEF R!N!ResolveIncident, R!N!CancelProcessInstance, R!N!OnLeader, R!N!S!Err
  <2>3. ASSUME NEW r, r.code = "cluster", NEW codes, "cluster" \in DOMAIN codes, codes["cluster"] = 502, NEW s
        PROVE  R!Reply(r, s, codes).status = 502
    BY <2>3 DEF R!Reply, R!Response
  <2>4. QED BY <2>2, <2>3 DEF R!ResolveIncident, R!CancelProcessInstance, R!ByKey
<1>2. p \in DOMAIN leader
  BY <1>1 DEF R!N!PartitionLeader, R!N!Partitions, C
<1>3. p \in Partition
  BY <1>2 DEF Placement
<1>4. QED BY <1>3, HostedPartitions DEF Replica, Server, Replicas

\* Tables are finite, and so is what is read from them.
LEMMA PendingJobsAreFinite ==
    ASSUME NEW db, Database(db), NEW i
    PROVE  IsFiniteSet({Row(q) : q \in P!FindPendingProcessInstanceJobs(db, i)})
<1> DEFINE T == P!Q!FindProcessInstanceJobsInState(db, i, {"completing", "active", "failed"})
           att(r) == [tok |-> IF P!Q!GetTokens(db, {r.token}) = {} THEN P!BareToken(r.token)
                              ELSE CHOOSE t \in P!Q!GetTokens(db, {r.token}) : TRUE] @@ r
           bare(j) == [j EXCEPT !.assignee = Null]
           f == [r \in T |-> Row(bare(att(r)))]
<1>1. IsFiniteSet(db.job)
  BY DEF Database, Sound, P!Q!Tables
<1>2. IsFiniteSet(T)
  BY <1>1, FS_Subset DEF P!Q!FindProcessInstanceJobsInState
<1>3. P!FindPendingProcessInstanceJobs(db, i) = {bare(j) : j \in {att(r) : r \in T}}
  BY DEF P!FindPendingProcessInstanceJobs, P!inflateJobs, P!WithTokens
<1> HIDE DEF T, att, bare
<1>4. {Row(q) : q \in P!FindPendingProcessInstanceJobs(db, i)} = {f[r] : r \in T}
  BY <1>3
<1>5. DOMAIN f = T /\ f = [r \in T |-> f[r]]
  OBVIOUS
<1> HIDE DEF f
<1>6. IsFiniteSet({f[r] : r \in T})
  BY <1>2, <1>5, ImageIsFinite
<1>7. QED BY <1>4, <1>6

\* Rows of a finite set, each saved by the same statement.
LEMMA RowsAreSaved ==
    ASSUME NEW S, IsFiniteSet(S), NEW q \in EngineQueries, NEW f, f = [x \in S |-> f[x]],
           NEW T, T = {P!Stmt(q, f[x]) : x \in S}
    PROVE  EngineStmts(SetToSeq(T))
<1>1. DOMAIN f = S
  OBVIOUS
<1>2. T = {P!Stmt(q, f[x]) : x \in DOMAIN f}
  BY <1>1
<1>3. QED BY <1>1, <1>2, RowsAsStmts

\* Resolving an incident.
LEMMA ResolveIncidentIsGood ==
    ASSUME Placement, Replicas, CallsSaveRows, NEW k, ResolveIncident(k)
    PROVE  EngineGood
<1> DEFINE db == Replica(k)
           jobs(x) == {Row(q) : q \in P!FindPendingProcessInstanceJobs(db, x.inst)}
           open(x) == {P!Stmt("SaveJob", [j EXCEPT !.state = "active"]) : j \in jobs(x)}
<1>1. PICK x :
         Begin(Batch(Server(k), x.inst,
            <<P!Stmt("SaveIncident", [Row(x) EXCEPT !.resolved_at = 1])>> \o SetToSeq(open(x))
            \o <<SaveTokenAs(db, x.inst, IF jobs(x) = {} THEN "running" ELSE "waiting", 1)>>, "run"))
  BY DEF ResolveIncident
<1>2. Database(db)
  BY ServedFromDatabase DEF ResolveIncident
<1> DEFINE S == jobs(x)
           f == [j \in S |-> [j EXCEPT !.state = "active"]]
           T == open(x)
<1>3. IsFiniteSet(S)
  BY <1>2, PendingJobsAreFinite
<1> HIDE DEF S
<1>4. T = {P!Stmt("SaveJob", f[j]) : j \in S} /\ f = [j \in S |-> f[j]]
  BY DEF S
<1> HIDE DEF f, T
<1>5. EngineStmts(SetToSeq(T))
  BY <1>3, <1>4, RowsAreSaved, Queries
<1> DEFINE a == P!Stmt("SaveIncident", [Row(x) EXCEPT !.resolved_at = 1])
           c == SaveTokenAs(db, x.inst, IF jobs(x) = {} THEN "running" ELSE "waiting", 1)
           u == <<a>>
           v == SetToSeq(T)
           w == <<c>>
           rows == u \o v \o w
<1>6. a.q \in EngineQueries /\ c.q \in EngineQueries
  BY Queries
<1>7. Begin(Batch(Server(k), x.inst, rows, "run"))
  BY <1>1 DEF T
<1> HIDE DEF a, c
<1>8. EngineStmts(u) /\ EngineStmts(w)
  BY <1>6, FewStmts
<1> HIDE DEF u, v, w
<1>9. EngineStmts(u \o v)
  BY <1>5, <1>8, JoinedStmts DEF v
<1>10. EngineStmts(rows)
  BY <1>8, <1>9, JoinedStmts
<1> HIDE DEF rows
<1>11. QED BY <1>7, <1>10, BatchIsGood

\* Cancelling an instance.
LEMMA CancelProcessInstanceIsGood ==
    ASSUME Placement, Replicas, CallsSaveRows, NEW i, CancelProcessInstance(i)
    PROVE  EngineGood
<1> DEFINE db == Replica(i)
           J == P!Q!FindProcessInstanceJobsInState(db, i, {"completing", "active", "failed"})
           M == P!Q!FindProcessInstanceMessageSubscriptions(db, i, "active")
           K == P!GetActiveTokensForProcessInstance(db, i)
           jobs == {P!Stmt("SaveJob", j) : j \in {[r EXCEPT !.state = "terminated"] : r \in J}}
           subs == {P!Stmt("SaveMessageSubscription", s) : s \in {[r EXCEPT !.state = "terminated"] : r \in M}}
           toks == {P!Stmt("SaveToken", [t EXCEPT !.state = "canceled"]) : t \in K}
           c == SaveInstance(db, i, "terminated")
           w == <<c>>
           rows == SetToSeq(jobs) \o SetToSeq(subs) \o SetToSeq(toks) \o w
<1>1. Begin(Batch(Server(i), i, rows, "none"))
  BY DEF CancelProcessInstance
<1>2. Database(db)
  BY ServedFromDatabase DEF CancelProcessInstance
<1>3. IsFiniteSet(db.job) /\ IsFiniteSet(db.message_subscription) /\ IsFiniteSet(db.execution_token)
  BY <1>2 DEF Database, Sound, P!Q!Tables
<1>4. IsFiniteSet(J) /\ IsFiniteSet(M) /\ IsFiniteSet(K)
  BY <1>3, FS_Subset DEF P!Q!FindProcessInstanceJobsInState, P!Q!FindProcessInstanceMessageSubscriptions,
     P!GetActiveTokensForProcessInstance, P!Q!GetTokensForProcessInstance
<1> HIDE DEF J, M, K
<1> DEFINE f == [r \in J |-> [r EXCEPT !.state = "terminated"]]
           g == [r \in M |-> [r EXCEPT !.state = "terminated"]]
           h == [r \in K |-> [r EXCEPT !.state = "canceled"]]
<1>5. /\ jobs = {P!Stmt("SaveJob", f[r]) : r \in J} /\ f = [r \in J |-> f[r]]
      /\ subs = {P!Stmt("SaveMessageSubscription", g[r]) : r \in M} /\ g = [r \in M |-> g[r]]
      /\ toks = {P!Stmt("SaveToken", h[r]) : r \in K} /\ h = [r \in K |-> h[r]]
  OBVIOUS
<1>6. c.q \in EngineQueries
  BY Queries
<1> HIDE DEF f, g, h, jobs, subs, toks, c
<1>7. EngineStmts(SetToSeq(jobs))
  BY <1>4, <1>5, RowsAreSaved, Queries
<1>8. EngineStmts(SetToSeq(subs))
  BY <1>4, <1>5, RowsAreSaved, Queries
<1>9. EngineStmts(SetToSeq(toks))
  BY <1>4, <1>5, RowsAreSaved, Queries
<1>10. EngineStmts(w)
  BY <1>6, FewStmts
<1> HIDE DEF w
<1>11. EngineStmts(rows)
  BY <1>7, <1>8, <1>9, <1>10, JoinedStmts
<1> HIDE DEF rows
<1>12. QED BY <1>1, <1>11, BatchIsGood

\* A new instance, or a decision, goes to the raft leader.
LEMMA CreateInstanceIsGood ==
    ASSUME Placement, Replicas, CallsSaveRows, NEW m, NEW p, NEW def, NEW corr,
           CreateInstance(m, p, def, corr)
    PROVE  EngineGood
<1>1. PICK i, r, t :
         /\ copy' = [copy EXCEPT ![m][p] = P!ExecuteStatements(@,
                        <<P!Stmt("SaveProcessInstance", r), P!Stmt("SaveToken", t)>>)]
         /\ calls' = calls \cup {Call(m, i, "run")}
         /\ UNCHANGED <<placement, deploys, skipped>>
  BY DEF CreateInstance
<1> DEFINE x == P!Stmt("SaveProcessInstance", r)
           y == P!Stmt("SaveToken", t)
           rows == <<x, y>>
<1>2. x.q \in EngineQueries /\ y.q \in EngineQueries
  BY Queries
<1> HIDE DEF x, y
<1>3. EngineStmts(rows)
  BY <1>2, FewStmts
<1>4. copy' = [copy EXCEPT ![m][p] = P!ExecuteStatements(@, rows)]
  BY <1>1 DEF x, y
<1>5. UNCHANGED <<scenario, raft, leader>>
  BY <1>1 DEF placement
<1> HIDE DEF rows
<1>6. CopiesGood
  BY <1>3, <1>4, <1>5, EngineWrites
<1>7. CallsSaveRows'
  BY <1>1, CallStmtsResult, FewStmts DEF CallsSaveRows
<1>8. QED BY <1>1, <1>5, <1>6, <1>7 DEF EngineGood

\* A decision that is evaluated: its instance is saved.
LEMMA EvaluateDecisionIsGood ==
    ASSUME Placement, Replicas, CallsSaveRows, EvaluateDecision
    PROVE  EngineGood
<1> DEFINE at(p) == KeySpace * p + 80 + Cardinality(DB(p).decision_instance)
           row(p) == [key |-> at(p), drd |-> 3, decision |-> Decision(p).key, at |-> at(p)]
           Written(m, p) ==
              copy' = [copy EXCEPT ![m][p] = P!ExecuteStatements(@, P!SaveDecisionInstance(row(p), Null))]
<1>1. \E m \in R!N!GetLeastStressedPartitionLeader(C) :
         \E p \in R!N!S!GetRandomEngine(C, m) :
           /\ raft[p] = m /\ Cardinality(DB(p).decision_instance) < scenario.insts
           /\ Written(m, p)
  BY Zenon DEF EvaluateDecision
<1> HIDE DEF Written, row
<1>2. PICK m, p : Written(m, p)
  BY <1>1
<1>3. UNCHANGED <<scenario, raft, leader, calls, deploys, skipped>>
  BY DEF EvaluateDecision, placement
<1> DEFINE rows == P!SaveDecisionInstance(row(p), Null)
<1>4. EngineStmts(rows)
  <2>1. PICK r : rows = <<P!Stmt("SaveDecisionInstance", r)>>
    BY DEF P!SaveDecisionInstance
  <2> DEFINE x == P!Stmt("SaveDecisionInstance", r)
  <2>2. x.q \in EngineQueries
    BY Queries
  <2>3. rows = <<x>>
    BY <2>1
  <2> HIDE DEF x, rows
  <2>4. QED BY <2>2, <2>3, FewStmts
<1> HIDE DEF rows
<1>5. copy' = [copy EXCEPT ![m][p] = P!ExecuteStatements(@, rows)]
  BY <1>2 DEF Written, rows
<1>6. CopiesGood
  BY <1>3, <1>4, <1>5, EngineWrites
<1>7. QED BY <1>3, <1>6 DEF EngineGood, CallsSaveRows

\* Variables: the handler looks at the instance first, and then calls its engine.
LEMMA BeginVarsIsGood ==
    ASSUME Placement, Replicas, CallsSaveRows, NEW i, NEW op, BeginVars(i, op)
    PROVE  EngineGood
<1> DEFINE b == [Call(Null, i, "vars") EXCEPT !.then = op]
<1>1. Begin(b)
  BY DEF BeginVars
<1>2. EngineStmts(b.stmts)
  BY CallStmtsResult, FewStmts
<1> HIDE DEF b
<1>3. QED BY <1>1, <1>2, BeginIsGood

\* The second half of the handlers: the instance is saved with its variables.
LEMMA VariablesAreGood ==
    ASSUME Placement, Replicas, CallsSaveRows, NEW b,
           UpdateProcessInstanceVariables(b) \/ DeleteProcessInstanceVariable(b)
    PROVE  EngineGood
<1>1. UNCHANGED <<placement, copy, deploys, skipped>>
  BY DEF UpdateProcessInstanceVariables, DeleteProcessInstanceVariable
<1>2. CASE calls' = calls \ {b}
  <2> DEFINE new == {}
  <2>1. calls' \subseteq calls \cup new /\ \A c \in new : EngineStmts(c.stmts)
    BY <1>2
  <2> HIDE DEF new
  <2>2. QED BY <1>1, <2>1, OnlyCallsChange
<1>3. ASSUME NEW r, NEW then,
             calls' = (calls \ {b}) \cup
                {Batch(Server(b.inst), b.inst, <<P!Stmt("SaveProcessInstance", r)>>, then)}
      PROVE  EngineGood
  <2> DEFINE x == P!Stmt("SaveProcessInstance", r)
             rows == <<x>>
             c == Batch(Server(b.inst), b.inst, rows, then)
             new == {c}
  <2>1. x.q \in EngineQueries
    BY Queries
  <2>2. calls' \subseteq calls \cup new
    BY <1>3
  <2> HIDE DEF x
  <2>3. EngineStmts(rows)
    BY <2>1, FewStmts
  <2> HIDE DEF rows
  <2>4. EngineStmts(c.stmts)
    BY <2>3, CallStmtsResult
  <2>5. \A d \in new : EngineStmts(d.stmts)
    BY <2>4
  <2> HIDE DEF new
  <2>6. QED BY <1>1, <2>2, <2>5, OnlyCallsChange
<1>4. CASE UpdateProcessInstanceVariables(b)
  <2> DEFINE r == [TheInstance(Replica(b.inst), b.inst) EXCEPT !.variables = @ \cup {"b"}]
  <2>1. \/ calls' = calls \ {b}
        \/ calls' = (calls \ {b}) \cup
              {Batch(Server(b.inst), b.inst, <<P!Stmt("SaveProcessInstance", r)>>, "run")}
    BY <1>4 DEF UpdateProcessInstanceVariables
  <2> HIDE DEF r
  <2>2. QED BY <1>2, <1>3, <2>1
<1>5. CASE DeleteProcessInstanceVariable(b)
  <2> DEFINE r == [TheInstance(Replica(b.inst), b.inst) EXCEPT !.variables = @ \ {"a"}]
  <2>1. \/ calls' = calls \ {b}
        \/ calls' = (calls \ {b}) \cup
              {Batch(Server(b.inst), b.inst, <<P!Stmt("SaveProcessInstance", r)>>, "none")}
    BY <1>5 DEF DeleteProcessInstanceVariable
  <2> HIDE DEF r
  <2>2. QED BY <1>2, <1>3, <2>1
<1>6. QED BY <1>4, <1>5

\* What processing a token saves.
LEMMA ProcessedResult ==
    ASSUME NEW db, NEW n, NEW i
    PROVE  EngineStmts(Processed(db, n, i))
<1> DEFINE k == WaitKey(db, n, i)
           r == TheInstance(db, i)
           a == P!Stmt("SaveFlowElementInstance", FlowElement(k, i, 1))
           b == IF r.def = JobProcess THEN P!Stmt("SaveJob", Job(k, i))
                ELSE P!Stmt("SaveMessageSubscription", Subscription(k, i, r.business_key))
           c == SaveTokenAs(db, i, "waiting", 1)
           d == SaveInstance(db, i, "active")
           e == SaveTokenAs(db, i, "completed", 2)
           f == SaveInstance(db, i, "completed")
<1>1. Processed(db, n, i) = IF TheToken(db, i).elem = 1 THEN <<a, b, c, d>> ELSE <<e, f>>
  BY DEF Processed
<1>2. a.q \in EngineQueries /\ b.q \in EngineQueries /\ c.q \in EngineQueries
      /\ d.q \in EngineQueries /\ e.q \in EngineQueries /\ f.q \in EngineQueries
  BY Queries
<1> HIDE DEF a, b, c, d, e, f
<1>3. EngineStmts(<<a, b, c, d>>) /\ EngineStmts(<<e, f>>)
  BY <1>2, FewStmts
<1>4. QED BY <1>1, <1>3

\* The batch that replaces one of the main loop.
LEMMA FailedResult ==
    ASSUME NEW b
    PROVE  \A c \in Failed(b) : EngineStmts(c.stmts)
<1> DEFINE db == copy[b.node][b.part]
           x == SaveTokenAs(db, b.inst, "failed", TheToken(db, b.inst).elem)
           y == SaveInstance(db, b.inst, "failed")
           z == P!Stmt("SaveIncident", Incident(db, b.node, b.inst))
           rows == <<x, y, z>>
<1>1. \A c \in Failed(b) : c = [Batch(b.node, b.inst, rows, "none") EXCEPT !.term = b.term]
  BY DEF Failed
<1>2. x.q \in EngineQueries /\ y.q \in EngineQueries /\ z.q \in EngineQueries
  BY Queries
<1> HIDE DEF x, y, z
<1>3. EngineStmts(rows)
  BY <1>2, FewStmts
<1> DEFINE e == [Batch(b.node, b.inst, rows, "none") EXCEPT !.term = b.term]
<1>4. \A c \in Failed(b) : c = e
  BY <1>1
<1> HIDE DEF rows
<1>5. e.stmts = rows
  BY CallStmtsResult
<1> HIDE DEF e
<1>6. QED BY <1>3, <1>4, <1>5

\* The calls that a step adds.
LEMMA CallsAdded ==
    ASSUME CallsSaveRows, NEW new, calls' \subseteq calls \cup new, \A b \in new : EngineStmts(b.stmts)
    PROVE  CallsSaveRows'
BY DEF CallsSaveRows

\* Nothing is written, and the other variables that matter stay.
LEMMA NothingWritten ==
    ASSUME Placement, Replicas, copy' = copy, UNCHANGED placement
    PROVE  CopiesGood
<1>1. UNCHANGED <<scenario, copy, raft, leader>>
  BY DEF placement
<1>2. QED BY <1>1, CopiesUnchanged, HostedPartitions DEF Placement

\* The main loop of an instance.
LEMMA RunProcessInstanceIsGood ==
    ASSUME Placement, Replicas, CallsSaveRows, NEW b, RunProcessInstance(b)
    PROVE  EngineGood
<1> DEFINE db == copy[b.node][b.part]
<1>1. UNCHANGED placement /\ UNCHANGED <<scenario, raft, leader, deploys, skipped>>
  BY DEF RunProcessInstance, placement
<1>2. CASE copy' = copy /\ calls' = calls \ {b}
  <2>1. CopiesGood
    BY <1>1, <1>2, NothingWritten
  <2>2. CallsSaveRows'
    BY <1>2 DEF CallsSaveRows
  <2>3. QED BY <1>1, <2>1, <2>2 DEF EngineGood
<1>3. CASE /\ copy' = [copy EXCEPT ![b.node][b.part] =
                         P!ExecuteStatements(@, <<SaveInstance(db, b.inst, "active")>>)]
           /\ calls' = (calls \ {b}) \cup
                IF TheToken(db, b.inst).state # "running" THEN {}
                ELSE {[Batch(b.node, b.inst, Processed(db, b.node, b.inst), "none")
                         EXCEPT !.from = "run"]}
  <2> DEFINE x == SaveInstance(db, b.inst, "active")
             rows == <<x>>
             more == Processed(db, b.node, b.inst)
             c == [Batch(b.node, b.inst, more, "none") EXCEPT !.from = "run"]
             new == {c}
  <2>1. x.q \in EngineQueries
    BY Queries
  <2>2. EngineStmts(more)
    BY ProcessedResult
  <2>3. copy' = [copy EXCEPT ![b.node][b.part] = P!ExecuteStatements(@, rows)] /\ calls' \subseteq calls \cup new
    BY <1>3
  <2> HIDE DEF x, more
  <2>4. EngineStmts(rows)
    BY <2>1, FewStmts
  <2>5. EngineStmts(c.stmts)
    BY <2>2, CallStmtsResult
  <2>6. \A d \in new : EngineStmts(d.stmts)
    BY <2>5
  <2> HIDE DEF rows, new
  <2>7. CopiesGood
    BY <1>1, <2>3, <2>4, EngineWrites
  <2>8. CallsSaveRows'
    BY <2>3, <2>6, CallsAdded
  <2>9. QED BY <1>1, <2>7, <2>8 DEF EngineGood
<1>4. QED BY <1>2, <1>3 DEF RunProcessInstance

\* A pointer of a subscription is saved before the batch, maybe elsewhere.
LEMMA SavePointerIsGood ==
    ASSUME Placement, Replicas, CallsSaveRows, NEW b \in calls, SavePointer(b)
    PROVE  EngineGood
<1> DEFINE home == R!N!GetPartitionIdFromString(C, b.ptr.corr)
           n == PointerNode(b)
<1>1. UNCHANGED placement /\ UNCHANGED <<scenario, raft, leader, deploys, skipped>>
  BY DEF SavePointer, placement
<1>2. CASE /\ copy' = [copy EXCEPT ![n][home] = P!Q!SaveMessageSubscriptionPointer(@, b.ptr)]
           /\ calls' = (calls \ {b}) \cup {[b EXCEPT !.pc = "flush"]}
  <2> DEFINE x == P!Q!SaveMessageSubscriptionPointer(copy[n][home], b.ptr)
             c == [b EXCEPT !.pc = "flush"]
             new == {c}
  <2>1. copy' = [copy EXCEPT ![n][home] = x] /\ calls' \subseteq calls \cup new
    BY <1>2
  <2> HIDE DEF n, home
  <2>2. ASSUME n \in Node, home \in Hosting(n)
        PROVE  Database(x) /\ Within(copy[n][home], x) /\ Within(x, copy[n][home])
    <3>1. Database(copy[n][home])
      BY <2>2 DEF Replicas
    <3>2. /\ Database(x)
          /\ x.process_definition = copy[n][home].process_definition
          /\ x.dmn_resource_definition = copy[n][home].dmn_resource_definition
      BY <3>1, SavePointerResult
    <3> HIDE DEF x
    <3>3. QED BY <3>2 DEF Within
  <2> HIDE DEF x
  <2>3. CopiesGood
    BY <1>1, <2>1, <2>2, CopyWritten
  <2>4. c.stmts = b.stmts
    OBVIOUS
  <2>5. \A d \in new : EngineStmts(d.stmts)
    BY <2>4 DEF CallsSaveRows
  <2> HIDE DEF new
  <2>6. CallsSaveRows'
    BY <2>1, <2>5, CallsAdded
  <2>7. QED BY <1>1, <2>3, <2>6 DEF EngineGood
<1>3. CASE copy' = copy /\ calls' = (calls \ {b}) \cup Failed(b)
  <2> DEFINE new == Failed(b)
  <2>1. calls' \subseteq calls \cup new /\ \A c \in new : EngineStmts(c.stmts)
    BY <1>3, FailedResult
  <2> HIDE DEF new
  <2>2. CopiesGood
    BY <1>1, <1>3, NothingWritten
  <2>3. CallsSaveRows'
    BY <2>1, CallsAdded
  <2>4. QED BY <1>1, <2>2, <2>3 DEF EngineGood
<1>4. QED BY <1>2, <1>3 DEF SavePointer

\* A batch is flushed, or fails because the node does not lead any more.
LEMMA FlushIsGood ==
    ASSUME Placement, Replicas, CallsSaveRows, NEW b \in calls, Flush(b)
    PROVE  EngineGood
<1>1. UNCHANGED placement /\ UNCHANGED <<scenario, raft, leader, deploys, skipped>>
  BY DEF Flush, placement
<1>2. CASE /\ copy' = [copy EXCEPT ![b.node][b.part] = P!ExecuteStatements(@, b.stmts)]
           /\ calls' = (calls \ {b}) \cup
                IF b.then = "run" THEN {[Call(b.node, b.inst, "run") EXCEPT !.term = b.term]} ELSE {}
  <2> DEFINE c == [Call(b.node, b.inst, "run") EXCEPT !.term = b.term]
             new == {c}
             rows == b.stmts
  <2>1. calls' \subseteq calls \cup new
    BY <1>2
  <2>2. EngineStmts(c.stmts)
    BY CallStmtsResult, FewStmts
  <2>3. \A d \in new : EngineStmts(d.stmts)
    BY <2>2
  <2>4. EngineStmts(rows) /\ copy' = [copy EXCEPT ![b.node][b.part] = P!ExecuteStatements(@, rows)]
    BY <1>2 DEF CallsSaveRows
  <2> HIDE DEF new, rows
  <2>5. CopiesGood
    BY <1>1, <2>4, EngineWrites
  <2>6. CallsSaveRows'
    BY <2>1, <2>3, CallsAdded
  <2>7. QED BY <1>1, <2>5, <2>6 DEF EngineGood
<1>3. CASE copy' = copy /\ calls' = (calls \ {b}) \cup Failed(b)
  <2> DEFINE new == Failed(b)
  <2>1. calls' \subseteq calls \cup new /\ \A c \in new : EngineStmts(c.stmts)
    BY <1>3, FailedResult
  <2> HIDE DEF new
  <2>2. CopiesGood
    BY <1>1, <1>3, NothingWritten
  <2>3. CallsSaveRows'
    BY <2>1, CallsAdded
  <2>4. QED BY <1>1, <2>2, <2>3 DEF EngineGood
<1>4. QED BY <1>2, <1>3 DEF Flush

\* An engine starts, or a leader is announced.
LEMMA CreateEngineIsGood ==
    ASSUME Placement, Replicas, CallsSaveRows, NEW n, NEW p, CreateEngine(n, p)
    PROVE  EngineGood
<1> DEFINE new == {Call(n, t.inst, "run") : t \in P!GetActiveTokens(copy[n][p])}
<1>1. calls' \subseteq calls \cup new /\ UNCHANGED <<scenario, copy, raft, leader, deploys, skipped>>
  BY DEF CreateEngine
<1>2. \A c \in new : EngineStmts(c.stmts)
  BY CallStmtsResult, FewStmts
<1> HIDE DEF new
<1>3. CopiesGood
  BY <1>1, CopiesUnchanged, HostedPartitions DEF Placement
<1>4. CallsSaveRows'
  BY <1>1, <1>2, CallsAdded
<1>5. QED BY <1>1, <1>3, <1>4 DEF EngineGood

\* The cluster state learns who leads: the databases stay.
LEMMA AnnounceIsGood ==
    ASSUME Placement, Replicas, CallsSaveRows, NEW p \in Partition, Announce(p)
    PROVE  EngineGood
<1>1. leader' = [leader EXCEPT ![p] = raft[p]] /\ UNCHANGED <<scenario, copy, raft, calls, deploys, skipped>>
  BY DEF Announce
<1>2. leader' \in [Partition -> Node] /\ \A q \in Partition : q \in Hosting(leader'[q])
  BY <1>1 DEF Placement
<1>3. CopiesGood
  BY <1>1, <1>2, CopiesUnchanged
<1>4. QED BY <1>1, <1>3 DEF EngineGood, CallsSaveRows

-----------------------------------------------------------------------------
(* Deployments *)

DeploysGood == DeployTypes' /\ GoroutinesDeliver' /\ AcknowledgedAreFinished'

\* What is stored stays so, since definitions do.
LEMMA StoredStays ==
    ASSUME DefinitionsStay, NEW d, NEW p \in Partition, Stored(d, p),
           deploys'[d].kind = deploys[d].kind, deploys'[d].sum = deploys[d].sum
    PROVE  Stored(d, p)'
<1>1. Within(DB(p), DB(p)')
  BY DEF DefinitionsStay
<1>2. QED BY <1>1 DEF Stored, Within

\* Steps of other calls leave the deployments as they are.
LEMMA DeploysStand ==
    ASSUME DeployTypes, GoroutinesDeliver, AcknowledgedAreFinished, DefinitionsStay,
           UNCHANGED <<scenario, deploys, skipped>>
    PROVE  DeploysGood
<1>1. DeployTypes'
  BY DEF DeployTypes, Hosting
<1>2. \A d : \A p \in Partition : Stored(d, p) => Stored(d, p)'
  BY StoredStays
<1>3. ASSUME NEW d \in DOMAIN deploys, NEW q \in Partition
      PROVE  /\ deploys[d].rpc[q] = "runs" => q \in deploys[d].todo[q] \/ <<d, q>> \in skipped \/ Stored(d, q)'
             /\ deploys[d].rpc[q] = "ok" => <<d, q>> \in skipped \/ Stored(d, q)'
             /\ deploys[d].save[q] # Null /\ deploys[d].save[q].of # "resource"
                   => Stored(d, deploys[d].save[q].part)'
  <2>1. deploys[d].save[q] # Null => deploys[d].save[q].part \in Partition
    BY DEF DeployTypes
  <2>2. QED BY <1>2, <2>1 DEF GoroutinesDeliver
<1>4. GoroutinesDeliver'
  BY <1>3 DEF GoroutinesDeliver
<1>5. AcknowledgedAreFinished'
  BY DEF AcknowledgedAreFinished
<1>6. QED BY <1>1, <1>4, <1>5 DEF DeploysGood

\* The goroutine of partition q of the deployment d has come to rpc, with todo
\* and save.
Moved(d, q, rpc, todo, save) ==
    /\ DOMAIN deploys' = DOMAIN deploys
    /\ deploys' = [e \in DOMAIN deploys |-> deploys'[e]]
    /\ \A e \in DOMAIN deploys \ {d} : deploys'[e] = deploys[e]
    /\ DOMAIN deploys'[d] = DeployFields
    /\ deploys'[d].kind = deploys[d].kind /\ deploys'[d].sum = deploys[d].sum
    /\ deploys'[d].to = deploys[d].to /\ deploys'[d].status = deploys[d].status
    /\ deploys'[d].rpc = [deploys[d].rpc EXCEPT ![q] = rpc]
    /\ deploys'[d].todo = [deploys[d].todo EXCEPT ![q] = todo]
    /\ DOMAIN deploys'[d].save = Partition /\ deploys'[d].save[q] = save
    /\ \A p \in Partition \ {q} : deploys'[d].save[p] = deploys[d].save[p]

\* The steps of a goroutine.
LEMMA Moves ==
    ASSUME DeployTypes, NEW d \in DOMAIN deploys, NEW q \in Partition
    PROVE  /\ \A p : Done(d, q, p) =>
                LET left == deploys[d].todo[q] \ {p}
                IN  Moved(d, q, IF left = {} THEN "ok" ELSE deploys[d].rpc[q], left, Null)
           /\ Fails(d, q) => Moved(d, q, "failed", deploys[d].todo[q], Null)
           /\ \A t, x : deploys' = [deploys EXCEPT ![d].todo[q] = t, ![d].rpc[q] = x]
                => Moved(d, q, x, t, deploys[d].save[q])
           /\ \A x : deploys' = [deploys EXCEPT ![d].save[q] = x]
                => Moved(d, q, deploys[d].rpc[q], deploys[d].todo[q], x)
           /\ deploys' = [deploys EXCEPT ![d].rpc[q] = "failed", ![d].save[q] = Null, ![d].lost = @ + 1]
                => Moved(d, q, "failed", deploys[d].todo[q], Null)
<1>1. /\ DOMAIN deploys[d] = DeployFields
      /\ DOMAIN deploys[d].rpc = Partition /\ DOMAIN deploys[d].todo = Partition
      /\ DOMAIN deploys[d].save = Partition
      /\ deploys[d].todo \in [Partition -> SUBSET Partition]
      /\ deploys[d].rpc \in [Partition -> {"sent", "runs", "ok", "failed"}]
  BY DEF DeployTypes
<1>3. ASSUME NEW p, Done(d, q, p), NEW left, left = deploys[d].todo[q] \ {p}
      PROVE  Moved(d, q, IF left = {} THEN "ok" ELSE deploys[d].rpc[q], left, Null)
  BY <1>1, <1>3 DEF Moved, Done, DeployFields
<1>4. ASSUME Fails(d, q) PROVE Moved(d, q, "failed", deploys[d].todo[q], Null)
  BY <1>1, <1>4 DEF Moved, Fails, DeployFields
<1>5. ASSUME NEW t, NEW x, deploys' = [deploys EXCEPT ![d].todo[q] = t, ![d].rpc[q] = x]
      PROVE  Moved(d, q, x, t, deploys[d].save[q])
  BY <1>1, <1>5 DEF Moved, DeployFields
<1>6. ASSUME NEW x, deploys' = [deploys EXCEPT ![d].save[q] = x]
      PROVE  Moved(d, q, deploys[d].rpc[q], deploys[d].todo[q], x)
  BY <1>1, <1>6 DEF Moved, DeployFields
<1>7. ASSUME deploys' = [deploys EXCEPT ![d].rpc[q] = "failed", ![d].save[q] = Null, ![d].lost = @ + 1]
      PROVE  Moved(d, q, "failed", deploys[d].todo[q], Null)
  BY <1>1, <1>7 DEF Moved, DeployFields
<1>8. QED BY <1>3, <1>4, <1>5, <1>6, <1>7

\* The three duties of a goroutine, in the state after a step.
LEMMA DeliverNext ==
    ASSUME DeployTypes',
           \A e \in DOMAIN deploys' : \A p \in Partition, x \in Partition :
               /\ deploys'[e].rpc[p] = "runs" => p \in deploys'[e].todo[p] \/ <<e, p>> \in skipped' \/ Stored(e, p)'
               /\ deploys'[e].rpc[p] = "ok" => <<e, p>> \in skipped' \/ Stored(e, p)'
               /\ deploys'[e].save[p] # Null /\ deploys'[e].save[p].of # "resource"
                     /\ deploys'[e].save[p].part = x => Stored(e, x)'
    PROVE  GoroutinesDeliver'
<1>1. \A e \in DOMAIN deploys' : \A p \in Partition :
         deploys'[e].save[p] # Null => deploys'[e].save[p].part \in Partition
  BY DEF DeployTypes
<1>2. QED BY <1>1 DEF GoroutinesDeliver, Stored, DB

\* A function on 1..n is a sequence.
LEMMA FunctionsAreSequences ==
    ASSUME NEW n \in Nat, NEW T, NEW f \in [1..n -> T]
    PROVE  f \in Seq(T)
OBVIOUS

\* What a step of a goroutine has to see to.
LEMMA MoveIsGood ==
    ASSUME Placement, DeployTypes, GoroutinesDeliver, AcknowledgedAreFinished, DefinitionsStay,
           UNCHANGED scenario, skipped \subseteq skipped',
           NEW d \in DOMAIN deploys, NEW q \in Partition, NEW rpc, NEW todo, NEW save,
           Moved(d, q, rpc, todo, save), deploys[d].rpc[q] # "ok",
           rpc \in {"sent", "runs", "ok", "failed"}, todo \subseteq Hosting(deploys[d].to[q]),
           save # Null => save.part \in Partition,
           rpc = "runs" => q \in todo \/ <<d, q>> \in skipped' \/ Stored(d, q)',
           rpc = "ok" => <<d, q>> \in skipped' \/ Stored(d, q)',
           save # Null /\ save.of # "resource" => Stored(d, save.part)'
    PROVE  DeploysGood
<1>1. \A n : Hosting(n)' = Hosting(n)
  BY DEF Hosting
<1>2. DOMAIN deploys' = DOMAIN deploys /\ \A e \in DOMAIN deploys \ {d} : deploys'[e] = deploys[e]
  BY DEF Moved
<1>3. \E S : deploys' \in Seq(S)
  <2>1. PICK S : deploys \in Seq(S)
    BY DEF DeployTypes
  <2> DEFINE T == S \cup {deploys'[d]}
  <2>2. Len(deploys) \in Nat /\ DOMAIN deploys = 1..Len(deploys) /\ \A e \in DOMAIN deploys : deploys[e] \in S
    BY <2>1
  <2>3. deploys' \in [1..Len(deploys) -> T]
    BY <2>2, <1>2 DEF Moved
  <2> HIDE DEF T
  <2>4. deploys' \in Seq(T)
    BY <2>2, <2>3, FunctionsAreSequences
  <2>5. QED BY <2>4
<1>4. /\ DOMAIN deploys[d] = DeployFields
      /\ deploys[d].to \in [Partition -> Node]
      /\ deploys[d].rpc \in [Partition -> {"sent", "runs", "ok", "failed"}]
      /\ deploys[d].todo \in [Partition -> SUBSET Partition]
      /\ \A p \in Partition : /\ deploys[d].todo[p] \subseteq Hosting(deploys[d].to[p])
                              /\ deploys[d].save[p] # Null => deploys[d].save[p].part \in Partition
  BY DEF DeployTypes
<1>5. todo \subseteq Partition
  BY <1>4, HostedPartitions
<1>6. /\ DOMAIN deploys'[d] = DeployFields
      /\ deploys'[d].to \in [Partition -> Node]
      /\ deploys'[d].rpc \in [Partition -> {"sent", "runs", "ok", "failed"}]
      /\ deploys'[d].todo \in [Partition -> SUBSET Partition]
      /\ DOMAIN deploys'[d].save = Partition
  BY <1>4, <1>5 DEF Moved
<1>7. ASSUME NEW p \in Partition
      PROVE  /\ deploys'[d].rpc[p] = IF p = q THEN rpc ELSE deploys[d].rpc[p]
             /\ deploys'[d].todo[p] = IF p = q THEN todo ELSE deploys[d].todo[p]
             /\ deploys'[d].save[p] = IF p = q THEN save ELSE deploys[d].save[p]
             /\ deploys'[d].to[p] = deploys[d].to[p]
  BY <1>4 DEF Moved
<1>8. ASSUME NEW e \in DOMAIN deploys, NEW p \in Partition, Stored(e, p)
      PROVE  Stored(e, p)'
  <2>1. deploys'[e].kind = deploys[e].kind /\ deploys'[e].sum = deploys[e].sum
    BY <1>2 DEF Moved
  <2>2. QED BY <1>8, <2>1, StoredStays
<1>9. DeployTypes'
  <2>1. ASSUME NEW e \in DOMAIN deploys'
        PROVE  /\ DOMAIN deploys'[e] = DeployFields
               /\ deploys'[e].to \in [Partition -> Node]
               /\ deploys'[e].rpc \in [Partition -> {"sent", "runs", "ok", "failed"}]
               /\ deploys'[e].todo \in [Partition -> SUBSET Partition]
               /\ DOMAIN deploys'[e].save = Partition
               /\ \A p \in Partition : /\ deploys'[e].todo[p] \subseteq Hosting(deploys'[e].to[p])
                                       /\ deploys'[e].save[p] # Null => deploys'[e].save[p].part \in Partition
    <3>1. CASE e = d
      BY <3>1, <1>4, <1>6, <1>7
    <3>2. CASE e # d
      BY <3>2, <1>2 DEF DeployTypes
    <3>3. QED BY <3>1, <3>2
  <2>2. QED BY <1>1, <1>3, <2>1 DEF DeployTypes
<1>10. GoroutinesDeliver'
  <2>1. ASSUME NEW e \in DOMAIN deploys, NEW p \in Partition, NEW x \in Partition
        PROVE  /\ deploys'[e].rpc[p] = "runs" => p \in deploys'[e].todo[p] \/ <<e, p>> \in skipped' \/ Stored(e, p)'
               /\ deploys'[e].rpc[p] = "ok" => <<e, p>> \in skipped' \/ Stored(e, p)'
               /\ deploys'[e].save[p] # Null /\ deploys'[e].save[p].of # "resource"
                     /\ deploys'[e].save[p].part = x => Stored(e, x)'
    <3>1. CASE e = d /\ p = q
      BY <3>1, <1>7
    <3>2. CASE ~(e = d /\ p = q)
      <4>1. /\ deploys'[e].rpc[p] = deploys[e].rpc[p] /\ deploys'[e].todo[p] = deploys[e].todo[p]
            /\ deploys'[e].save[p] = deploys[e].save[p]
        BY <3>2, <1>2, <1>7
      <4>2. /\ deploys[e].rpc[p] = "runs" => p \in deploys[e].todo[p] \/ <<e, p>> \in skipped \/ Stored(e, p)
            /\ deploys[e].rpc[p] = "ok" => <<e, p>> \in skipped \/ Stored(e, p)
            /\ deploys[e].save[p] # Null /\ deploys[e].save[p].of # "resource"
                  /\ deploys[e].save[p].part = x => Stored(e, x)
        BY DEF GoroutinesDeliver
      <4>3. /\ Stored(e, p) => Stored(e, p)'
            /\ Stored(e, x) => Stored(e, x)'
        BY <1>8
      <4>4. QED BY <4>1, <4>2, <4>3
    <3>3. QED BY <3>1, <3>2
  <2>2. QED BY <1>2, <1>9, <2>1, DeliverNext
<1>11. AcknowledgedAreFinished'
  <2>1. deploys'[d].status # 201
    BY DEF Moved, AcknowledgedAreFinished
  <2>2. QED BY <1>2, <2>1 DEF AcknowledgedAreFinished
<1>12. QED BY <1>9, <1>10, <1>11 DEF DeploysGood

\* The goroutine leaves behind a partition that has the resource.
LEMMA DoneIsGood ==
    ASSUME Placement, DeployTypes, GoroutinesDeliver, AcknowledgedAreFinished, DefinitionsStay,
           UNCHANGED <<scenario, skipped>>,
           NEW d \in DOMAIN deploys, NEW q \in Partition, NEW p \in Partition,
           Done(d, q, p), deploys[d].rpc[q] = "runs", Stored(d, p)'
    PROVE  DeploysGood
<1> DEFINE left == deploys[d].todo[q] \ {p}
           rpc  == IF left = {} THEN "ok" ELSE "runs"
<1>1. Moved(d, q, rpc, left, Null)
  BY Moves
<1>2. left \subseteq Hosting(deploys[d].to[q])
  BY DEF DeployTypes
<1>3. q \in deploys[d].todo[q] \/ <<d, q>> \in skipped \/ Stored(d, q)'
  <2>1. Stored(d, q) => Stored(d, q)'
    BY <1>1, StoredStays DEF Moved
  <2>2. QED BY <2>1 DEF GoroutinesDeliver
<1>4. /\ rpc \in {"sent", "runs", "ok", "failed"}
      /\ rpc = "runs" => q \in left \/ <<d, q>> \in skipped' \/ Stored(d, q)'
      /\ rpc = "ok" => <<d, q>> \in skipped' \/ Stored(d, q)'
  BY <1>3
<1> HIDE DEF left, rpc
<1>5. QED BY <1>1, <1>2, <1>4, MoveIsGood

\* The goroutine fails.
LEMMA FailureIsGood ==
    ASSUME Placement, DeployTypes, GoroutinesDeliver, AcknowledgedAreFinished, DefinitionsStay,
           UNCHANGED scenario, skipped \subseteq skipped',
           NEW d \in DOMAIN deploys, NEW q \in Partition,
           Moved(d, q, "failed", deploys[d].todo[q], Null), deploys[d].rpc[q] # "ok"
    PROVE  DeploysGood
<1>1. deploys[d].todo[q] \subseteq Hosting(deploys[d].to[q])
  BY DEF DeployTypes
<1>2. QED BY <1>1, MoveIsGood

\* What the deployments' steps have to do.
DeployGood == CopiesGood /\ DeploysGood /\ UNCHANGED <<scenario, calls>>

\* A step that writes nothing.
LEMMA UnwrittenIsGood ==
    ASSUME Placement, Replicas, UNCHANGED <<placement, copy, calls>>, DefinitionsStay => DeploysGood
    PROVE  DeployGood
<1>1. CopiesGood
  BY NothingWritten
<1>2. UNCHANGED scenario
  BY DEF placement
<1>3. QED BY <1>1, <1>2 DEF DeployGood, CopiesGood

\* A new deployment: no goroutine has done anything.
LEMMA DeployIsGood ==
    ASSUME CallsInv, NEW kind, NEW sum, NEW n, Deploy(kind, sum, n)
    PROVE  DeployGood
<1> USE DEF CallsInv
<1>1. PICK r :
         /\ r \in R!N!Deployable(C, R!N!GetDefinitionKeyByBytes(C, n, sum))
              \/ r \in R!N!Deployable(C, R!N!getDmnResourceDefinitionKeyByBytes(C, n, sum))
         /\ r.code = "ok"
         /\ deploys' = Append(deploys,
               [kind |-> kind, sum |-> sum, to |-> r.val, status |-> Null, lost |-> 0,
                rpc |-> [p \in Partition |-> "sent"],
                todo |-> [p \in Partition |-> {}], save |-> [p \in Partition |-> Null]])
  BY DEF Deploy, R!N!DeployProcessDefinitionToAllPartitions, R!N!DeployDmnResourceDefinitionToAllPartitions
<1>2. UNCHANGED <<placement, copy, calls, skipped>> /\ UNCHANGED scenario
  BY DEF Deploy, placement
<1>3. r.val = leader
  <2>1. ASSUME NEW lookups, r \in R!N!Deployable(C, lookups) PROVE r.val = leader
    BY <1>1, <2>1 DEF R!N!Deployable, R!N!S!Ok, R!N!S!Err, C
  <2>2. QED BY <1>1, <2>1
<1> DEFINE x == [kind |-> kind, sum |-> sum, to |-> leader, status |-> Null, lost |-> 0,
                 rpc |-> [p \in Partition |-> "sent"],
                 todo |-> [p \in Partition |-> {}], save |-> [p \in Partition |-> Null]]
<1>4. deploys' = Append(deploys, x)
  BY <1>1, <1>3
<1>5. /\ DOMAIN x = DeployFields /\ x.to \in [Partition -> Node]
      /\ x.rpc \in [Partition -> {"sent", "runs", "ok", "failed"}]
      /\ x.todo \in [Partition -> SUBSET Partition]
      /\ DOMAIN x.save = Partition /\ x.status # 201
      /\ \A p \in Partition : x.todo[p] = {} /\ x.save[p] = Null /\ x.rpc[p] = "sent"
  BY ClusterCallsAssumption DEF DeployFields, Placement
<1> HIDE DEF x
<1>6. PICK S : deploys \in Seq(S)
  BY DEF DeployTypes
<1> DEFINE e == Len(deploys) + 1
           T == S \cup {x}
<1>7. deploys' \in Seq(T) /\ DOMAIN deploys' = DOMAIN deploys \cup {e} /\ e \notin DOMAIN deploys
      /\ deploys'[e] = x /\ \A d \in DOMAIN deploys : deploys'[d] = deploys[d]
  <2>1. deploys \in Seq(T) /\ x \in T
    BY <1>6
  <2> HIDE DEF T
  <2>2. QED BY <1>4, <2>1
<1> HIDE DEF e, T
<1>8. \A m : Hosting(m)' = Hosting(m)
  BY <1>2 DEF Hosting
<1>9. DeployTypes'
  <2>1. ASSUME NEW d \in DOMAIN deploys'
        PROVE  /\ DOMAIN deploys'[d] = DeployFields
               /\ deploys'[d].to \in [Partition -> Node]
               /\ deploys'[d].rpc \in [Partition -> {"sent", "runs", "ok", "failed"}]
               /\ deploys'[d].todo \in [Partition -> SUBSET Partition]
               /\ DOMAIN deploys'[d].save = Partition
               /\ \A p \in Partition : /\ deploys'[d].todo[p] \subseteq Hosting(deploys'[d].to[p])
                                       /\ deploys'[d].save[p] # Null => deploys'[d].save[p].part \in Partition
    <3>1. CASE d = e
      BY <3>1, <1>5, <1>7
    <3>2. CASE d # e
      BY <3>2, <1>7 DEF DeployTypes
    <3>3. QED BY <3>1, <3>2
  <2>2. QED BY <1>7, <1>8, <2>1 DEF DeployTypes
<1>10. ASSUME DefinitionsStay PROVE GoroutinesDeliver'
  <2>1. ASSUME NEW d \in DOMAIN deploys', NEW p \in Partition, NEW y \in Partition
        PROVE  /\ deploys'[d].rpc[p] = "runs" => p \in deploys'[d].todo[p] \/ <<d, p>> \in skipped' \/ Stored(d, p)'
               /\ deploys'[d].rpc[p] = "ok" => <<d, p>> \in skipped' \/ Stored(d, p)'
               /\ deploys'[d].save[p] # Null /\ deploys'[d].save[p].of # "resource"
                     /\ deploys'[d].save[p].part = y => Stored(d, y)'
    <3>1. CASE d = e
      BY <3>1, <1>5, <1>7
    <3>2. CASE d # e
      <4>1. d \in DOMAIN deploys /\ deploys'[d] = deploys[d]
        BY <3>2, <1>7
      <4>2. /\ deploys[d].rpc[p] = "runs" => p \in deploys[d].todo[p] \/ <<d, p>> \in skipped \/ Stored(d, p)
            /\ deploys[d].rpc[p] = "ok" => <<d, p>> \in skipped \/ Stored(d, p)
            /\ deploys[d].save[p] # Null /\ deploys[d].save[p].of # "resource"
                  /\ deploys[d].save[p].part = y => Stored(d, y)
        BY <4>1 DEF GoroutinesDeliver
      <4>3. /\ Stored(d, p) => Stored(d, p)'
            /\ Stored(d, y) => Stored(d, y)'
        BY <1>10, <4>1, StoredStays
      <4>4. QED BY <1>2, <4>1, <4>2, <4>3
    <3>3. QED BY <3>1, <3>2
  <2>2. QED BY <1>9, <2>1, DeliverNext
<1>11. AcknowledgedAreFinished'
  BY <1>5, <1>7 DEF AcknowledgedAreFinished
<1>12. QED BY <1>2, <1>9, <1>10, <1>11, UnwrittenIsGood DEF DeploysGood

\* The engines that a node has are on partitions that it hosts.
LEMMA DeployArrivesIsGood ==
    ASSUME CallsInv, NEW d \in DOMAIN deploys, NEW q \in Partition, DeployArrives(d, q)
    PROVE  DeployGood
<1> USE DEF CallsInv
<1> DEFINE m == deploys[d].to[q]
           r == IF deploys[d].kind = "process" THEN R!N!deployProcessDefinitionToPartition(C, m)
                ELSE R!N!deployDmnResourceDefinitionToPartition(C, m)
<1>1. /\ deploys[d].rpc[q] = "sent"
      /\ IF r.code # "ok" THEN Fails(d, q)
         ELSE deploys' = [deploys EXCEPT ![d].todo[q] = r.val,
                                         ![d].rpc[q] = IF r.val = {} THEN "ok" ELSE "runs"]
      /\ skipped' = IF r.code = "ok" /\ q \notin r.val THEN skipped \cup {<<d, q>>} ELSE skipped
      /\ UNCHANGED <<placement, copy, calls>> /\ UNCHANGED scenario
  BY DEF DeployArrives, placement
<1>2. m \in Node
  BY DEF DeployTypes
<1>3. r.code = "ok" => r.val \subseteq Hosting(m)
  <2>1. r.code = "ok" => r.val = R!N!S!Engines(C, m)
    BY DEF R!N!deployProcessDefinitionToPartition, R!N!deployDmnResourceDefinitionToPartition,
       R!N!S!DeployProcessDefinition, R!N!S!DeployDmnResourceDefinition, R!N!S!Ok, R!N!S!Err
  <2>2. R!N!S!Engines(C, m) \subseteq DOMAIN copy[m]
    BY DEF R!N!S!Engines, R!N!S!Hosts, C
  <2>3. QED BY <1>2, <2>1, <2>2 DEF Replicas
<1> HIDE DEF r
<1>4. CASE r.code # "ok"
  <2>1. Moved(d, q, "failed", deploys[d].todo[q], Null) /\ skipped \subseteq skipped'
    BY <1>1, <1>4, Moves
  <2>2. DefinitionsStay => DeploysGood
    BY <1>1, <2>1, FailureIsGood
  <2>3. QED BY <1>1, <2>2, UnwrittenIsGood
<1>5. CASE r.code = "ok"
  <2> DEFINE rpc == IF r.val = {} THEN "ok" ELSE "runs"
             todo == r.val
  <2>8. PICK save : save = deploys[d].save[q]
    OBVIOUS
  <2>1. Moved(d, q, rpc, todo, save) /\ skipped \subseteq skipped'
    BY <1>1, <1>5, <2>8, Moves
  <2>2. /\ rpc \in {"sent", "runs", "ok", "failed"}
        /\ rpc = "runs" => q \in todo \/ <<d, q>> \in skipped'
        /\ rpc = "ok" => <<d, q>> \in skipped'
    BY <1>1, <1>5
  <2>3. save # Null => save.part \in Partition
    BY <2>8 DEF DeployTypes
  <2>4. todo \subseteq Hosting(m)
    BY <1>3, <1>5
  <2> HIDE DEF rpc, todo
  <2>5. ASSUME DefinitionsStay PROVE save # Null /\ save.of # "resource" => Stored(d, save.part)'
    <3>1. save # Null /\ save.of # "resource" => Stored(d, save.part)
      BY <2>8 DEF GoroutinesDeliver
    <3>2. QED BY <2>1, <2>3, <2>5, <3>1, StoredStays DEF Moved
  <2>6. ASSUME DefinitionsStay PROVE DeploysGood
    BY <1>1, <2>1, <2>2, <2>3, <2>4, <2>5, <2>6, MoveIsGood
  <2>7. QED BY <1>1, <2>6, UnwrittenIsGood
<1>6. QED BY <1>4, <1>5

\* A call is lost, or cancelled.
LEMMA DeployLostIsGood ==
    ASSUME CallsInv, NEW d \in DOMAIN deploys, NEW q \in Partition, DeployLost(d, q)
    PROVE  DeployGood
<1> USE DEF CallsInv
<1>1. /\ deploys[d].rpc[q] # "ok"
      /\ deploys' = [deploys EXCEPT ![d].rpc[q] = "failed", ![d].save[q] = Null, ![d].lost = @ + 1]
      /\ UNCHANGED <<placement, copy, calls>> /\ UNCHANGED <<scenario, skipped>>
  BY DEF DeployLost, placement
<1>2. Moved(d, q, "failed", deploys[d].todo[q], Null)
  BY <1>1, Moves
<1>3. DefinitionsStay => DeploysGood
  BY <1>1, <1>2, FailureIsGood
<1>4. QED BY <1>1, <1>3, UnwrittenIsGood

\* The latest version is one of the rows of the table.
LEMMA LatestIsStored ==
    ASSUME NEW db, NEW kind, NEW r \in LatestOf(db, kind)
    PROVE  IF kind = "process" THEN r \in db.process_definition ELSE r \in db.dmn_resource_definition
BY DEF LatestOf, P!FindLatestProcessDefinitionById, P!FindLatestDmnResourceDefinitionById,
   P!Q!FindLatestProcessDefinitionById, P!Q!FindLatestDmnResourceDefinitionById, P!Q!Latest

\* A goroutine that finds the resource in the replica goes on: the raft leader has
\* it too, whoever that is by now.
LEMMA LoadIsGood ==
    ASSUME CallsInv, NEW d \in DOMAIN deploys, NEW q \in Partition, NEW p \in Partition, Load(d, q, p)
    PROVE  DeployGood
<1> USE DEF CallsInv
<1> DEFINE m == deploys[d].to[q]
           latest == LatestOf(copy[m][p], deploys[d].kind)
<1>1. /\ deploys[d].rpc[q] = "runs" /\ p \in deploys[d].todo[q]
      /\ UNCHANGED <<placement, copy, calls>> /\ UNCHANGED <<scenario, skipped>>
  BY DEF Load, placement
<1>2. m \in Node /\ p \in Hosting(m)
  BY <1>1 DEF DeployTypes
<1>3. CASE (\E r \in latest : r.checksum = deploys[d].sum) /\ Done(d, q, p)
  <2>1. PICK r \in latest : r.checksum = deploys[d].sum
    BY <1>3
  <2>2. IF deploys[d].kind = "process" THEN r \in copy[m][p].process_definition
        ELSE r \in copy[m][p].dmn_resource_definition
    BY LatestIsStored
  <2>3. Within(copy[m][p], DB(p))
    BY <1>2 DEF Replicas
  <2>4. Stored(d, p)
    BY <2>1, <2>2, <2>3 DEF Stored, Within
  <2>5. deploys'[d].kind = deploys[d].kind /\ deploys'[d].sum = deploys[d].sum
    BY <1>3, Moves DEF Moved
  <2>6. ASSUME DefinitionsStay PROVE DeploysGood
    <3>1. Stored(d, p)'
      BY <2>4, <2>5, <2>6, StoredStays
    <3>2. QED BY <1>1, <1>3, <2>6, <3>1, DoneIsGood
  <2>7. QED BY <1>1, <2>6, UnwrittenIsGood
<1>4. ASSUME NEW v, deploys' = [deploys EXCEPT ![d].save[q] = [part |-> p, version |-> v, of |-> "resource"]]
      PROVE  DeployGood
  <2> DEFINE save == [part |-> p, version |-> v, of |-> "resource"]
  <2>0. save.part = p /\ save.of = "resource"
    OBVIOUS
  <2>1. Moved(d, q, deploys[d].rpc[q], deploys[d].todo[q], save)
    BY <1>4, Moves
  <2> HIDE DEF save
  <2>2. PICK rpc, todo : rpc = deploys[d].rpc[q] /\ todo = deploys[d].todo[q]
    OBVIOUS
  <2>3. rpc = "runs" /\ todo \subseteq Hosting(m) /\ Moved(d, q, rpc, todo, save)
    BY <1>1, <2>1, <2>2 DEF DeployTypes
  <2>4. ASSUME DefinitionsStay PROVE q \in todo \/ <<d, q>> \in skipped' \/ Stored(d, q)'
    <3>1. q \in todo \/ <<d, q>> \in skipped \/ Stored(d, q)
      BY <1>1, <2>2 DEF GoroutinesDeliver
    <3>2. QED BY <1>1, <2>1, <2>4, <3>1, StoredStays DEF Moved
  <2>5. ASSUME DefinitionsStay PROVE DeploysGood
    BY <1>1, <2>0, <2>3, <2>4, <2>5, MoveIsGood
  <2>6. QED BY <1>1, <2>5, UnwrittenIsGood
<1>5. QED BY <1>3, <1>4 DEF Load

\* The answer to the client waits for every goroutine.
LEMMA DeployEndsIsGood ==
    ASSUME CallsInv, NEW d \in DOMAIN deploys, DeployEnds(d)
    PROVE  DeployGood
<1> USE DEF CallsInv
<1>1. UNCHANGED <<placement, copy, calls>> /\ UNCHANGED <<scenario, skipped>>
  BY DEF DeployEnds, placement
<1>2. PICK s :
         /\ deploys' = [deploys EXCEPT ![d].status = s]
         /\ s = R!CreateProcessDefinition(Waited(d)).status \/ s = R!CreateDmnResourceDefinition(Waited(d)).status
  BY DEF DeployEnds
<1>3. s = 201 => \A p \in Partition : deploys[d].rpc[p] = "ok"
  <2>1. SUFFICES ASSUME \E p \in Partition : deploys[d].rpc[p] # "ok" PROVE s # 201
    OBVIOUS
  <2>2. Waited(d).code = "technical"
    BY <2>1 DEF Waited, R!N!S!Err
  <2> DEFINE w == Waited(d)
  <2> HIDE DEF w
  <2>3. R!CreateProcessDefinition(w).status = 500 /\ R!CreateDmnResourceDefinition(w).status = 500
    BY <2>2 DEF w, R!CreateProcessDefinition, R!CreateDmnResourceDefinition, R!Reply, R!Response, R!Deployed
  <2>4. QED BY <1>2, <2>3 DEF w
<1>4. DOMAIN deploys[d] = DeployFields
  BY DEF DeployTypes
<1>5. /\ DOMAIN deploys' = DOMAIN deploys
      /\ \A e \in DOMAIN deploys \ {d} : deploys'[e] = deploys[e]
      /\ DOMAIN deploys'[d] = DeployFields
      /\ \A f \in DeployFields \ {"status"} : deploys'[d][f] = deploys[d][f]
      /\ deploys'[d].status = s
  BY <1>2, <1>4 DEF DeployFields
<1>6. ASSUME NEW e \in DOMAIN deploys
      PROVE  /\ DOMAIN deploys'[e] = DOMAIN deploys[e]
             /\ deploys'[e].kind = deploys[e].kind /\ deploys'[e].sum = deploys[e].sum
             /\ deploys'[e].to = deploys[e].to /\ deploys'[e].rpc = deploys[e].rpc
             /\ deploys'[e].todo = deploys[e].todo /\ deploys'[e].save = deploys[e].save
  BY <1>4, <1>5 DEF DeployFields
<1>7. \A n : Hosting(n)' = Hosting(n)
  BY <1>1 DEF Hosting
<1>8. DeployTypes'
  <2>1. PICK S : deploys \in Seq(S)
    BY DEF DeployTypes
  <2> DEFINE T == S \cup {deploys'[d]}
  <2>2. Len(deploys) \in Nat /\ deploys' \in [1..Len(deploys) -> T]
    BY <1>2, <1>5, <2>1
  <2> HIDE DEF T
  <2>3. deploys' \in Seq(T)
    BY <2>2, FunctionsAreSequences
  <2>4. QED BY <1>5, <1>6, <1>7, <2>3 DEF DeployTypes
<1>9. ASSUME DefinitionsStay PROVE GoroutinesDeliver'
  <2>1. ASSUME NEW e \in DOMAIN deploys', NEW p \in Partition, NEW y \in Partition
        PROVE  /\ deploys'[e].rpc[p] = "runs" => p \in deploys'[e].todo[p] \/ <<e, p>> \in skipped' \/ Stored(e, p)'
               /\ deploys'[e].rpc[p] = "ok" => <<e, p>> \in skipped' \/ Stored(e, p)'
               /\ deploys'[e].save[p] # Null /\ deploys'[e].save[p].of # "resource"
                     /\ deploys'[e].save[p].part = y => Stored(e, y)'
    <3>1. e \in DOMAIN deploys
      BY <1>5
    <3>2. /\ deploys[e].rpc[p] = "runs" => p \in deploys[e].todo[p] \/ <<e, p>> \in skipped \/ Stored(e, p)
          /\ deploys[e].rpc[p] = "ok" => <<e, p>> \in skipped \/ Stored(e, p)
          /\ deploys[e].save[p] # Null /\ deploys[e].save[p].of # "resource"
                /\ deploys[e].save[p].part = y => Stored(e, y)
      BY <3>1 DEF GoroutinesDeliver
    <3>3. /\ Stored(e, p) => Stored(e, p)'
          /\ Stored(e, y) => Stored(e, y)'
      BY <1>6, <1>9, <3>1, StoredStays
    <3>4. QED BY <1>1, <1>6, <3>1, <3>2, <3>3
  <2>2. QED BY <1>8, <2>1, DeliverNext
<1>10. AcknowledgedAreFinished'
  BY <1>3, <1>5, <1>6 DEF AcknowledgedAreFinished
<1>11. QED BY <1>1, <1>8, <1>9, <1>10, UnwrittenIsGood DEF DeploysGood

\* A row is written by the raft leader only.
LEMMA SaveIsGood ==
    ASSUME CallsInv, NEW d \in DOMAIN deploys, NEW q \in Partition, Save(d, q)
    PROVE  DeployGood
<1> USE DEF CallsInv
<1> DEFINE m == deploys[d].to[q]
           v == deploys[d].save[q]
           row == IF v.of = "resource" THEN ResourceStmt(d, v.version) ELSE DecisionStmt(d, v.part, v.version)
<1>1. /\ deploys[d].rpc[q] = "runs" /\ v # Null
      /\ UNCHANGED <<placement, calls>> /\ UNCHANGED <<scenario, raft, leader, skipped>>
  BY DEF Save, placement
<1>2. PICK p \in Partition : p = v.part
  BY <1>1 DEF DeployTypes
<1>3. m \in Node
  BY DEF DeployTypes
<1>4. CASE copy' = copy /\ Fails(d, q)
  <2>1. Moved(d, q, "failed", deploys[d].todo[q], Null)
    BY <1>4, Moves
  <2>2. DefinitionsStay => DeploysGood
    BY <1>1, <2>1, FailureIsGood
  <2>3. QED BY <1>1, <1>4, <2>2, UnwrittenIsGood
<1>5. CASE /\ raft[p] = m
           /\ copy' = [copy EXCEPT ![m][p] = P!ExecContext(@, row[1])]
           /\ \/ \E x : /\ v.of = "resource"
                        /\ deploys' = [deploys EXCEPT ![d].save[q] = [part |-> p, of |-> "decision", version |-> x]]
              \/ Done(d, q, p)
  <2>1. p \in Hosting(m)
    BY <1>5, HostedPartitions
  <2>2. PICK b : b = copy[m][p]
    OBVIOUS
  <2>3. Database(b)
    BY <1>3, <2>1, <2>2 DEF Replicas
  <2>4. PICK c : c = P!ExecContext(copy[m][p], row[1])
    OBVIOUS
  <2>5. /\ Database(c) /\ Within(b, c)
        /\ v.of = "resource" => \E r \in IF deploys[d].kind = "process" THEN c.process_definition
                                         ELSE c.dmn_resource_definition : r.checksum = deploys[d].sum
    <3>1. CASE v.of = "resource" /\ deploys[d].kind = "process"
      <4> DEFINE r == [key |-> DeployKey(d), version |-> v.version, id |-> "q", name |-> "q",
                       checksum |-> deploys[d].sum]
                 s == P!Stmt("SaveProcessDefinition", r)
      <4>1. row[1] = s /\ r.checksum = deploys[d].sum
        BY <3>1 DEF ResourceStmt, P!SaveProcessDefinitionWith
      <4> HIDE DEF r, row
      <4>2. c = P!ExecContext(b, s)
        BY <2>2, <2>4, <4>1
      <4>3. /\ Database(P!ExecContext(b, s))
            /\ P!ExecContext(b, s).process_definition = b.process_definition \cup {r}
            /\ P!ExecContext(b, s).dmn_resource_definition = b.dmn_resource_definition
        BY <2>3, SaveProcessDefinitionResult
      <4>4. QED BY <3>1, <4>1, <4>2, <4>3 DEF Within
    <3>2. CASE v.of = "resource" /\ deploys[d].kind # "process"
      <4> DEFINE r == [key |-> DeployKey(d), version |-> v.version, id |-> "r", checksum |-> deploys[d].sum]
                 s == P!Stmt("SaveDmnResourceDefinition", r)
      <4>1. row[1] = s /\ r.checksum = deploys[d].sum
        BY <3>2 DEF ResourceStmt, P!SaveDmnResourceDefinitionWith
      <4> HIDE DEF r, row
      <4>2. c = P!ExecContext(b, s)
        BY <2>2, <2>4, <4>1
      <4>3. /\ Database(P!ExecContext(b, s))
            /\ P!ExecContext(b, s).dmn_resource_definition = b.dmn_resource_definition \cup {r}
            /\ P!ExecContext(b, s).process_definition = b.process_definition
        BY <2>3, SaveDmnResourceDefinitionResult
      <4>4. QED BY <3>2, <4>1, <4>2, <4>3 DEF Within
    <3>3. CASE v.of # "resource"
      <4> DEFINE r == [key |-> KeySpace * v.part + 90 + d, version |-> v.version, id |-> "d", tag |-> Null,
                       drd_id |-> "r", drd |-> DeployKey(d)]
                 s == P!Stmt("SaveDecisionDefinition", r)
      <4>1. row[1] = s
        BY <3>3 DEF DecisionStmt, P!SaveDecisionDefinitionWith
      <4> HIDE DEF r, row
      <4>2. c = P!ExecContext(b, s)
        BY <2>2, <2>4, <4>1
      <4>3. /\ Database(P!ExecContext(b, s))
            /\ P!ExecContext(b, s).process_definition = b.process_definition
            /\ P!ExecContext(b, s).dmn_resource_definition = b.dmn_resource_definition
        BY <2>3, SaveDecisionDefinitionResult
      <4>4. QED BY <3>3, <4>2, <4>3 DEF Within
    <3>4. QED BY <3>1, <3>2, <3>3
  <2>6. copy' = [copy EXCEPT ![m][p] = c]
    BY <1>5, <2>4
  <2> HIDE DEF row
  <2>7. PICK n : n = m
    OBVIOUS
  <2>8. CopiesGood
    <3>1. copy' = [copy EXCEPT ![n][p] = c] /\ raft[p] = n
      BY <2>6, <2>7, <1>5
    <3>2. Database(c) /\ Within(copy[n][p], c)
      BY <2>2, <2>5, <2>7
    <3>3. QED BY <1>1, <3>1, <3>2, CopyWritten
  <2>9. DefinitionsStay
    BY <2>8 DEF CopiesGood
  <2>10. DB(p)' = c
    BY <1>1, <1>3, <1>5, <2>1, <2>6 DEF DB, Replicas
  <2>11. deploys'[d].kind = deploys[d].kind /\ deploys'[d].sum = deploys[d].sum
    <3>1. CASE Done(d, q, p)
      BY <3>1, Moves DEF Moved
    <3>2. ASSUME NEW w, deploys' = [deploys EXCEPT ![d].save[q] = w]
          PROVE  deploys'[d].kind = deploys[d].kind /\ deploys'[d].sum = deploys[d].sum
      BY <3>2, Moves DEF Moved
    <3>3. QED BY <1>5, <3>1, <3>2
  <2>12. Stored(d, p)'
    <3>1. CASE v.of = "resource"
      BY <2>5, <2>10, <2>11, <3>1 DEF Stored
    <3>2. CASE v.of # "resource"
      <4>1. Stored(d, p)
        BY <1>1, <1>2, <3>2 DEF GoroutinesDeliver
      <4>2. QED BY <2>9, <2>11, <4>1, StoredStays
    <3>3. QED BY <3>1, <3>2
  <2>13. CASE Done(d, q, p)
    <3>1. DeploysGood
      BY <1>1, <2>9, <2>12, <2>13, DoneIsGood
    <3>2. QED BY <1>1, <2>8, <3>1 DEF DeployGood
  <2>14. ASSUME NEW x, deploys' = [deploys EXCEPT ![d].save[q] = [part |-> p, of |-> "decision", version |-> x]]
         PROVE  DeployGood
    <3> DEFINE save == [part |-> p, of |-> "decision", version |-> x]
    <3>1. save.part = p
      OBVIOUS
    <3>2. Moved(d, q, deploys[d].rpc[q], deploys[d].todo[q], save)
      BY <2>14, Moves
    <3> HIDE DEF save
    <3>3. PICK rpc, todo : rpc = deploys[d].rpc[q] /\ todo = deploys[d].todo[q]
      OBVIOUS
    <3>4. rpc = "runs" /\ todo \subseteq Hosting(m) /\ Moved(d, q, rpc, todo, save)
      BY <1>1, <3>2, <3>3 DEF DeployTypes
    <3>5. q \in todo \/ <<d, q>> \in skipped' \/ Stored(d, q)'
      <4>1. q \in todo \/ <<d, q>> \in skipped \/ Stored(d, q)
        BY <1>1, <3>3 DEF GoroutinesDeliver
      <4>2. QED BY <1>1, <2>9, <2>11, <4>1, StoredStays
    <3>6. DeploysGood
      BY <1>1, <2>9, <2>12, <3>1, <3>4, <3>5, MoveIsGood
    <3>7. QED BY <1>1, <2>8, <3>6 DEF DeployGood
  <2>15. QED BY <1>5, <2>13, <2>14
<1>6. QED
  <2> DEFINE db == copy[m][v.part]
             x == 1 + (CHOOSE r \in P!GetLatestDecisionDefinitionById(db, "d") : TRUE).version
  <2>1. \/ /\ raft[v.part] = m
           /\ copy' = [copy EXCEPT ![m][v.part] = P!ExecContext(@, row[1])]
           /\ \/ /\ v.of = "resource"
                 /\ deploys' = [deploys EXCEPT ![d].save[q] = [part |-> v.part, of |-> "decision", version |-> x]]
              \/ Done(d, q, v.part)
        \/ copy' = copy /\ Fails(d, q)
    BY DEF Save
  <2> HIDE DEF x, row
  <2>2. QED BY <1>2, <1>4, <1>5, <2>1

-----------------------------------------------------------------------------
(* The theorems *)

\* A cluster starts with databases, and with nothing under way.
LEMMA InitEstablishes ==
    ASSUME Init
    PROVE  CallsInv
<1>1. /\ scenario \in Scenarios
      /\ copy = [n \in Node |-> [p \in Hosting(n) |-> Deployed(p)]]
      /\ raft \in [Partition -> Node] /\ \A p \in Partition : p \in Hosting(raft[p])
      /\ leader = raft /\ calls = {} /\ deploys = <<>> /\ skipped = {}
  BY DEF Init
<1>2. Placement
  BY <1>1 DEF Placement
<1>3. Replicas
  <2>1. ASSUME NEW n \in Node, NEW p \in Hosting(n)
        PROVE  Database(copy[n][p]) /\ Within(copy[n][p], DB(p))
    <3>1. p \in Partition /\ raft[p] \in Node /\ p \in Hosting(raft[p])
      BY <1>2, HostedPartitions
    <3>2. copy[n][p] = Deployed(p) /\ DB(p) = Deployed(p)
      BY <1>1, <3>1 DEF DB
    <3>3. QED BY <3>2, DeployedResult, WithinOrder
  <2>2. DOMAIN copy = Node /\ \A n \in Node : DOMAIN copy[n] = Hosting(n)
    BY <1>1
  <2>3. QED BY <2>1, <2>2 DEF Replicas
<1>4. CallsSaveRows
  BY <1>1 DEF CallsSaveRows
<1>5. DOMAIN deploys = {} /\ \E S : deploys \in Seq(S)
  <2>1. deploys \in Seq({}) /\ DOMAIN deploys = {}
    BY <1>1
  <2>2. QED BY <2>1
<1>6. DeployTypes /\ GoroutinesDeliver /\ AcknowledgedAreFinished
  BY <1>5 DEF DeployTypes, GoroutinesDeliver, AcknowledgedAreFinished
<1>7. QED BY <1>2, <1>3, <1>4, <1>6 DEF CallsInv

\* Every step is one of an engine call, of a deployment or of raft.
LEMMA StepIsGood ==
    ASSUME CallsInv, Next
    PROVE  EngineGood \/ DeployGood
<1>1. Placement /\ Replicas /\ CallsSaveRows
  BY DEF CallsInv
<1>2. ASSUME NEW p \in Partition, NEW n \in Node, Elect(p, n) PROVE EngineGood
  <2>1. CopiesGood
    BY <1>1, <1>2, ElectIsGood
  <2>2. UNCHANGED <<scenario, calls, deploys, skipped>>
    BY <1>2 DEF Elect
  <2>3. QED BY <1>1, <2>1, <2>2 DEF EngineGood, CallsSaveRows
<1>3. ASSUME NEW p \in Partition, NEW n \in Node, Replicate(n, p) PROVE EngineGood
  <2>1. CopiesGood
    BY <1>1, <1>3, ReplicateIsGood
  <2>2. UNCHANGED <<scenario, calls, deploys, skipped>>
    BY <1>3 DEF Replicate, placement
  <2>3. QED BY <1>1, <2>1, <2>2 DEF EngineGood, CallsSaveRows
<1>4. ASSUME NEW p \in Partition, NEW n \in Node, CreateEngine(n, p) PROVE EngineGood
  BY <1>1, <1>4, CreateEngineIsGood
<1>5. ASSUME NEW p \in Partition, Announce(p) PROVE EngineGood
  BY <1>1, <1>5, AnnounceIsGood
<1>6. ASSUME NEW def, NEW corr,
             CreateProcessInstance(def, corr) \/ StartProcessInstanceOnElements(def, corr)
      PROVE  EngineGood
  <2>1. PICK m, p : CreateInstance(m, p, def, corr)
    BY <1>6 DEF CreateProcessInstance, StartProcessInstanceOnElements
  <2>2. QED BY <1>1, <2>1, CreateInstanceIsGood
<1>7. ASSUME NEW n, NEW corr, PublishMessage(n, corr) PROVE EngineGood
  BY <1>1, <1>7, PublishMessageIsGood
<1>8. ASSUME NEW k, CompleteJob(k) \/ FailJob(k) \/ AssignJob(k) PROVE EngineGood
  BY <1>1, <1>8, CompleteJobIsGood, FailJobIsGood, AssignJobIsGood
<1>9. ASSUME NEW k, ResolveIncident(k) PROVE EngineGood
  BY <1>1, <1>9, ResolveIncidentIsGood
<1>10. ASSUME NEW i, CancelProcessInstance(i) PROVE EngineGood
  BY <1>1, <1>10, CancelProcessInstanceIsGood
<1>11. ASSUME NEW i, NEW op, BeginVars(i, op) PROVE EngineGood
  BY <1>1, <1>11, BeginVarsIsGood
<1>12. ASSUME EvaluateDecision PROVE EngineGood
  BY <1>1, <1>12, EvaluateDecisionIsGood
<1>13. ASSUME NEW b \in calls, \/ UpdateProcessInstanceVariables(b) \/ DeleteProcessInstanceVariable(b)
                               \/ RunProcessInstance(b) \/ SavePointer(b) \/ Flush(b)
       PROVE  EngineGood
  BY <1>1, <1>13, VariablesAreGood, RunProcessInstanceIsGood, SavePointerIsGood, FlushIsGood
<1>14. ASSUME NEW kind, NEW sum, NEW n, Deploy(kind, sum, n) PROVE DeployGood
  BY <1>14, DeployIsGood
<1>15. ASSUME NEW d \in DOMAIN deploys, NEW q \in Partition,
              DeployArrives(d, q) \/ DeployLost(d, q) \/ Save(d, q)
       PROVE  DeployGood
  BY <1>15, DeployArrivesIsGood, DeployLostIsGood, SaveIsGood
<1>16. ASSUME NEW d \in DOMAIN deploys, NEW q \in Partition, NEW p \in Partition, Load(d, q, p)
       PROVE  DeployGood
  BY <1>16, LoadIsGood
<1>17. ASSUME NEW d \in DOMAIN deploys, DeployEnds(d) PROVE DeployGood
  BY <1>17, DeployEndsIsGood
<1>18. QED
  BY <1>2, <1>3, <1>4, <1>5, <1>6, <1>7, <1>8, <1>9, <1>10, <1>11, <1>12, <1>13, <1>14, <1>15, <1>16, <1>17
     DEF Next

\* The same for a step and for a stutter.
LEMMA CallsStep ==
    ASSUME CallsInv, [Next]_vars
    PROVE  CallsInv' /\ DefinitionsStay
<1>1. CASE EngineGood
  <2>1. DeploysGood
    BY <1>1, DeploysStand DEF CallsInv, EngineGood, CopiesGood
  <2>2. QED BY <1>1, <2>1 DEF CallsInv, EngineGood, CopiesGood, DeploysGood
<1>2. CASE DeployGood
  <2>1. CallsSaveRows'
    BY <1>2 DEF DeployGood, CallsInv, CallsSaveRows
  <2>2. QED BY <1>2, <2>1 DEF CallsInv, DeployGood, CopiesGood, DeploysGood
<1>3. CASE UNCHANGED vars
  <2>1. UNCHANGED <<scenario, copy, raft, leader, calls, deploys, skipped>>
    BY <1>3 DEF vars
  <2>2. CopiesGood
    BY <2>1, CopiesUnchanged, HostedPartitions DEF CallsInv, Placement
  <2>3. EngineGood
    BY <2>1, <2>2 DEF EngineGood, CallsInv, CallsSaveRows
  <2>4. QED BY <1>1, <2>3
<1>4. QED BY <1>1, <1>2, <1>3, StepIsGood

\* The invariant of calls and deployments (ClusterCalls, all of its actions).
THEOREM CallsInvariance == Spec => []CallsInv
<1>1. Init => CallsInv
  BY InitEstablishes
<1>2. CallsInv /\ [Next]_vars => CallsInv'
  BY CallsStep
<1>3. QED BY <1>1, <1>2, PTL DEF Spec

\* A deployment that was answered with 201 is in every partition, whatever calls
\* were lost, leaders changed and other deployments ran meanwhile, except where a
\* leader without an engine accepted it (node.go,
\* DeployProcessDefinitionToAllPartitions).
THEOREM AcknowledgedDeploymentsArrive == Spec => []AcknowledgedDeploymentsAreEverywhere
<1>1. CallsInv => AcknowledgedDeploymentsAreEverywhere
  BY DEF CallsInv, GoroutinesDeliver, AcknowledgedAreFinished, Stored, AcknowledgedDeploymentsAreEverywhere
<1>2. QED BY <1>1, CallsInvariance, PTL

\* No definition of a partition is ever lost: neither by a batch, nor by a change
\* of the raft leader, nor by a deployment (partition_persistence.go,
\* SaveProcessDefinition, SaveDmnResourceDefinition).
THEOREM DefinitionsAreKept == Spec => [][DefinitionsStay]_vars
<1>1. CallsInv /\ [Next]_vars => [DefinitionsStay]_vars
  BY CallsStep
<1>2. QED BY <1>1, CallsInvariance, PTL DEF Spec

-----------------------------------------------------------------------------
(***************************************************************************)
(* Ended instances.  What a call writes was read under the lock of its     *)
(* node's engine; that nobody has ended the instance since then follows    *)
(* from the lock only while the raft leader stays.  So the invariant says  *)
(* of each call that holds a lock what the database still has, if there    *)
(* was no election since the call began.                                   *)
(***************************************************************************)

EndedStates == {"completed", "terminated"}

InstanceFields == {"key", "def", "state", "variables", "business_key", "parent_token",
                   "process_type", "history_ttl_sec", "history_delete_sec", "at"}

\* The rows of a table of instances: the key is a key.
Table(T) == /\ \A q \in T : DOMAIN q = InstanceFields
            /\ \A q, r \in T : q.key = r.key => q = r

\* A replica has no instance that the raft leader does not have, and the keys of
\* a partition are the ones that it generates.
Instances ==
    /\ \A n \in Node : \A p \in Hosting(n) :
         /\ Table(copy[n][p].process_instance)
         /\ P!Q!Keys(copy[n][p].process_instance) \subseteq P!Q!Keys(DB(p).process_instance)
    /\ \A p \in Partition :
         /\ Cardinality(DB(p).process_instance) <= scenario.insts
         /\ \A q \in DB(p).process_instance : \E k \in 1..Cardinality(DB(p).process_instance) :
               q.key = KeySpace * p + 20 * k

StateOf(b, i) == TheInstance(b, i).state

\* The statements that save an instance; they save instance i only, in one of the
\* states V.
SavesOf(u)    == {n \in DOMAIN u : u[n].q = "SaveProcessInstance"}
Saves(u, i)   == \A n \in SavesOf(u) : u[n].row.key = i
SavesIn(u, V) == \A n \in SavesOf(u) : u[n].row.state \in V

\* The node leads the partition, and there was no election since the call began.
Current(b) == b.node = raft[b.part] /\ b.term = elections[b.part]

\* What a call that holds a lock knows.
HolderOK(b) ==
    /\ b.node \in Node /\ b.part \in Hosting(b.node)
    /\ b.inst \in P!Q!Keys(copy[b.node][b.part].process_instance)
    /\ Saves(b.stmts, b.inst)
    /\ Current(b) => \/ StateOf(DB(b.part), b.inst) \notin EndedStates
                     \/ b.from # "run" /\ SavesIn(b.stmts, {StateOf(DB(b.part), b.inst)})

CallOK(b) ==
    /\ b.part = R!N!S!GetPartitionId(b.inst)
    /\ b.part \in Partition => b.term \in Nat /\ b.term <= elections[b.part]
    /\ b.pc = "run" => b.node \in Node /\ b.part \in Hosting(b.node)
    /\ b.from = "run" => b.locked
    /\ IF b.locked THEN HolderOK(b) ELSE SavesOf(b.stmts) = {} /\ b.then # "run"

Exclusive == \A b, c \in calls : b.locked /\ c.locked /\ b.node = c.node /\ b.inst = c.inst => b = c

LocksInv == /\ elections \in [Partition -> Nat] /\ Instances
            /\ (\A b \in calls : CallOK(b)) /\ Exclusive

-----------------------------------------------------------------------------
(* What statements do to the table of instances *)

\* The row of an instance that is there.
LEMMA TheInstanceResult ==
    ASSUME NEW b, Table(b.process_instance), NEW i \in P!Q!Keys(b.process_instance)
    PROVE  /\ TheInstance(b, i) \in b.process_instance /\ TheInstance(b, i).key = i
           /\ \A q \in b.process_instance : q.key = i => q = TheInstance(b, i)
<1>1. \E r \in P!Q!GetProcessInstance(b, i) : TRUE
  BY DEF P!Q!Keys, P!Q!GetProcessInstance
<1>2. TheInstance(b, i) \in P!Q!GetProcessInstance(b, i)
  BY <1>1 DEF TheInstance
<1>3. QED BY <1>2 DEF P!Q!GetProcessInstance, Table

\* An instance that the batch of a call finds.
LEMMA BatchFinds ==
    ASSUME NEW b, Table(b.process_instance), NEW i, NewEngineBatch(b, i)
    PROVE  i \in P!Q!Keys(b.process_instance) /\ StateOf(b, i) \notin EndedStates
<1>1. PICK r \in P!Q!GetProcessInstance(b, i) : r.state \notin {"completed", "terminated"}
  BY DEF NewEngineBatch
<1>2. r \in b.process_instance /\ r.key = i /\ i \in P!Q!Keys(b.process_instance)
  BY <1>1 DEF P!Q!GetProcessInstance, P!Q!Keys
<1>3. r = TheInstance(b, i)
  BY <1>2, TheInstanceResult
<1>4. QED BY <1>1, <1>2, <1>3 DEF StateOf, EndedStates

\* A statement of an engine writes the table of instances only to save one.
LEMMA InstanceExec ==
    ASSUME NEW b, Sound(b), NEW s, s.q \in EngineQueries
    PROVE  P!Exec(b, s).process_instance =
              IF s.q = "SaveProcessInstance"
              THEN P!Q!Upsert(b.process_instance, s.row, {"state", "variables", "business_key"})
              ELSE b.process_instance
<1>1. "process_instance" \in DOMAIN b
  BY DEF Sound, P!Q!Tables
<1>2. CASE s.q = "SaveProcessInstance"
  BY <1>1, <1>2 DEF P!Exec, P!Q!SaveProcessInstance
<1>3. CASE s.q = "SaveToken"
  BY <1>1, <1>3 DEF P!Exec, P!Q!SaveToken
<1>4. CASE s.q = "SaveJob"
  BY <1>1, <1>4 DEF P!Exec, P!Q!SaveJob
<1>5. CASE s.q = "SaveMessageSubscription"
  BY <1>1, <1>5 DEF P!Exec, P!Q!SaveMessageSubscription
<1>6. CASE s.q = "SaveFlowElementInstance"
  BY <1>1, <1>6 DEF P!Exec, P!Q!SaveFlowElementInstance
<1>7. CASE s.q = "UpdateOutputFlowElementInstance"
  <2> DEFINE T == P!Q!Upsert(b.flow_element_instance, [s.row EXCEPT !.input = ""], {"output"})
  <2>1. P!Exec(b, s) = [b EXCEPT !.flow_element_instance = T]
    BY <1>7 DEF P!Exec, P!Q!UpdateOutputFlowElementInstance
  <2> HIDE DEF T
  <2>2. QED BY <1>1, <1>7, <2>1
<1>8. CASE s.q = "SaveIncident"
  BY <1>1, <1>8 DEF P!Exec, P!Q!SaveIncident
<1>9. CASE s.q = "SaveDecisionInstance"
  BY <1>1, <1>9 DEF P!Exec, P!Q!SaveDecisionInstance
<1>10. QED BY <1>2, <1>3, <1>4, <1>5, <1>6, <1>7, <1>8, <1>9 DEF EngineQueries

\* An instance that is there is overwritten, and the others are left alone.
LEMMA UpsertTable ==
    ASSUME NEW T, Table(T), NEW r, r.key \in P!Q!Keys(T), NEW U,
           U = P!Q!Upsert(T, r, {"state", "variables", "business_key"})
    PROVE  /\ Table(U) /\ P!Q!Keys(U) = P!Q!Keys(T)
           /\ \A j : j # r.key => {q \in U : q.key = j} = {q \in T : q.key = j}
           /\ \A q \in U : q.key = r.key => q.state = r.state
<1> DEFINE cols == {"state", "variables", "business_key"}
           put(q) == [c \in DOMAIN q |-> IF c \in cols THEN r[c] ELSE q[c]]
<1>1. U = {IF q.key = r.key THEN put(q) ELSE q : q \in T}
  BY DEF P!Q!Upsert
<1>2. \A q \in T : DOMAIN put(q) = InstanceFields /\ put(q).key = q.key /\ put(q).state = r.state
  BY DEF Table, InstanceFields
<1> HIDE DEF put
<1>3. \A q \in T : q.key # r.key => q \in U
  BY <1>1
<1>4. \A q \in T : q.key = r.key => put(q) \in U
  BY <1>1
<1>5. \A u \in U : \E q \in T : u.key = q.key /\ u = IF q.key = r.key THEN put(q) ELSE q
  BY <1>1, <1>2
<1>6. Table(U)
  BY <1>2, <1>5 DEF Table
<1>7. P!Q!Keys(U) = P!Q!Keys(T)
  <2>1. \A u \in U : u.key \in P!Q!Keys(T)
    BY <1>5 DEF P!Q!Keys
  <2>2. \A q \in T : q.key \in P!Q!Keys(U)
    BY <1>2, <1>3, <1>4 DEF P!Q!Keys
  <2>3. QED BY <2>1, <2>2 DEF P!Q!Keys
<1>8. ASSUME NEW j, j # r.key PROVE {q \in U : q.key = j} = {q \in T : q.key = j}
  BY <1>3, <1>5, <1>8
<1>9. \A q \in U : q.key = r.key => q.state = r.state
  BY <1>2, <1>5
<1>10. QED BY <1>6, <1>7, <1>8, <1>9

\* The same for the statements of a batch that saves instance i.
LEMMA InstanceAfter ==
    ASSUME NEW b, Sound(b), Table(b.process_instance), NEW u, EngineStmts(u),
           NEW i \in P!Q!Keys(b.process_instance), Saves(u, i),
           NEW V, StateOf(b, i) \in V, SavesIn(u, V), NEW n \in 0..Len(u)
    PROVE  LET c == P!After(b, u)[n]
           IN  /\ Table(c.process_instance)
               /\ P!Q!Keys(c.process_instance) = P!Q!Keys(b.process_instance)
               /\ \A j : j # i => P!Q!GetProcessInstance(c, j) = P!Q!GetProcessInstance(b, j)
               /\ StateOf(c, i) \in V
<1> DEFINE f == P!After(b, u)
           Kept(m) == /\ Table(f[m].process_instance)
                      /\ P!Q!Keys(f[m].process_instance) = P!Q!Keys(b.process_instance)
                      /\ \A j : j # i => P!Q!GetProcessInstance(f[m], j) = P!Q!GetProcessInstance(b, j)
                      /\ StateOf(f[m], i) \in V
           Bad == {m \in 0..Len(u) : ~Kept(m)}
<1>1. Len(u) \in Nat /\ DOMAIN u = 1..Len(u) /\ \A m \in 1..Len(u) : u[m].q \in EngineQueries
  BY DEF EngineStmts
<1>2. f[0] = b /\ \A m \in 1..Len(u) : f[m] = P!Exec(f[m - 1], u[m])
  BY <1>1, AfterResult
<1>3. \A m \in 0..Len(u) : Sound(f[m])
  BY EngineAfter
<1> HIDE DEF f
<1>4. Kept(0)
  BY <1>2
<1>5. ASSUME NEW m \in 1..Len(u), Kept(m - 1) PROVE Kept(m)
  <2> DEFINE c == f[m - 1]
             s == u[m]
  <2>1. /\ Sound(c) /\ Table(c.process_instance) /\ i \in P!Q!Keys(c.process_instance)
        /\ s.q \in EngineQueries
    BY <1>1, <1>3, <1>5
  <2>2. f[m].process_instance =
              IF s.q = "SaveProcessInstance"
              THEN P!Q!Upsert(c.process_instance, s.row, {"state", "variables", "business_key"})
              ELSE c.process_instance
    BY <1>2, <2>1, InstanceExec
  <2>3. CASE s.q # "SaveProcessInstance"
    BY <1>5, <2>2, <2>3 DEF P!Q!GetProcessInstance, StateOf, TheInstance
  <2>4. CASE s.q = "SaveProcessInstance"
    <3> DEFINE T == c.process_instance
               U == f[m].process_instance
    <3>1. m \in SavesOf(u)
      BY <1>1, <2>4 DEF SavesOf
    <3>2. s.row.key = i /\ s.row.state \in V
      BY <3>1 DEF Saves, SavesIn
    <3>3. U = P!Q!Upsert(T, s.row, {"state", "variables", "business_key"})
      BY <2>2, <2>4
    <3> HIDE DEF U, T
    <3>4. /\ Table(U) /\ P!Q!Keys(U) = P!Q!Keys(T)
          /\ \A j : j # i => {q \in U : q.key = j} = {q \in T : q.key = j}
          /\ \A q \in U : q.key = i => q.state = s.row.state
      <4>1. PICK r : r = s.row
        OBVIOUS
      <4>2. Table(T) /\ r.key \in P!Q!Keys(T) /\ r.key = i
        BY <2>1, <3>2, <4>1 DEF T
      <4>3. U = P!Q!Upsert(T, r, {"state", "variables", "business_key"})
        BY <3>3, <4>1
      <4>4. /\ Table(U) /\ P!Q!Keys(U) = P!Q!Keys(T)
            /\ \A j : j # r.key => {q \in U : q.key = j} = {q \in T : q.key = j}
            /\ \A q \in U : q.key = r.key => q.state = r.state
        BY <4>2, <4>3, UpsertTable
      <4>5. QED BY <4>1, <4>2, <4>4
    <3>5. TheInstance(f[m], i) \in U /\ TheInstance(f[m], i).key = i
      BY <2>1, <3>4, TheInstanceResult DEF U, T
    <3>6. StateOf(f[m], i) \in V
      BY <3>2, <3>4, <3>5 DEF StateOf
    <3>7. \A j : j # i => P!Q!GetProcessInstance(f[m], j) = P!Q!GetProcessInstance(c, j)
      BY <3>4 DEF P!Q!GetProcessInstance, U, T
    <3>8. QED BY <1>5, <3>4, <3>6, <3>7 DEF U, T
  <2>5. QED BY <2>3, <2>4
<1>6. Bad \in SUBSET Nat
  BY <1>1
<1>7. ASSUME NEW m \in Bad, \A k \in Bad : m <= k PROVE FALSE
  <2>1. m \in 0..Len(u) /\ ~Kept(m)
    OBVIOUS
  <2> HIDE DEF Kept
  <2>2. m \in 1..Len(u) /\ m - 1 \in 0..Len(u)
    BY <1>1, <1>4, <2>1
  <2>3. m - 1 \notin Bad
    <3>1. ~(m <= m - 1)
      BY <2>2
    <3> HIDE DEF Bad
    <3>2. QED BY <1>7, <3>1
  <2>4. QED BY <1>5, <2>1, <2>2, <2>3
<1>8. Bad = {}
  <2> HIDE DEF Bad
  <2>1. QED BY <1>6, <1>7, LeastNumber
<1>9. Kept(n)
  BY <1>8
<1>10. QED BY <1>9 DEF f

\* And for a batch, which may fail as a whole.
LEMMA InstanceBatch ==
    ASSUME NEW b, Database(b), Table(b.process_instance), NEW u, EngineStmts(u),
           NEW i \in P!Q!Keys(b.process_instance), Saves(u, i),
           NEW V, StateOf(b, i) \in V, SavesIn(u, V),
           NEW c, c = P!ExecuteStatements(b, u)
    PROVE  /\ Table(c.process_instance)
           /\ P!Q!Keys(c.process_instance) = P!Q!Keys(b.process_instance)
           /\ \A j : j # i => P!Q!GetProcessInstance(c, j) = P!Q!GetProcessInstance(b, j)
           /\ StateOf(c, i) \in V
<1>1. Len(u) \in Nat /\ Sound(b)
  BY DEF EngineStmts, Database
<1>2. CASE P!StatementsFail(b, u)
  BY <1>2 DEF P!ExecuteStatements
<1>3. CASE ~P!StatementsFail(b, u)
  <2>1. c = P!After(b, u)[Len(u)] /\ Len(u) \in 0..Len(u)
    BY <1>1, <1>3 DEF P!ExecuteStatements, P!Run
  <2>2. QED BY <1>1, <2>1, InstanceAfter
<1>4. QED BY <1>2, <1>3

\* A batch that saves no instance.
LEMMA InstancesUntouched ==
    ASSUME NEW b, Database(b), NEW u, EngineStmts(u), SavesOf(u) = {}
    PROVE  P!ExecuteStatements(b, u).process_instance = b.process_instance
<1> DEFINE f == P!After(b, u)
           Kept(m) == f[m].process_instance = b.process_instance
           Bad == {m \in 0..Len(u) : ~Kept(m)}
<1>1. /\ Len(u) \in Nat /\ DOMAIN u = 1..Len(u) /\ Sound(b)
      /\ \A m \in 1..Len(u) : u[m].q \in EngineQueries
  BY DEF EngineStmts, Database
<1>2. f[0] = b /\ \A m \in 1..Len(u) : f[m] = P!Exec(f[m - 1], u[m])
  BY <1>1, AfterResult
<1>3. \A m \in 0..Len(u) : Sound(f[m])
  BY <1>1, EngineAfter
<1>4. P!ExecuteStatements(b, u) \in {b, f[Len(u)]}
  BY DEF P!ExecuteStatements, P!Run
<1> HIDE DEF f
<1>5. Kept(0)
  BY <1>2
<1>6. ASSUME NEW m \in 1..Len(u), Kept(m - 1) PROVE Kept(m)
  <2>1. u[m].q # "SaveProcessInstance" /\ u[m].q \in EngineQueries
    BY <1>1 DEF SavesOf
  <2>2. Sound(f[m - 1]) /\ f[m] = P!Exec(f[m - 1], u[m])
    BY <1>1, <1>2, <1>3
  <2>3. f[m].process_instance = f[m - 1].process_instance
    BY <2>1, <2>2, InstanceExec
  <2>4. QED BY <1>6, <2>3
<1>7. Bad \in SUBSET Nat
  BY <1>1
<1>8. ASSUME NEW m \in Bad, \A k \in Bad : m <= k PROVE FALSE
  <2>1. m \in 0..Len(u) /\ ~Kept(m)
    OBVIOUS
  <2> HIDE DEF Kept
  <2>2. m \in 1..Len(u) /\ m - 1 \in 0..Len(u)
    BY <1>1, <1>5, <2>1
  <2>3. m - 1 \notin Bad
    <3>1. ~(m <= m - 1)
      BY <2>2
    <3> HIDE DEF Bad
    <3>2. QED BY <1>8, <3>1
  <2>4. QED BY <1>6, <2>1, <2>2, <2>3
<1>9. Bad = {}
  <2> HIDE DEF Bad
  <2>1. QED BY <1>7, <1>8, LeastNumber
<1>10. Len(u) \in 0..Len(u)
  BY <1>1
<1>11. Kept(Len(u))
  BY <1>9, <1>10
<1>12. QED BY <1>4, <1>11

\* A table has as many rows as keys.
LEMMA TableSize ==
    ASSUME NEW T, Table(T), IsFiniteSet(T), NEW U, Table(U), IsFiniteSet(U), P!Q!Keys(T) = P!Q!Keys(U)
    PROVE  Cardinality(T) = Cardinality(U)
<1> DEFINE row(q) == CHOOSE r \in U : r.key = q.key
           f == [q \in T |-> row(q)]
<1>1. \A q \in T : row(q) \in U /\ row(q).key = q.key
  BY DEF P!Q!Keys
<1> HIDE DEF row
<1>2. f \in [T -> U]
  BY <1>1
<1>3. \A q, r \in T : f[q] = f[r] => q = r
  BY <1>1 DEF Table
<1>4. \A r \in U : \E q \in T : f[q] = r
  <2>1. SUFFICES ASSUME NEW r \in U PROVE \E q \in T : f[q] = r
    OBVIOUS
  <2>2. PICK q \in T : q.key = r.key
    BY DEF P!Q!Keys
  <2>3. f[q] = r
    BY <1>1, <2>2 DEF Table
  <2>4. QED BY <2>3
<1> HIDE DEF f
<1>5. f \in Bijection(T, U)
  BY <1>2, <1>3, <1>4 DEF Bijection, Injection, Surjection, IsInjective
<1>6. QED BY <1>5, FS_Bijection DEF ExistsBijection

-----------------------------------------------------------------------------
(* Calls and the instances that they are about *)

\* The fields of a call, ...
LEMMA CallFields ==
    ASSUME NEW n, NEW i, NEW pc
    PROVE  /\ DOMAIN Call(n, i, pc) = {"node", "part", "inst", "pc", "term", "from", "locked", "then", "ptr", "stmts"}
           /\ Call(n, i, pc).node = n /\ Call(n, i, pc).part = R!N!S!GetPartitionId(i)
           /\ Call(n, i, pc).inst = i /\ Call(n, i, pc).pc = pc
           /\ Call(n, i, pc).term = elections[R!N!S!GetPartitionId(i)] /\ Call(n, i, pc).from = "call"
           /\ pc \in {"pointer", "flush"} => Call(n, i, pc).locked = TRUE
           /\ pc \notin {"pointer", "flush"} => Call(n, i, pc).locked = FALSE
           /\ Call(n, i, pc).then = "none" /\ Call(n, i, pc).stmts = <<>>
<1>1. Call(n, i, pc).locked = (pc \in {"pointer", "flush"})
  BY DEF Call
<1>2. /\ pc \in {"pointer", "flush"} => (pc \in {"pointer", "flush"}) = TRUE
      /\ pc \notin {"pointer", "flush"} => (pc \in {"pointer", "flush"}) = FALSE
  OBVIOUS
<1>3. /\ pc \in {"pointer", "flush"} => Call(n, i, pc).locked = TRUE
      /\ pc \notin {"pointer", "flush"} => Call(n, i, pc).locked = FALSE
  BY <1>1, <1>2, Zenon
<1>4. /\ DOMAIN Call(n, i, pc) = {"node", "part", "inst", "pc", "term", "from", "locked", "then", "ptr", "stmts"}
      /\ Call(n, i, pc).node = n /\ Call(n, i, pc).part = R!N!S!GetPartitionId(i)
      /\ Call(n, i, pc).inst = i /\ Call(n, i, pc).pc = pc
      /\ Call(n, i, pc).term = elections[R!N!S!GetPartitionId(i)] /\ Call(n, i, pc).from = "call"
      /\ Call(n, i, pc).then = "none" /\ Call(n, i, pc).stmts = <<>>
  BY DEF Call
<1>5. QED BY <1>3, <1>4, Zenon

\* A call that runs an instance, or has looked at it only, holds no lock.
LEMMA CallUnlocked ==
    ASSUME NEW n, NEW i, NEW pc \in {"run", "vars"}
    PROVE  Call(n, i, pc).locked = FALSE
<1>1. Call(n, i, pc).locked = (pc \in {"pointer", "flush"})
  BY DEF Call
<1>2. (pc \in {"pointer", "flush"}) = FALSE
  OBVIOUS
<1>3. QED BY <1>1, <1>2, Zenon

\* ... and of a call with rows to save, which holds the lock of its instance.
LEMMA BatchFields ==
    ASSUME NEW n, NEW i, NEW rows, NEW then, NEW b, b = Batch(n, i, rows, then)
    PROVE  /\ DOMAIN b = {"node", "part", "inst", "pc", "term", "from", "locked", "then", "ptr", "stmts"}
           /\ b.node = n /\ b.part = R!N!S!GetPartitionId(i) /\ b.inst = i /\ b.pc # "run"
           /\ b.term = elections[R!N!S!GetPartitionId(i)] /\ b.from = "call" /\ b.locked
           /\ b.then = then /\ b.stmts = rows
<1> DEFINE subs == {s \in Range(rows) : s.q = "SaveMessageSubscription"}
           m == IF subs = {} THEN "flush" ELSE "pointer"
           ptr == IF subs = {} THEN Null ELSE PointerTo((CHOOSE s \in subs : TRUE).row)
<1>1. b = [Call(n, i, m) EXCEPT !.stmts = rows, !.then = then, !.ptr = ptr] /\ m \in {"pointer", "flush"}
  <2>1. b = [Call(n, i, m) EXCEPT !.stmts = rows, !.then = then, !.ptr = ptr]
    BY Zenon DEF Batch
  <2>2. m \in {"pointer", "flush"}
    OBVIOUS
  <2> HIDE DEF m, ptr
  <2>3. QED BY <2>1, <2>2
<1> HIDE DEF m, ptr
<1>2. PICK c : c = Call(n, i, m)
  OBVIOUS
<1>3. /\ DOMAIN c = {"node", "part", "inst", "pc", "term", "from", "locked", "then", "ptr", "stmts"}
      /\ c.node = n /\ c.part = R!N!S!GetPartitionId(i) /\ c.inst = i /\ c.pc = m
      /\ c.term = elections[R!N!S!GetPartitionId(i)] /\ c.from = "call" /\ c.locked
  <2>1. c.locked = TRUE
    BY <1>1, <1>2, CallFields, Zenon
  <2>2. /\ DOMAIN c = {"node", "part", "inst", "pc", "term", "from", "locked", "then", "ptr", "stmts"}
        /\ c.node = n /\ c.part = R!N!S!GetPartitionId(i) /\ c.inst = i /\ c.pc = m
        /\ c.term = elections[R!N!S!GetPartitionId(i)] /\ c.from = "call"
    BY <1>2 DEF Call
  <2>3. QED BY <2>1, <2>2
<1>4. QED BY <1>1, <1>2, <1>3

\* A key that has been generated from p.
LEMMA PartOfKey ==
    ASSUME NEW K \in Nat, NEW p \in Nat, NEW k \in Nat, k < K, NEW i, i = K * p + k
    PROVE  i \div K = p
OBVIOUS

\* The key of an instance tells its partition.
LEMMA InstancePartition ==
    ASSUME Placement, Replicas, Instances, NEW n \in Node, NEW p \in Hosting(n),
           NEW i \in P!Q!Keys(copy[n][p].process_instance)
    PROVE  /\ R!N!S!GetPartitionId(i) = p /\ p \in Partition
           /\ i \in P!Q!Keys(DB(p).process_instance)
<1>1. p \in Partition
  BY HostedPartitions
<1>2. PICK q \in DB(p).process_instance : q.key = i
  BY DEF Instances, P!Q!Keys
<1>3. PICK k \in 1..Cardinality(DB(p).process_instance) : i = KeySpace * p + 20 * k
  BY <1>1, <1>2 DEF Instances
<1>4. IsFiniteSet(DB(p).process_instance)
  BY <1>1, HostedPartitions DEF Replicas, DB, Database, Sound, P!Q!Tables
<1>5. Cardinality(DB(p).process_instance) \in Nat /\ Cardinality(DB(p).process_instance) <= scenario.insts
  BY <1>1, <1>4, FS_CardinalityType DEF Instances
<1>6. scenario.insts \in Nat /\ 20 * scenario.insts < KeySpace /\ p \in Nat /\ KeySpace \in Nat
  BY <1>1, KeysFit DEF Placement
<1>7. 20 * k \in Nat /\ 20 * k < KeySpace
  BY <1>3, <1>5, <1>6
<1>8. i \div KeySpace = p
  BY <1>3, <1>6, <1>7, PartOfKey
<1>9. QED BY <1>1, <1>2, <1>8 DEF R!N!S!GetPartitionId, P!Q!Keys

\* What a call that begins has to know.
LEMMA HolderBegins ==
    ASSUME elections \in [Partition -> Nat], Placement, NEW b, b.locked,
           b.part = R!N!S!GetPartitionId(b.inst), b.pc # "run",
           b.node \in Node, b.part \in Hosting(b.node), b.term = elections[b.part],
           b.inst \in P!Q!Keys(copy[b.node][b.part].process_instance), Saves(b.stmts, b.inst),
           \/ StateOf(copy[b.node][b.part], b.inst) \notin EndedStates
           \/ b.from # "run" /\ SavesIn(b.stmts, {StateOf(copy[b.node][b.part], b.inst)})
    PROVE  CallOK(b)
<1>1. b.part \in Partition
  BY HostedPartitions
<1>2. b.term \in Nat /\ b.term <= elections[b.part]
  BY <1>1
<1>3. Current(b) => DB(b.part) = copy[b.node][b.part]
  BY DEF Current, DB
<1>4. HolderOK(b)
  BY <1>3 DEF HolderOK
<1>5. QED BY <1>2, <1>4 DEF CallOK

-----------------------------------------------------------------------------
(* Steps, and the instances that they leave alone *)

\* The state of an instance that has ended stays, or a call that began before an
\* election is flushed.
SameState(p, i) == StateOf(DB(p), i)' = StateOf(DB(p), i)

Allowed(p, i) ==
    StateOf(DB(p), i) \in EndedStates =>
        \/ SameState(p, i)
        \/ \E b \in calls \ calls' : b.inst = i /\ b.pc = "flush" /\ b.term < elections[p]

EndedStay == \A p \in Partition : \A i \in P!Q!Keys(DB(p).process_instance) : Allowed(p, i)

LocksGood == LocksInv' /\ EndedStay

\* No replica gets another table of instances.
SameInstances ==
    \A n \in Node : \A p \in Hosting(n) : copy'[n][p].process_instance = copy[n][p].process_instance

\* Only the table of instances of a database matters.
LEMMA SameTable ==
    ASSUME NEW b, NEW c, b.process_instance = c.process_instance
    PROVE  \A i : /\ P!Q!GetProcessInstance(b, i) = P!Q!GetProcessInstance(c, i)
                  /\ TheInstance(b, i) = TheInstance(c, i) /\ StateOf(b, i) = StateOf(c, i)
BY DEF P!Q!GetProcessInstance, TheInstance, StateOf

\* What a call knows stays true.
LEMMA CallsStand ==
    ASSUME Placement, Instances, UNCHANGED <<scenario, raft, elections>>, SameInstances
    PROVE  /\ Instances'
           /\ \A b : CallOK(b) => CallOK(b)'
           /\ \A p \in Partition : \A i : StateOf(DB(p), i)' = StateOf(DB(p), i)
<1>1. \A n : Hosting(n)' = Hosting(n)
  BY DEF Hosting
<1>2. \A p \in Partition : raft[p] \in Node /\ p \in Hosting(raft[p])
  BY HostedPartitions
<1>3. \A p \in Partition : DB(p)'.process_instance = DB(p).process_instance
  BY <1>2 DEF DB, SameInstances
<1>4. ASSUME NEW p \in Partition, NEW i PROVE StateOf(DB(p), i)' = StateOf(DB(p), i)
  <2>1. PICK b, c : b = DB(p)' /\ c = DB(p)
    OBVIOUS
  <2>2. StateOf(b, i) = StateOf(c, i)
    BY <1>3, <2>1, SameTable
  <2>3. StateOf(DB(p), i)' = StateOf(b, i)
    BY <2>1 DEF StateOf, TheInstance
  <2>4. QED BY <2>1, <2>2, <2>3
<1>5. Instances'
  <2>1. \A n \in Node : Hosting(n) \subseteq Partition
    BY HostedPartitions
  <2>2. ASSUME NEW n \in Node, NEW p \in Hosting(n)
        PROVE  /\ Table(copy'[n][p].process_instance)
               /\ P!Q!Keys(copy'[n][p].process_instance) \subseteq P!Q!Keys(DB(p)'.process_instance)
    BY <1>3, <2>1 DEF SameInstances, Instances
  <2>3. ASSUME NEW p \in Partition
        PROVE  /\ Cardinality(DB(p)'.process_instance) <= scenario.insts
               /\ \A q \in DB(p)'.process_instance : \E k \in 1..Cardinality(DB(p)'.process_instance) :
                     q.key = KeySpace * p + 20 * k
    BY <1>3 DEF Instances
  <2>4. QED BY <1>1, <2>2, <2>3 DEF Instances
<1>6. ASSUME NEW b, CallOK(b) PROVE CallOK(b)'
  <2>1. CASE b.locked
    <3>1. HolderOK(b)
      BY <1>6, <2>1 DEF CallOK
    <3>2. b.part \in Partition
      BY <3>1, HostedPartitions DEF HolderOK
    <3>3. Current(b)' = Current(b)
      BY DEF Current
    <3>4. StateOf(DB(b.part), b.inst)' = StateOf(DB(b.part), b.inst)
      BY <1>4, <3>2
    <3>5. copy'[b.node][b.part].process_instance = copy[b.node][b.part].process_instance
      BY <3>1 DEF HolderOK, SameInstances
    <3>6. HolderOK(b)'
      BY <1>1, <3>1, <3>3, <3>4, <3>5 DEF HolderOK
    <3>7. QED BY <1>1, <1>6, <2>1, <3>6 DEF CallOK
  <2>2. CASE ~b.locked
    BY <1>1, <1>6, <2>2 DEF CallOK
  <2>3. QED BY <2>1, <2>2
<1>7. QED BY <1>4, <1>5, <1>6

\* So a step that writes no instance only has to answer for the calls that it adds.
LEMMA CallsKept ==
    ASSUME Placement, LocksInv, UNCHANGED <<scenario, raft, elections>>, SameInstances,
           NEW new, calls' \subseteq calls \cup new, \A c \in new : CallOK(c),
           \A c \in new, b \in calls' : b.locked /\ c.locked /\ b.node = c.node /\ b.inst = c.inst => b = c
    PROVE  LocksGood
<1>1. /\ Instances'
      /\ \A b : CallOK(b) => CallOK(b)'
      /\ \A p \in Partition : \A i : StateOf(DB(p), i)' = StateOf(DB(p), i)
  BY CallsStand DEF LocksInv
<1>2. \A b \in calls' : CallOK(b)
  BY DEF LocksInv
<1>3. Exclusive'
  BY DEF LocksInv, Exclusive
<1>4. EndedStay
  BY <1>1 DEF EndedStay, Allowed, SameState
<1>5. LocksInv'
  <2>1. \A b \in calls' : CallOK(b)'
    BY <1>1, <1>2
  <2>2. (elections \in [Partition -> Nat])'
    BY DEF LocksInv
  <2>3. QED BY <1>1, <1>3, <2>1, <2>2 DEF LocksInv
<1>6. QED BY <1>4, <1>5 DEF LocksGood

\* Nothing is added.
LEMMA CallsLeft ==
    ASSUME Placement, LocksInv, UNCHANGED <<scenario, raft, elections>>, SameInstances, calls' \subseteq calls
    PROVE  LocksGood
<1> DEFINE new == {}
<1>1. /\ calls' \subseteq calls \cup new /\ \A c \in new : CallOK(c)
      /\ \A c \in new, b \in calls' : b.locked /\ c.locked /\ b.node = c.node /\ b.inst = c.inst => b = c
  OBVIOUS
<1> HIDE DEF new
<1>2. QED BY <1>1, CallsKept

\* One call is added.
LEMMA CallAdded ==
    ASSUME Placement, LocksInv, UNCHANGED <<scenario, raft, elections>>, SameInstances,
           NEW c, calls' \subseteq calls \cup {c}, CallOK(c),
           \A b \in calls \cap calls' : b.locked /\ c.locked /\ b.node = c.node /\ b.inst = c.inst => b = c
    PROVE  LocksGood
<1> DEFINE new == {c}
<1>1. /\ calls' \subseteq calls \cup new /\ \A d \in new : CallOK(d)
      /\ \A d \in new, b \in calls' : b.locked /\ d.locked /\ b.node = d.node /\ b.inst = d.inst => b = d
  OBVIOUS
<1> HIDE DEF new
<1>2. QED BY <1>1, CallsKept

\* The same when nothing is written.
LEMMA NothingSaved ==
    ASSUME Placement, Replicas, UNCHANGED <<placement, copy>>
    PROVE  SameInstances /\ UNCHANGED <<scenario, raft, elections>>
BY DEF SameInstances, placement

\* One database is written, but not its table of instances.
LEMMA OthersWritten ==
    ASSUME Placement, Replicas, NEW m, NEW q, NEW x, copy' = [copy EXCEPT ![m][q] = x],
           m \in Node /\ q \in Hosting(m) => x.process_instance = copy[m][q].process_instance
    PROVE  SameInstances
<1>1. ASSUME NEW n \in Node, NEW p \in Hosting(n)
      PROVE  copy'[n][p].process_instance = copy[n][p].process_instance
  <2>1. copy'[n][p] = IF n = m /\ p = q THEN x ELSE copy[n][p]
    BY DEF Replicas
  <2>2. QED BY <2>1
<1>2. QED BY <1>1 DEF SameInstances

-----------------------------------------------------------------------------
(* The rows of a batch *)

\* Statements that save no instance, or only instance i.
AboutOnly(s, i) == s.q = "SaveProcessInstance" => s.row.key = i

\* The saved instances of a sequence, by the set that its statements are from.
LEMMA SavesOver ==
    ASSUME NEW S, NEW u, u \in Seq(S), NEW i
    PROVE  /\ (\A s \in S : AboutOnly(s, i)) => Saves(u, i)
           /\ (\A s \in S : s.q # "SaveProcessInstance") => SavesOf(u) = {}
           /\ \A V : (\A s \in S : s.row.state \in V) => SavesIn(u, V)
<1>1. \A n \in DOMAIN u : u[n] \in S
  OBVIOUS
<1>2. QED BY <1>1 DEF AboutOnly, Saves, SavesOf, SavesIn

\* Up to four statements in a row.
LEMMA FewSaves ==
    ASSUME NEW i
    PROVE  /\ SavesOf(<<>>) = {} /\ Saves(<<>>, i)
           /\ \A a : AboutOnly(a, i) => Saves(<<a>>, i)
           /\ \A a : a.q # "SaveProcessInstance" => SavesOf(<<a>>) = {}
           /\ \A a, V : a.row.state \in V => SavesIn(<<a>>, V)
           /\ \A a, b : AboutOnly(a, i) /\ AboutOnly(b, i) => Saves(<<a, b>>, i)
           /\ \A a, b, c : AboutOnly(a, i) /\ AboutOnly(b, i) /\ AboutOnly(c, i) => Saves(<<a, b, c>>, i)
           /\ \A a, b, c, d : AboutOnly(a, i) /\ AboutOnly(b, i) /\ AboutOnly(c, i) /\ AboutOnly(d, i)
                                 => Saves(<<a, b, c, d>>, i)
<1>1. SavesOf(<<>>) = {} /\ Saves(<<>>, i)
  BY DEF SavesOf, Saves
<1>2. ASSUME NEW a
      PROVE  /\ AboutOnly(a, i) => Saves(<<a>>, i)
             /\ a.q # "SaveProcessInstance" => SavesOf(<<a>>) = {}
             /\ \A V : a.row.state \in V => SavesIn(<<a>>, V)
  <2> DEFINE u == <<a>>
  <2>1. DOMAIN u = {1} /\ u[1] = a
    OBVIOUS
  <2> HIDE DEF u
  <2>2. /\ AboutOnly(a, i) => Saves(u, i)
        /\ a.q # "SaveProcessInstance" => SavesOf(u) = {}
        /\ \A V : a.row.state \in V => SavesIn(u, V)
    BY <2>1 DEF AboutOnly, Saves, SavesOf, SavesIn
  <2>3. QED BY <2>2 DEF u
<1>3. ASSUME NEW a, NEW b, AboutOnly(a, i), AboutOnly(b, i) PROVE Saves(<<a, b>>, i)
  <2> DEFINE u == <<a, b>>
  <2>1. DOMAIN u = {1, 2} /\ u[1] = a /\ u[2] = b
    OBVIOUS
  <2> HIDE DEF u
  <2>2. Saves(u, i)
    BY <1>3, <2>1 DEF AboutOnly, Saves, SavesOf
  <2>3. QED BY <2>2 DEF u
<1>4. ASSUME NEW a, NEW b, NEW c, AboutOnly(a, i), AboutOnly(b, i), AboutOnly(c, i)
      PROVE  Saves(<<a, b, c>>, i)
  <2> DEFINE u == <<a, b, c>>
  <2>1. DOMAIN u = {1, 2, 3} /\ u[1] = a /\ u[2] = b /\ u[3] = c
    OBVIOUS
  <2> HIDE DEF u
  <2>2. Saves(u, i)
    BY <1>4, <2>1 DEF AboutOnly, Saves, SavesOf
  <2>3. QED BY <2>2 DEF u
<1>5. ASSUME NEW a, NEW b, NEW c, NEW d, AboutOnly(a, i), AboutOnly(b, i), AboutOnly(c, i), AboutOnly(d, i)
      PROVE  Saves(<<a, b, c, d>>, i)
  <2> DEFINE u == <<a, b, c, d>>
  <2>1. DOMAIN u = {1, 2, 3, 4} /\ u[1] = a /\ u[2] = b /\ u[3] = c /\ u[4] = d
    OBVIOUS
  <2> HIDE DEF u
  <2>2. Saves(u, i)
    BY <1>5, <2>1 DEF AboutOnly, Saves, SavesOf
  <2>3. QED BY <2>2 DEF u
<1>6. QED BY <1>1, <1>2, <1>3, <1>4, <1>5

\* One batch after another.
LEMMA JoinedSaves ==
    ASSUME NEW u, NEW v, NEW S, NEW T, u \in Seq(S), v \in Seq(T), NEW i, Saves(u, i), Saves(v, i)
    PROVE  Saves(u \o v, i)
<1>1. u \in Seq(S \cup T) /\ v \in Seq(S \cup T) /\ Len(u) \in Nat /\ Len(v) \in Nat
  OBVIOUS
<1> DEFINE w == u \o v
<1>2. DOMAIN u = 1..Len(u) /\ DOMAIN v = 1..Len(v) /\ DOMAIN w = 1..(Len(u) + Len(v))
  BY <1>1
<1>3. \A n \in DOMAIN w : w[n] = IF n <= Len(u) THEN u[n] ELSE v[n - Len(u)]
  BY <1>1
<1> HIDE DEF w
<1>4. ASSUME NEW n \in DOMAIN w, w[n].q = "SaveProcessInstance" PROVE w[n].row.key = i
  <2>1. CASE n <= Len(u)
    <3>1. n \in DOMAIN u /\ w[n] = u[n]
      BY <1>1, <1>2, <1>3, <2>1
    <3>2. QED BY <1>4, <3>1 DEF Saves, SavesOf
  <2>2. CASE ~(n <= Len(u))
    <3>1. n - Len(u) \in DOMAIN v /\ w[n] = v[n - Len(u)]
      BY <1>1, <1>2, <1>3, <2>2
    <3>2. QED BY <1>4, <3>1 DEF Saves, SavesOf
  <2>3. QED BY <2>1, <2>2
<1>5. Saves(w, i)
  BY <1>4 DEF Saves, SavesOf
<1>6. QED BY <1>5 DEF w

\* The instance that is saved is the one that was read.
LEMMA SaveInstanceResult ==
    ASSUME NEW b, Table(b.process_instance), NEW i \in P!Q!Keys(b.process_instance), NEW s
    PROVE  /\ AboutOnly(SaveInstance(b, i, s), i) /\ SaveInstance(b, i, s).row.state = s
           /\ \A v : AboutOnly(P!Stmt("SaveProcessInstance", [TheInstance(b, i) EXCEPT !.variables = v]), i)
           /\ \A v : P!Stmt("SaveProcessInstance", [TheInstance(b, i) EXCEPT !.variables = v]).row.state
                        = StateOf(b, i)
<1>1. PICK r : r = TheInstance(b, i)
  OBVIOUS
<1>2. r.key = i /\ DOMAIN r = InstanceFields
  BY <1>1, TheInstanceResult DEF Table
<1>3. [r EXCEPT !.state = s].key = i /\ [r EXCEPT !.state = s].state = s
  BY <1>2 DEF InstanceFields
<1>4. \A v : [r EXCEPT !.variables = v].key = i /\ [r EXCEPT !.variables = v].state = r.state
  BY <1>2 DEF InstanceFields
<1>5. QED BY <1>1, <1>3, <1>4 DEF AboutOnly, SaveInstance, P!Stmt, StateOf

\* The other statements save no instance.
LEMMA OtherStatements ==
    ASSUME NEW i
    PROVE  /\ \A b, j, s, e : AboutOnly(SaveTokenAs(b, j, s, e), i)
           /\ \A q, r : q # "SaveProcessInstance" => AboutOnly(P!Stmt(q, r), i)
BY DEF AboutOnly, SaveTokenAs, P!Stmt

-----------------------------------------------------------------------------
(* Calls that begin *)

\* A partition that is known to the cluster state is served from a database.
LEMMA KnownPartition ==
    ASSUME Placement, Replicas, Instances, NEW k, R!N!PartitionLeader(C, R!N!S!GetPartitionId(k)) # Null
    PROVE  /\ R!N!S!GetPartitionId(k) \in Partition
           /\ Server(k) \in Node /\ R!N!S!GetPartitionId(k) \in Hosting(Server(k))
           /\ Replica(k) = copy[Server(k)][R!N!S!GetPartitionId(k)]
           /\ Database(Replica(k)) /\ Table(Replica(k).process_instance)
<1>1. R!N!S!GetPartitionId(k) \in DOMAIN leader
  BY DEF R!N!PartitionLeader, R!N!Partitions, C
<1>2. R!N!S!GetPartitionId(k) \in Partition
  BY <1>1 DEF Placement
<1>3. QED BY <1>2, HostedPartitions DEF Replica, Server, Replicas, Instances

\* A call that gets through is about such a partition.
LEMMA Served ==
    ASSUME Placement, Replicas, Instances, NEW k,
           \/ R!CompleteJob(C, k, "ok").status = 201
           \/ R!N!failJob(C, k, "ok").code = "ok"
           \/ R!ResolveIncident(C, k, "ok").status = 201
           \/ R!CancelProcessInstance(C, k, "ok").status = 204
           \/ R!VariablesUpdated(C, k, "ok").status = 204
           \/ R!VariableDeleted(C, k, "ok").status = 204
    PROVE  R!N!PartitionLeader(C, R!N!S!GetPartitionId(k)) # Null
<1>1. SUFFICES ASSUME R!N!PartitionLeader(C, R!N!S!GetPartitionId(k)) = Null PROVE FALSE
  OBVIOUS
<1>2. /\ R!N!CompleteJob(C, k, "ok").code = "cluster" /\ R!N!failJob(C, k, "ok").code = "cluster"
      /\ R!N!ResolveIncident(C, k, "ok").code = "cluster"
      /\ R!N!CancelProcessInstance(C, k, "ok").code = "cluster"
      /\ R!N!UpdateProcessInstanceVariables(C, k, "ok").code = "cluster"
      /\ R!N!DeleteProcessInstanceVariable(C, k, "ok").code = "cluster"
  BY <1>1 DEF R!N!CompleteJob, R!N!failJob, R!N!ResolveIncident, R!N!CancelProcessInstance,
     R!N!UpdateProcessInstanceVariables, R!N!ModifyProcessInstance, R!N!DeleteProcessInstanceVariable,
     R!N!OnLeader, R!N!S!Err
<1>3. ASSUME NEW r, r.code = "cluster", NEW codes, "cluster" \in DOMAIN codes, codes["cluster"] = 502, NEW s
      PROVE  R!Reply(r, s, codes).status = 502
  BY <1>3 DEF R!Reply, R!Response
<1>4. QED BY <1>2, <1>3 DEF R!CompleteJob, R!ResolveIncident, R!CancelProcessInstance,
     R!VariablesUpdated, R!VariableDeleted, R!ByKey, R!Checked, R!Cluster

\* A message goes to the partition of the subscription that its pointer names.
LEMMA MessageServed ==
    ASSUME Placement, Replicas, Instances, NEW n, NEW corr, NEW home, NEW k,
           k = (CHOOSE x \in P!FindActiveMessageSubscriptionPointer(copy[n][home], "m", corr) : TRUE).key,
           R!PublishMessage(C, n, "m", corr, home, "ok").status = 201
    PROVE  R!N!PartitionLeader(C, R!N!S!GetPartitionId(k)) # Null
<1>1. SUFFICES ASSUME R!N!PartitionLeader(C, R!N!S!GetPartitionId(k)) = Null PROVE FALSE
  OBVIOUS
<1>2. k = (CHOOSE x \in R!N!S!Q!FindMessageSubscriptionPointer(C.copy[n][home], "m", corr, "active") : TRUE).key
  BY DEF P!FindActiveMessageSubscriptionPointer, P!Q!FindMessageSubscriptionPointer,
         R!N!S!Q!FindMessageSubscriptionPointer, C
<1>3. ASSUME NEW r, r.code \in {"cluster", "technical", "notfound"} PROVE R!Reply(r, 201, R!ByKey).status # 201
  BY <1>3 DEF R!Reply, R!Response, R!ByKey
<1>4. R!N!PublishMessage(C, n, "m", corr, home, "ok").code \in {"cluster", "technical", "notfound"}
  BY <1>1, <1>2 DEF R!N!PublishMessage, R!N!OnLeader, R!N!S!Err
<1>5. QED BY <1>3, <1>4 DEF R!PublishMessage

\* A call that locks an instance which has not ended.
LEMMA CallBegins ==
    ASSUME Placement, Replicas, LocksInv, NEW n \in Node, NEW p \in Hosting(n), NEW i,
           i \in P!Q!Keys(copy[n][p].process_instance), StateOf(copy[n][p], i) \notin EndedStates,
           NEW rows, Saves(rows, i), NEW then, Begin(Batch(n, i, rows, then))
    PROVE  LocksGood
<1>1. PICK b : b = Batch(n, i, rows, then)
  OBVIOUS
<1>2. /\ b.node = n /\ b.part = R!N!S!GetPartitionId(i) /\ b.inst = i /\ b.pc # "run"
      /\ b.term = elections[R!N!S!GetPartitionId(i)] /\ b.from = "call" /\ b.locked
      /\ b.then = then /\ b.stmts = rows
  BY <1>1, BatchFields
<1>3. R!N!S!GetPartitionId(i) = p /\ p \in Partition
  BY InstancePartition DEF LocksInv
<1>4. CallOK(b)
  BY <1>2, <1>3, HolderBegins DEF LocksInv
<1>5. /\ calls' = calls \cup {b} /\ UNCHANGED <<placement, copy>>
      /\ ~(b.locked /\ Locked(b.node, b.inst))
  BY <1>1 DEF Begin
<1>6. SameInstances /\ UNCHANGED <<scenario, raft, elections>>
  BY <1>5, NothingSaved
<1>7. \A c \in calls : ~(c.locked /\ c.node = b.node /\ c.inst = b.inst)
  BY <1>2, <1>5 DEF Locked
<1>8. QED BY <1>4, <1>5, <1>6, <1>7, CallAdded

\* The same, as the engine that serves the key k does it.
LEMMA CallServed ==
    ASSUME Placement, Replicas, LocksInv, NEW k, R!N!PartitionLeader(C, R!N!S!GetPartitionId(k)) # Null,
           NEW i, NewEngineBatch(Replica(k), i), NEW rows, Saves(rows, i), NEW then,
           Begin(Batch(Server(k), i, rows, then))
    PROVE  LocksGood
<1>1. /\ Server(k) \in Node /\ R!N!S!GetPartitionId(k) \in Hosting(Server(k))
      /\ Replica(k) = copy[Server(k)][R!N!S!GetPartitionId(k)]
      /\ Table(Replica(k).process_instance)
  BY KnownPartition DEF LocksInv
<1>2. i \in P!Q!Keys(Replica(k).process_instance) /\ StateOf(Replica(k), i) \notin EndedStates
  BY <1>1, BatchFinds
<1>3. PICK n, p : n = Server(k) /\ p = R!N!S!GetPartitionId(k)
  OBVIOUS
<1>4. n \in Node /\ p \in Hosting(n) /\ Replica(k) = copy[n][p]
  BY <1>1, <1>3
<1>5. QED BY <1>2, <1>3, <1>4, CallBegins

\* A call that locks nothing.
LEMMA UnlockedCall ==
    ASSUME elections \in [Partition -> Nat], NEW b, ~b.locked, b.part = R!N!S!GetPartitionId(b.inst),
           b.pc = "run" => b.node \in Node /\ b.part \in Hosting(b.node), b.from # "run",
           b.part \in Partition => b.term \in Nat /\ b.term <= elections[b.part],
           SavesOf(b.stmts) = {}, b.then # "run"
    PROVE  CallOK(b)
BY DEF CallOK

\* A job is completed: the token and the job are saved, and no instance.
LEMMA CompleteJobKeeps ==
    ASSUME Placement, Replicas, LocksInv, NEW k, CompleteJob(k)
    PROVE  LocksGood
<1>1. PICK j \in OpenJobs(k) :
         Begin(Batch(Server(k), j.inst,
            <<P!Stmt("UpdateOutputFlowElementInstance", FlowElement(k, j.inst, 1)),
              SaveTokenAs(Replica(k), j.inst, "running", 2),
              P!Stmt("SaveJob", [j EXCEPT !.state = "completed"])>>, "run"))
  BY DEF CompleteJob
<1>2. PICK i : i = j.inst
  OBVIOUS
<1>3. NewEngineBatch(Replica(k), i)
  BY <1>2 DEF OpenJobs
<1> DEFINE x == P!Stmt("UpdateOutputFlowElementInstance", FlowElement(k, j.inst, 1))
           y == SaveTokenAs(Replica(k), j.inst, "running", 2)
           z == P!Stmt("SaveJob", [j EXCEPT !.state = "completed"])
           rows == <<x, y, z>>
<1>4. AboutOnly(x, i) /\ AboutOnly(y, i) /\ AboutOnly(z, i)
  BY OtherStatements
<1>5. Begin(Batch(Server(k), i, rows, "run"))
  BY <1>1, <1>2
<1> HIDE DEF x, y, z
<1>6. Saves(rows, i)
  BY <1>4, FewSaves
<1> HIDE DEF rows
<1>7. R!N!PartitionLeader(C, R!N!S!GetPartitionId(k)) # Null
  BY Served DEF CompleteJob, LocksInv
<1>8. QED BY <1>3, <1>5, <1>6, <1>7, CallServed

\* A job is failed: so is its instance, which had not ended.
LEMMA FailJobKeeps ==
    ASSUME Placement, Replicas, LocksInv, NEW k, FailJob(k)
    PROVE  LocksGood
<1> DEFINE db == Replica(k)
<1>1. PICK j \in OpenJobs(k) :
         Begin(Batch(Server(k), j.inst,
            <<P!Stmt("SaveJob", [j EXCEPT !.state = "failed"]),
              SaveTokenAs(db, j.inst, "failed", 1),
              SaveInstance(db, j.inst, "failed"),
              P!Stmt("SaveIncident", Incident(db, Server(k), j.inst))>>, "none"))
  BY DEF FailJob
<1>2. PICK i : i = j.inst
  OBVIOUS
<1>3. NewEngineBatch(db, i)
  BY <1>2 DEF OpenJobs
<1>4. R!N!PartitionLeader(C, R!N!S!GetPartitionId(k)) # Null
  BY Served DEF FailJob, LocksInv
<1>5. Table(db.process_instance)
  BY <1>4, KnownPartition DEF LocksInv
<1> DEFINE w == P!Stmt("SaveJob", [j EXCEPT !.state = "failed"])
           x == SaveTokenAs(db, j.inst, "failed", 1)
           y == SaveInstance(db, i, "failed")
           z == P!Stmt("SaveIncident", Incident(db, Server(k), j.inst))
           rows == <<w, x, y, z>>
<1>6. AboutOnly(w, i) /\ AboutOnly(x, i) /\ AboutOnly(z, i)
  BY OtherStatements
<1>7. AboutOnly(y, i)
  BY <1>3, <1>5, BatchFinds, SaveInstanceResult
<1>8. Begin(Batch(Server(k), i, rows, "none"))
  BY <1>1, <1>2
<1> HIDE DEF w, x, y, z
<1>9. Saves(rows, i)
  BY <1>6, <1>7, FewSaves
<1> HIDE DEF rows
<1>10. QED BY <1>3, <1>4, <1>8, <1>9, CallServed

\* A job is assigned without a lock, and no instance is saved.
LEMMA AssignJobKeeps ==
    ASSUME Placement, Replicas, LocksInv, NEW k, AssignJob(k)
    PROVE  LocksGood
<1> DEFINE Begun(j) ==
              Begin([Batch(Server(k), j.inst, <<P!Stmt("SaveJob", [j EXCEPT !.assignee = "user"])>>, "none")
                        EXCEPT !.locked = FALSE])
<1>0. \E j \in {Row(q) : q \in P!FindJobByJobKey(Replica(k), k) \ {P!Error}} : Begun(j)
  BY Zenon DEF AssignJob
<1> HIDE DEF Begun
<1>1. PICK j : Begun(j)
  BY <1>0
<1> DEFINE x == P!Stmt("SaveJob", [j EXCEPT !.assignee = "user"])
           rows == <<x>>
<1>2. PICK c : c = Batch(Server(k), j.inst, rows, "none")
  OBVIOUS
<1>3. PICK b : b = [c EXCEPT !.locked = FALSE]
  OBVIOUS
<1>4. Begin(b)
  BY <1>1, <1>2, <1>3 DEF Begun
<1>5. x.q # "SaveProcessInstance"
  BY DEF P!Stmt
<1> HIDE DEF x
<1>6. SavesOf(rows) = {}
  BY <1>5, FewSaves
<1> HIDE DEF rows
<1>7. /\ DOMAIN c = {"node", "part", "inst", "pc", "term", "from", "locked", "then", "ptr", "stmts"}
      /\ c.part = R!N!S!GetPartitionId(c.inst) /\ c.pc # "run"
      /\ c.term = elections[c.part] /\ c.from = "call" /\ c.then = "none" /\ c.stmts = rows
  BY <1>2, BatchFields
<1>8. /\ b.part = R!N!S!GetPartitionId(b.inst) /\ b.pc # "run" /\ ~b.locked
      /\ b.term = elections[b.part] /\ b.from = "call" /\ b.then = "none" /\ b.stmts = rows
  BY <1>3, <1>7
<1>9. CallOK(b)
  <2>1. b.part \in Partition => b.term \in Nat /\ b.term <= elections[b.part]
    BY <1>8 DEF LocksInv
  <2>2. QED BY <1>6, <1>8, <2>1, UnlockedCall DEF LocksInv
<1>10. calls' = calls \cup {b} /\ UNCHANGED <<placement, copy>>
  BY <1>4 DEF Begin
<1>11. SameInstances /\ UNCHANGED <<scenario, raft, elections>>
  BY <1>10, NothingSaved
<1>12. QED BY <1>8, <1>9, <1>10, <1>11, CallAdded

\* Queries of engines that save no instance.
LEMMA OtherQueries == {"SaveJob", "SaveMessageSubscription", "SaveToken"} \subseteq EngineQueries \ {"SaveProcessInstance"}
BY DEF EngineQueries

\* Statements of a set, in some order, that all save another table.
LEMMA SavedRows ==
    ASSUME NEW S, IsFiniteSet(S), NEW q \in EngineQueries \ {"SaveProcessInstance"},
           NEW f, f = [x \in S |-> f[x]],
           NEW T, T = {P!Stmt(q, f[x]) : x \in S}, NEW i
    PROVE  SetToSeq(T) \in Seq(T) /\ Saves(SetToSeq(T), i)
<1> DEFINE g == [x \in S |-> P!Stmt(q, f[x])]
<1>1. T = {g[x] : x \in S}
  OBVIOUS
<1>2. \A s \in T : AboutOnly(s, i)
  BY OtherStatements
<1>3. DOMAIN g = S /\ g = [x \in S |-> g[x]]
  OBVIOUS
<1> HIDE DEF g
<1>4. IsFiniteSet(T)
  BY <1>1, <1>3, ImageIsFinite
<1>5. SetToSeq(T) \in Seq(T)
  BY <1>4, SetToSeqResult
<1>6. QED BY <1>2, <1>5, SavesOver

\* An incident is resolved: the batch saves no instance.
LEMMA ResolveIncidentKeeps ==
    ASSUME Placement, Replicas, LocksInv, NEW k, ResolveIncident(k)
    PROVE  LocksGood
<1> DEFINE db == Replica(k)
           jobs(x) == {Row(q) : q \in P!FindPendingProcessInstanceJobs(db, x.inst)}
           open(x) == {P!Stmt("SaveJob", [j EXCEPT !.state = "active"]) : j \in jobs(x)}
<1>1. PICK x :
         /\ NewEngineBatch(db, x.inst)
         /\ Begin(Batch(Server(k), x.inst,
              <<P!Stmt("SaveIncident", [Row(x) EXCEPT !.resolved_at = 1])>> \o SetToSeq(open(x))
              \o <<SaveTokenAs(db, x.inst, IF jobs(x) = {} THEN "running" ELSE "waiting", 1)>>, "run"))
  BY DEF ResolveIncident
<1>2. R!N!PartitionLeader(C, R!N!S!GetPartitionId(k)) # Null
  BY Served DEF ResolveIncident, LocksInv
<1>3. Database(db)
  BY <1>2, KnownPartition DEF LocksInv
<1>4. PICK i : i = x.inst
  OBVIOUS
<1> DEFINE S == jobs(x)
           f == [j \in S |-> [j EXCEPT !.state = "active"]]
           T == open(x)
<1>5. IsFiniteSet(S)
  BY <1>3, PendingJobsAreFinite
<1> HIDE DEF S
<1>6. T = {P!Stmt("SaveJob", f[j]) : j \in S} /\ f = [j \in S |-> f[j]]
  BY DEF S
<1> HIDE DEF f, T
<1>7. SetToSeq(T) \in Seq(T) /\ Saves(SetToSeq(T), i)
  BY <1>5, <1>6, SavedRows, OtherQueries
<1> DEFINE a == P!Stmt("SaveIncident", [Row(x) EXCEPT !.resolved_at = 1])
           c == SaveTokenAs(db, x.inst, IF jobs(x) = {} THEN "running" ELSE "waiting", 1)
           u == <<a>>
           v == SetToSeq(T)
           w == <<c>>
           rows == u \o v \o w
<1>8. AboutOnly(a, i) /\ AboutOnly(c, i)
  BY OtherStatements
<1>9. Begin(Batch(Server(k), i, rows, "run"))
  BY <1>1, <1>4 DEF T
<1> HIDE DEF a, c
<1>10. Saves(u, i) /\ Saves(w, i) /\ u \in Seq({a}) /\ w \in Seq({c})
  <2>1. Saves(u, i) /\ Saves(w, i)
    BY <1>8, FewSaves
  <2>2. u \in Seq({a}) /\ w \in Seq({c})
    OBVIOUS
  <2> HIDE DEF u, w
  <2>3. QED BY <2>1, <2>2
<1>11. v \in Seq(T) /\ Saves(v, i)
  BY <1>7
<1> HIDE DEF u, v, w
<1>12. Saves(u \o v, i) /\ u \o v \in Seq({a} \cup T)
  <2>1. Saves(u \o v, i)
    BY <1>10, <1>11, JoinedSaves
  <2>2. u \in Seq({a} \cup T) /\ v \in Seq({a} \cup T)
    BY <1>10, <1>11
  <2>3. QED BY <2>1, <2>2
<1>13. Saves(rows, i)
  BY <1>10, <1>12, JoinedSaves
<1> HIDE DEF rows
<1>14. NewEngineBatch(db, i)
  BY <1>1, <1>4
<1>15. QED BY <1>2, <1>9, <1>13, <1>14, CallServed

\* An instance is cancelled: it is active or failed where it was read.
LEMMA CancelProcessInstanceKeeps ==
    ASSUME Placement, Replicas, LocksInv, NEW i, CancelProcessInstance(i)
    PROVE  LocksGood
<1> DEFINE db == Replica(i)
           J == P!Q!FindProcessInstanceJobsInState(db, i, {"completing", "active", "failed"})
           M == P!Q!FindProcessInstanceMessageSubscriptions(db, i, "active")
           K == P!GetActiveTokensForProcessInstance(db, i)
           jobs == {P!Stmt("SaveJob", j) : j \in {[r EXCEPT !.state = "terminated"] : r \in J}}
           subs == {P!Stmt("SaveMessageSubscription", s) : s \in {[r EXCEPT !.state = "terminated"] : r \in M}}
           toks == {P!Stmt("SaveToken", [t EXCEPT !.state = "canceled"]) : t \in K}
           c == SaveInstance(db, i, "terminated")
           t == SetToSeq(jobs)
           u == SetToSeq(subs)
           v == SetToSeq(toks)
           w == <<c>>
           rows == t \o u \o v \o w
<1>1. Begin(Batch(Server(i), i, rows, "none"))
  BY DEF CancelProcessInstance
<1>2. R!N!PartitionLeader(C, R!N!S!GetPartitionId(i)) # Null
  BY Served DEF CancelProcessInstance, LocksInv
<1>3. Database(db) /\ Table(db.process_instance)
  BY <1>2, KnownPartition DEF LocksInv
<1>4. NewEngineBatch(db, i)
  BY DEF CancelProcessInstance, NewEngineBatch
<1>5. AboutOnly(c, i)
  BY <1>3, <1>4, BatchFinds, SaveInstanceResult
<1>6. IsFiniteSet(db.job) /\ IsFiniteSet(db.message_subscription) /\ IsFiniteSet(db.execution_token)
  BY <1>3 DEF Database, Sound, P!Q!Tables
<1>7. IsFiniteSet(J) /\ IsFiniteSet(M) /\ IsFiniteSet(K)
  BY <1>6, FS_Subset DEF P!Q!FindProcessInstanceJobsInState, P!Q!FindProcessInstanceMessageSubscriptions,
     P!GetActiveTokensForProcessInstance, P!Q!GetTokensForProcessInstance
<1> HIDE DEF J, M, K
<1> DEFINE f == [r \in J |-> [r EXCEPT !.state = "terminated"]]
           g == [r \in M |-> [r EXCEPT !.state = "terminated"]]
           h == [r \in K |-> [r EXCEPT !.state = "canceled"]]
<1>8. /\ jobs = {P!Stmt("SaveJob", f[r]) : r \in J} /\ f = [r \in J |-> f[r]]
      /\ subs = {P!Stmt("SaveMessageSubscription", g[r]) : r \in M} /\ g = [r \in M |-> g[r]]
      /\ toks = {P!Stmt("SaveToken", h[r]) : r \in K} /\ h = [r \in K |-> h[r]]
  OBVIOUS
<1> HIDE DEF f, g, h, jobs, subs, toks, c
<1>9. t \in Seq(jobs) /\ Saves(t, i)
  BY <1>7, <1>8, SavedRows, OtherQueries
<1>10. u \in Seq(subs) /\ Saves(u, i)
  BY <1>7, <1>8, SavedRows, OtherQueries
<1>11. v \in Seq(toks) /\ Saves(v, i)
  BY <1>7, <1>8, SavedRows, OtherQueries
<1>12. w \in Seq({c}) /\ Saves(w, i)
  BY <1>5, FewSaves
<1> HIDE DEF t, u, v, w
<1>13. Saves(t \o u, i) /\ t \o u \in Seq(jobs \cup subs)
  <2>1. Saves(t \o u, i)
    BY <1>9, <1>10, JoinedSaves
  <2>2. t \in Seq(jobs \cup subs) /\ u \in Seq(jobs \cup subs)
    BY <1>9, <1>10
  <2>3. QED BY <2>1, <2>2
<1> DEFINE tu == t \o u
           two == jobs \cup subs
<1>14. Saves(tu, i) /\ tu \in Seq(two)
  BY <1>13
<1> HIDE DEF tu, two
<1>15. Saves(tu \o v, i) /\ tu \o v \in Seq(two \cup toks)
  <2>1. Saves(tu \o v, i)
    BY <1>11, <1>14, JoinedSaves
  <2>2. tu \in Seq(two \cup toks) /\ v \in Seq(two \cup toks)
    BY <1>11, <1>14
  <2>3. QED BY <2>1, <2>2
<1> DEFINE tuv == tu \o v
           three == two \cup toks
<1>16. Saves(tuv, i) /\ tuv \in Seq(three)
  BY <1>15
<1> HIDE DEF tuv, three
<1>17. Saves(tuv \o w, i)
  BY <1>12, <1>16, JoinedSaves
<1>18. Saves(rows, i)
  BY <1>17 DEF tuv, tu
<1> HIDE DEF rows
<1>19. QED BY <1>1, <1>2, <1>4, <1>18, CallServed

\* A message is published: the batch saves no instance.
LEMMA PublishMessageKeeps ==
    ASSUME Placement, Replicas, LocksInv, NEW n, NEW corr, PublishMessage(n, corr)
    PROVE  LocksGood
<1> DEFINE home == R!N!GetPartitionIdFromString(C, corr)
           k == (CHOOSE x \in P!FindActiveMessageSubscriptionPointer(copy[n][home], "m", corr) : TRUE).key
           db == Replica(k)
           sub == CHOOSE q \in P!Q!GetMessageSubscriptionById(db, k, "active") : TRUE
           Begun(s) ==
              /\ NewEngineBatch(db, s.inst)
              /\ Begin(Batch(Server(s.inst), s.inst,
                    <<P!Stmt("SaveMessageSubscription", [sub EXCEPT !.state = "completed"]),
                      P!Stmt("UpdateOutputFlowElementInstance", FlowElement(k, s.inst, 1)),
                      SaveTokenAs(db, s.inst, "running", 2)>>, "run"))
<1>1. /\ R!PublishMessage(C, n, "m", corr, home, "ok").status = 201
      /\ \E s \in P!FindMessageSubscriptionById(Replica(k), k, "active") \ {P!Error} : Begun(s)
  BY Zenon DEF PublishMessage
<1> HIDE DEF Begun
<1>2. R!N!PartitionLeader(C, R!N!S!GetPartitionId(k)) # Null
  <2> HIDE DEF home
  <2>1. QED BY <1>1, MessageServed DEF LocksInv
<1> HIDE DEF k, sub
<1>3. PICK s : Begun(s)
  BY <1>1
<1>4. PICK i : i = s.inst
  OBVIOUS
<1>5. /\ Server(k) \in Node /\ R!N!S!GetPartitionId(k) \in Hosting(Server(k))
      /\ Replica(k) = copy[Server(k)][R!N!S!GetPartitionId(k)]
      /\ Table(Replica(k).process_instance)
  BY <1>2, KnownPartition DEF LocksInv
<1>6. i \in P!Q!Keys(Replica(k).process_instance)
  BY <1>3, <1>4, <1>5, BatchFinds DEF Begun
<1>7. R!N!S!GetPartitionId(i) = R!N!S!GetPartitionId(k)
  BY <1>5, <1>6, InstancePartition DEF LocksInv
<1>8. Server(i) = Server(k)
  BY <1>7 DEF Server
<1> DEFINE u == P!Stmt("SaveMessageSubscription", [sub EXCEPT !.state = "completed"])
           v == P!Stmt("UpdateOutputFlowElementInstance", FlowElement(k, s.inst, 1))
           w == SaveTokenAs(Replica(k), s.inst, "running", 2)
           rows == <<u, v, w>>
<1>9. AboutOnly(u, i) /\ AboutOnly(v, i) /\ AboutOnly(w, i)
  BY OtherStatements
<1>10. Begin(Batch(Server(k), i, rows, "run"))
  BY <1>3, <1>4, <1>8 DEF Begun
<1> HIDE DEF u, v, w
<1>11. Saves(rows, i)
  BY <1>9, FewSaves
<1> HIDE DEF rows
<1>12. NewEngineBatch(Replica(k), i)
  BY <1>3, <1>4 DEF Begun
<1>13. QED BY <1>2, <1>10, <1>11, <1>12, CallServed

\* The handlers of variables lock nothing before they call the engine.
LEMMA BeginVarsKeeps ==
    ASSUME Placement, Replicas, LocksInv, NEW i, NEW op \in {"update", "delete"}, BeginVars(i, op)
    PROVE  LocksGood
<1>1. PICK c : c = Call(Null, i, "vars")
  OBVIOUS
<1>2. PICK b : b = [c EXCEPT !.then = op]
  OBVIOUS
<1>3. Begin(b)
  BY <1>1, <1>2 DEF BeginVars
<1>4. c.locked = FALSE
  BY <1>1, CallUnlocked
<1>5. /\ DOMAIN c = {"node", "part", "inst", "pc", "term", "from", "locked", "then", "ptr", "stmts"}
      /\ c.part = R!N!S!GetPartitionId(c.inst) /\ c.pc = "vars"
      /\ c.term = elections[c.part] /\ c.from = "call" /\ c.stmts = <<>>
  BY <1>1 DEF Call
<1>6. /\ b.part = R!N!S!GetPartitionId(b.inst) /\ b.pc = "vars" /\ ~b.locked
      /\ b.term = elections[b.part] /\ b.from = "call" /\ b.then = op /\ b.stmts = <<>>
  BY <1>2, <1>4, <1>5
<1>7. CallOK(b)
  <2>1. b.part \in Partition => b.term \in Nat /\ b.term <= elections[b.part]
    BY <1>6 DEF LocksInv
  <2>2. SavesOf(b.stmts) = {}
    BY <1>6, FewSaves
  <2>3. QED BY <1>6, <2>1, <2>2, UnlockedCall DEF LocksInv
<1>8. calls' = calls \cup {b} /\ UNCHANGED <<placement, copy>>
  BY <1>3 DEF Begin
<1>9. SameInstances /\ UNCHANGED <<scenario, raft, elections>>
  BY <1>8, NothingSaved
<1>10. QED BY <1>6, <1>7, <1>8, <1>9, CallAdded

\* The second half of the handlers of variables: the instance is locked, and of
\* one that has ended the state is kept.
LEMMA VariablesKeep ==
    ASSUME Placement, Replicas, LocksInv, NEW b \in calls,
           UpdateProcessInstanceVariables(b) \/ DeleteProcessInstanceVariable(b)
    PROVE  LocksGood
<1> DEFINE db == Replica(b.inst)
<1>1. UNCHANGED <<placement, copy>>
  BY DEF UpdateProcessInstanceVariables, DeleteProcessInstanceVariable
<1>2. SameInstances /\ UNCHANGED <<scenario, raft, elections>>
  BY <1>1, NothingSaved
<1>3. CASE calls' = calls \ {b}
  BY <1>2, <1>3, CallsLeft
<1>4. ASSUME NEW v, NEW then, R!N!PartitionLeader(C, R!N!S!GetPartitionId(b.inst)) # Null,
             b.inst \in P!Q!Keys(db.process_instance), ~Locked(Server(b.inst), b.inst),
             calls' = (calls \ {b}) \cup
                {Batch(Server(b.inst), b.inst,
                       <<P!Stmt("SaveProcessInstance", [TheInstance(db, b.inst) EXCEPT !.variables = v])>>, then)}
      PROVE  LocksGood
  <2> DEFINE x == P!Stmt("SaveProcessInstance", [TheInstance(db, b.inst) EXCEPT !.variables = v])
             rows == <<x>>
             s == StateOf(db, b.inst)
  <2>1. PICK i : i = b.inst
    OBVIOUS
  <2>2. /\ Server(i) \in Node /\ R!N!S!GetPartitionId(i) \in Hosting(Server(i))
        /\ Replica(i) = copy[Server(i)][R!N!S!GetPartitionId(i)]
        /\ Table(Replica(i).process_instance)
    BY <1>4, <2>1, KnownPartition DEF LocksInv
  <2>3. AboutOnly(x, i) /\ x.row.state = s
    <3>1. PICK d : d = db
      OBVIOUS
    <3>2. Table(d.process_instance) /\ i \in P!Q!Keys(d.process_instance)
      BY <1>4, <2>1, <2>2, <3>1
    <3>3. /\ AboutOnly(P!Stmt("SaveProcessInstance", [TheInstance(d, i) EXCEPT !.variables = v]), i)
          /\ P!Stmt("SaveProcessInstance", [TheInstance(d, i) EXCEPT !.variables = v]).row.state = StateOf(d, i)
      BY <3>2, SaveInstanceResult
    <3>4. QED BY <2>1, <3>1, <3>3
  <2>4. PICK c : c = Batch(Server(i), i, rows, then)
    OBVIOUS
  <2>5. calls' = (calls \ {b}) \cup {c}
    BY <1>4, <2>1, <2>4
  <2> HIDE DEF x, s
  <2>6. Saves(rows, i) /\ SavesIn(rows, {s})
    BY <2>3, FewSaves
  <2> HIDE DEF rows
  <2>7. /\ c.node = Server(i) /\ c.part = R!N!S!GetPartitionId(i) /\ c.inst = i /\ c.pc # "run"
        /\ c.term = elections[R!N!S!GetPartitionId(i)] /\ c.from = "call" /\ c.locked
        /\ c.then = then /\ c.stmts = rows
    BY <2>4, BatchFields
  <2>8. /\ copy[c.node][c.part] = db /\ s = StateOf(copy[c.node][c.part], c.inst)
        /\ c.inst \in P!Q!Keys(copy[c.node][c.part].process_instance)
    BY <1>4, <2>1, <2>2, <2>7 DEF s
  <2>9. CallOK(c)
    BY <2>2, <2>6, <2>7, <2>8, HolderBegins DEF LocksInv
  <2>10. \A d \in calls : ~(d.locked /\ d.node = c.node /\ d.inst = c.inst)
    BY <1>4, <2>1, <2>7 DEF Locked
  <2>11. QED BY <1>2, <2>5, <2>9, <2>10, CallAdded
<1>5. CASE UpdateProcessInstanceVariables(b)
  <2> DEFINE v == TheInstance(db, b.inst).variables \cup {"b"}
  <2>1. \/ calls' = calls \ {b}
        \/ /\ R!VariablesUpdated(C, b.inst, "ok").status = 204 /\ NewEngineBatch(db, b.inst)
           /\ ~Locked(Server(b.inst), b.inst)
           /\ calls' = (calls \ {b}) \cup
                {Batch(Server(b.inst), b.inst,
                       <<P!Stmt("SaveProcessInstance", [TheInstance(db, b.inst) EXCEPT !.variables = v])>>, "run")}
    BY <1>5 DEF UpdateProcessInstanceVariables
  <2> HIDE DEF v
  <2>2. CASE R!VariablesUpdated(C, b.inst, "ok").status = 204 /\ NewEngineBatch(db, b.inst)
    <3>1. R!N!PartitionLeader(C, R!N!S!GetPartitionId(b.inst)) # Null
      BY <2>2, Served DEF LocksInv
    <3>2. b.inst \in P!Q!Keys(db.process_instance)
      BY <2>2, <3>1, KnownPartition, BatchFinds DEF LocksInv
    <3>3. QED BY <1>3, <1>4, <2>1, <3>1, <3>2
  <2>3. QED BY <1>3, <2>1, <2>2
<1>6. CASE DeleteProcessInstanceVariable(b)
  <2> DEFINE v == TheInstance(db, b.inst).variables \ {"a"}
  <2>1. \/ calls' = calls \ {b}
        \/ /\ R!VariableDeleted(C, b.inst, "ok").status = 204 /\ P!Q!GetProcessInstance(db, b.inst) # {}
           /\ ~Locked(Server(b.inst), b.inst)
           /\ calls' = (calls \ {b}) \cup
                {Batch(Server(b.inst), b.inst,
                       <<P!Stmt("SaveProcessInstance", [TheInstance(db, b.inst) EXCEPT !.variables = v])>>, "none")}
    BY <1>6 DEF DeleteProcessInstanceVariable
  <2> HIDE DEF v
  <2>2. CASE R!VariableDeleted(C, b.inst, "ok").status = 204 /\ P!Q!GetProcessInstance(db, b.inst) # {}
    <3>1. R!N!PartitionLeader(C, R!N!S!GetPartitionId(b.inst)) # Null
      BY <2>2, Served DEF LocksInv
    <3>2. b.inst \in P!Q!Keys(db.process_instance)
      BY <2>2 DEF P!Q!GetProcessInstance, P!Q!Keys
    <3>3. QED BY <1>3, <1>4, <2>1, <3>1, <3>2
  <2>3. QED BY <1>3, <2>1, <2>2
<1>7. QED BY <1>5, <1>6

-----------------------------------------------------------------------------
(* Steps that write no instance *)

\* An engine runs the instances of its tokens, which are there.
LEMMA CreateEngineKeeps ==
    ASSUME Placement, Replicas, LocksInv, NEW n \in Node, NEW p \in Partition, CreateEngine(n, p)
    PROVE  LocksGood
<1> DEFINE new == {Call(n, t.inst, "run") : t \in P!GetActiveTokens(copy[n][p])}
<1>1. /\ calls' = calls \cup new /\ UNCHANGED <<scenario, copy, raft, elections>> /\ raft[p] = n
  BY DEF CreateEngine
<1>2. p \in Hosting(n) /\ Database(copy[n][p])
  BY <1>1, HostedPartitions DEF Replicas
<1>3. ASSUME NEW t \in P!GetActiveTokens(copy[n][p])
      PROVE  CallOK(Call(n, t.inst, "run")) /\ ~Call(n, t.inst, "run").locked
  <2>1. t \in copy[n][p].execution_token
    BY DEF P!GetActiveTokens, P!Q!GetTokensInState
  <2>2. t.inst \in P!Q!Keys(copy[n][p].process_instance)
    <3>1. P!Q!References(copy[n][p])
      BY <1>2 DEF Database
    <3>2. QED BY <2>1, <3>1 DEF P!Q!References
  <2>3. PICK i : i = t.inst
    OBVIOUS
  <2>4. R!N!S!GetPartitionId(i) = p
    BY <1>2, <2>2, <2>3, InstancePartition DEF LocksInv
  <2>5. PICK c : c = Call(n, i, "run")
    OBVIOUS
  <2>6. c.locked = FALSE
    BY <2>5, CallUnlocked
  <2>7. /\ c.node = n /\ c.part = p /\ c.inst = i /\ c.pc = "run"
        /\ c.term = elections[p] /\ c.from = "call" /\ c.then = "none" /\ c.stmts = <<>>
    BY <2>4, <2>5 DEF Call
  <2>8. c.term \in Nat /\ c.term <= elections[p]
    BY <2>7 DEF LocksInv
  <2>9. SavesOf(c.stmts) = {}
    BY <2>7, FewSaves
  <2>10. CallOK(c)
    BY <1>2, <2>4, <2>6, <2>7, <2>8, <2>9, UnlockedCall DEF LocksInv
  <2>11. QED BY <2>3, <2>5, <2>6, <2>10
<1>4. /\ \A c \in new : CallOK(c)
      /\ \A c \in new, b \in calls' : b.locked /\ c.locked /\ b.node = c.node /\ b.inst = c.inst => b = c
  BY <1>3
<1>5. SameInstances
  BY <1>1 DEF SameInstances
<1> HIDE DEF new
<1>6. QED BY <1>1, <1>4, <1>5, CallsKept

\* Decisions are other tables.
LEMMA EvaluateDecisionKeeps ==
    ASSUME Placement, Replicas, LocksInv, EvaluateDecision
    PROVE  LocksGood
<1> DEFINE at(p) == KeySpace * p + 80 + Cardinality(DB(p).decision_instance)
           row(p) == [key |-> at(p), drd |-> 3, decision |-> Decision(p).key, at |-> at(p)]
           Written(m, p) ==
              copy' = [copy EXCEPT ![m][p] = P!ExecuteStatements(@, P!SaveDecisionInstance(row(p), Null))]
<1>1. \E m \in R!N!GetLeastStressedPartitionLeader(C) :
         \E p \in R!N!S!GetRandomEngine(C, m) :
           /\ raft[p] = m /\ Cardinality(DB(p).decision_instance) < scenario.insts
           /\ Written(m, p)
  BY Zenon DEF EvaluateDecision
<1> HIDE DEF Written, row
<1>2. PICK m, p : Written(m, p)
  BY <1>1
<1>3. UNCHANGED <<scenario, raft, elections, calls>>
  BY DEF EvaluateDecision, placement
<1> DEFINE rows == P!SaveDecisionInstance(row(p), Null)
<1>4. EngineStmts(rows) /\ SavesOf(rows) = {}
  <2>1. PICK r : rows = <<P!Stmt("SaveDecisionInstance", r)>>
    BY DEF P!SaveDecisionInstance
  <2> DEFINE x == P!Stmt("SaveDecisionInstance", r)
  <2>2. x.q \in EngineQueries /\ x.q # "SaveProcessInstance"
    BY StmtQuery DEF EngineQueries
  <2>3. rows = <<x>>
    BY <2>1
  <2> HIDE DEF x, rows
  <2>4. EngineStmts(rows)
    BY <2>2, <2>3, FewStmts
  <2>5. SavesOf(rows) = {}
    BY <2>2, <2>3, FewSaves
  <2>6. QED BY <2>4, <2>5
<1> HIDE DEF rows
<1> DEFINE x == P!ExecuteStatements(copy[m][p], rows)
<1>5. copy' = [copy EXCEPT ![m][p] = x]
  BY <1>2 DEF Written, rows
<1>6. m \in Node /\ p \in Hosting(m) => x.process_instance = copy[m][p].process_instance
  BY <1>4, InstancesUntouched DEF Replicas
<1> HIDE DEF x
<1>7. SameInstances
  BY <1>5, <1>6, OthersWritten
<1>8. QED BY <1>3, <1>7, CallsLeft

\* A call goes on under its lock as another one.
LEMMA CallReplaced ==
    ASSUME Placement, LocksInv, UNCHANGED <<scenario, raft, elections>>, SameInstances,
           NEW b \in calls, NEW c, calls' = (calls \ {b}) \cup {c}, CallOK(c),
           c.node = b.node, c.inst = b.inst, c.locked => b.locked
    PROVE  LocksGood
<1>1. \A d \in calls \cap calls' : d.locked /\ c.locked /\ d.node = c.node /\ d.inst = c.inst => d = c
  BY DEF LocksInv, Exclusive
<1>2. QED BY <1>1, CallAdded

\* A batch of the main loop that fails is about an instance that has not ended.
LEMMA FailedKeeps ==
    ASSUME Placement, Replicas, LocksInv, NEW b \in calls, calls' = (calls \ {b}) \cup Failed(b),
           UNCHANGED <<placement, copy>>
    PROVE  LocksGood
<1> DEFINE db == copy[b.node][b.part]
<1>1. SameInstances /\ UNCHANGED <<scenario, raft, elections>>
  BY NothingSaved
<1>2. CASE b.from # "run"
  <2>1. Failed(b) = {}
    BY <1>2 DEF Failed
  <2>2. QED BY <1>1, <2>1, CallsLeft
<1>3. CASE b.from = "run"
  <2>1. CallOK(b) /\ b.locked /\ HolderOK(b) /\ b.part = R!N!S!GetPartitionId(b.inst)
    BY <1>3 DEF LocksInv, CallOK
  <2>2. /\ b.node \in Node /\ b.part \in Hosting(b.node) /\ b.inst \in P!Q!Keys(db.process_instance)
        /\ Current(b) => StateOf(DB(b.part), b.inst) \notin EndedStates
    BY <1>3, <2>1 DEF HolderOK
  <2>3. b.part \in Partition /\ b.term \in Nat /\ b.term <= elections[b.part]
    BY <2>1, <2>2, HostedPartitions DEF CallOK
  <2>4. Table(db.process_instance)
    BY <2>2 DEF LocksInv, Instances
  <2>5. PICK i : i = b.inst
    OBVIOUS
  <2> DEFINE x == SaveTokenAs(db, i, "failed", TheToken(db, i).elem)
             y == SaveInstance(db, i, "failed")
             z == P!Stmt("SaveIncident", Incident(db, b.node, i))
             rows == <<x, y, z>>
  <2>6. AboutOnly(x, i) /\ AboutOnly(z, i)
    BY OtherStatements
  <2>7. AboutOnly(y, i)
    BY <2>2, <2>4, <2>5, SaveInstanceResult
  <2>8. PICK d : d = Batch(b.node, i, rows, "none")
    OBVIOUS
  <2>9. PICK c : c = [d EXCEPT !.term = b.term]
    OBVIOUS
  <2>10. Failed(b) = {c}
    BY <1>3, <2>5, <2>8, <2>9 DEF Failed
  <2> HIDE DEF x, y, z
  <2>11. Saves(rows, i)
    BY <2>6, <2>7, FewSaves
  <2> HIDE DEF rows
  <2>12. /\ DOMAIN d = {"node", "part", "inst", "pc", "term", "from", "locked", "then", "ptr", "stmts"}
         /\ d.node = b.node /\ d.part = R!N!S!GetPartitionId(i) /\ d.inst = i /\ d.pc # "run"
         /\ d.from = "call" /\ d.locked /\ d.stmts = rows
    BY <2>8, BatchFields
  <2>13. /\ c.node = b.node /\ c.part = b.part /\ c.inst = i /\ c.pc # "run"
         /\ c.from = "call" /\ c.locked /\ c.stmts = rows /\ c.term = b.term
    BY <2>1, <2>5, <2>9, <2>12
  <2>14. Current(c) = Current(b)
    BY <2>13 DEF Current
  <2>15. HolderOK(c)
    BY <2>2, <2>5, <2>11, <2>13, <2>14 DEF HolderOK
  <2>16. CallOK(c)
    BY <2>1, <2>3, <2>5, <2>13, <2>15 DEF CallOK
  <2>17. QED BY <1>1, <2>1, <2>5, <2>10, <2>13, <2>16, CallReplaced
<1>4. QED BY <1>2, <1>3

\* A pointer is saved, on whichever node; the call goes on to its flush or fails.
LEMMA SavePointerKeeps ==
    ASSUME Placement, Replicas, LocksInv, NEW b \in calls, SavePointer(b)
    PROVE  LocksGood
<1> DEFINE home == R!N!GetPartitionIdFromString(C, b.ptr.corr)
           n == PointerNode(b)
<1>1. UNCHANGED placement /\ UNCHANGED <<scenario, raft, elections>>
  BY DEF SavePointer, placement
<1>2. CASE /\ copy' = [copy EXCEPT ![n][home] = P!Q!SaveMessageSubscriptionPointer(@, b.ptr)]
           /\ calls' = (calls \ {b}) \cup {[b EXCEPT !.pc = "flush"]}
  <2> DEFINE x == P!Q!SaveMessageSubscriptionPointer(copy[n][home], b.ptr)
  <2>1. PICK c : c = [b EXCEPT !.pc = "flush"]
    OBVIOUS
  <2>2. copy' = [copy EXCEPT ![n][home] = x] /\ calls' = (calls \ {b}) \cup {c}
    BY <1>2, <2>1
  <2> HIDE DEF n, home
  <2>3. ASSUME n \in Node, home \in Hosting(n)
        PROVE  x.process_instance = copy[n][home].process_instance
    <3>1. PICK d : d = copy[n][home]
      OBVIOUS
    <3>2. "process_instance" \in DOMAIN d
      BY <2>3, <3>1 DEF Replicas, Database, Sound, P!Q!Tables
    <3>3. QED BY <3>1, <3>2 DEF P!Q!SaveMessageSubscriptionPointer
  <2> HIDE DEF x
  <2>4. SameInstances
    BY <2>2, <2>3, OthersWritten
  <2>5. /\ c.node = b.node /\ c.part = b.part /\ c.inst = b.inst /\ c.pc # "run"
        /\ c.from = b.from /\ c.stmts = b.stmts /\ c.term = b.term /\ c.then = b.then
        /\ c.locked = b.locked
    BY <2>1
  <2>6. CallOK(b)
    BY DEF LocksInv
  <2>7. CallOK(c)
    <3>1. CASE b.locked
      <4>1. HolderOK(b) /\ c.locked
        BY <2>5, <2>6, <3>1 DEF CallOK
      <4>2. Current(c) = Current(b)
        BY <2>5 DEF Current
      <4>3. HolderOK(c)
        BY <2>5, <4>1, <4>2 DEF HolderOK
      <4>4. QED BY <2>5, <2>6, <4>1, <4>3 DEF CallOK
    <3>2. CASE ~b.locked
      <4>1. ~c.locked
        BY <2>5, <3>2
      <4>2. QED BY <2>5, <2>6, <3>2, <4>1 DEF CallOK
    <3>3. QED BY <3>1, <3>2
  <2>8. QED BY <1>1, <2>2, <2>4, <2>5, <2>7, CallReplaced
<1>3. CASE copy' = copy /\ calls' = (calls \ {b}) \cup Failed(b)
  BY <1>1, <1>3, FailedKeeps
<1>4. QED BY <1>2, <1>3 DEF SavePointer

-----------------------------------------------------------------------------
(* Steps that write an instance *)

\* The raft leader of p flushes a batch that is about instance i.
Writes(n, p, i, u) ==
    /\ n \in Node /\ p \in Partition /\ raft[p] = n /\ i \in P!Q!Keys(copy[n][p].process_instance)
    /\ EngineStmts(u) /\ Saves(u, i)
    /\ copy' = [copy EXCEPT ![n][p] = P!ExecuteStatements(@, u)]
    /\ UNCHANGED <<scenario, raft, elections>>

\* At most the call c is added, and no other call has the lock of i on n.
Adds(n, i, c) ==
    /\ calls' \subseteq calls \cup {c} /\ (c.locked => c.node = n /\ c.inst = i)
    /\ \A d \in calls' : d = c \/ ~(d.locked /\ d.node = n /\ d.inst = i)

\* A batch about instance i is written by the raft leader: what calls know stays
\* true, except for a call of the same node about the same instance.
LEMMA Written ==
    ASSUME Placement, Replicas, Replicas', LocksInv, NEW n, NEW p, NEW i, NEW u, Writes(n, p, i, u)
    PROVE  /\ Instances' /\ P!Q!Keys(copy'[n][p].process_instance) = P!Q!Keys(copy[n][p].process_instance)
           /\ \A c : CallOK(c) /\ ~(c.locked /\ c.node = n /\ c.inst = i) => CallOK(c)'
           /\ \A q \in Partition : \A j : q # p \/ j # i => SameState(q, j)
           /\ \A V : StateOf(DB(p), i) \in V /\ SavesIn(u, V) => StateOf(DB(p), i)' \in V
<1> USE DEF Writes
<1> DEFINE b == copy[n][p]
           x == P!ExecuteStatements(b, u)
<1>1. p \in Hosting(n) /\ b = DB(p) /\ Database(b) /\ Table(b.process_instance)
  BY HostedPartitions DEF Replicas, LocksInv, Instances, DB
<1>2. \A V : StateOf(b, i) \in V /\ SavesIn(u, V) =>
         /\ Table(x.process_instance)
         /\ P!Q!Keys(x.process_instance) = P!Q!Keys(b.process_instance)
         /\ \A j : j # i => P!Q!GetProcessInstance(x, j) = P!Q!GetProcessInstance(b, j)
         /\ StateOf(x, i) \in V
  <2> HIDE DEF b, x
  <2>1. i \in P!Q!Keys(b.process_instance) /\ x = P!ExecuteStatements(b, u)
    BY DEF b, x
  <2>2. QED BY <1>1, <2>1, InstanceBatch
<1>3. copy' = [copy EXCEPT ![n][p] = x]
  OBVIOUS
<1> HIDE DEF x
<1>4. \A m \in Node : \A q \in Hosting(m) : copy'[m][q] = IF m = n /\ q = p THEN x ELSE copy[m][q]
  BY <1>3 DEF Replicas
<1>5. DB(p)' = x /\ \A q \in Partition : q # p => DB(q)' = DB(q)
  BY <1>1, <1>4, HostedPartitions DEF DB
<1>6. /\ Table(x.process_instance)
      /\ P!Q!Keys(x.process_instance) = P!Q!Keys(b.process_instance)
      /\ \A j : j # i => P!Q!GetProcessInstance(x, j) = P!Q!GetProcessInstance(b, j)
  <2> DEFINE V == {StateOf(b, i)} \cup {u[m].row.state : m \in SavesOf(u)}
  <2>1. StateOf(b, i) \in V /\ SavesIn(u, V)
    BY DEF SavesIn
  <2> HIDE DEF V
  <2>2. QED BY <1>2, <2>1
<1>7. \A n1 : Hosting(n1)' = Hosting(n1)
  BY DEF Hosting
<1>8. \A j : j # i => StateOf(x, j) = StateOf(b, j)
  BY <1>6 DEF StateOf, TheInstance
<1>9. ASSUME NEW q \in Partition, NEW j, q # p \/ j # i PROVE SameState(q, j)
  <2>1. StateOf(DB(q), j)' = StateOf(DB(q)', j)
    BY DEF StateOf, TheInstance
  <2>2. QED BY <1>1, <1>5, <1>8, <1>9, <2>1 DEF SameState
<1>10. ASSUME NEW V, StateOf(DB(p), i) \in V, SavesIn(u, V) PROVE StateOf(DB(p), i)' \in V
  <2>1. StateOf(DB(p), i)' = StateOf(x, i)
    BY <1>5 DEF StateOf, TheInstance
  <2>2. QED BY <1>1, <1>2, <1>10, <2>1
<1>11. Instances'
  <2>1. \A m \in Node : Hosting(m) \subseteq Partition
    BY HostedPartitions
  <2>2. ASSUME NEW m \in Node, NEW q \in Hosting(m)
        PROVE  /\ Table(copy'[m][q].process_instance)
               /\ P!Q!Keys(copy'[m][q].process_instance) \subseteq P!Q!Keys(DB(q)'.process_instance)
    <3>1. /\ Table(copy[m][q].process_instance)
          /\ P!Q!Keys(copy[m][q].process_instance) \subseteq P!Q!Keys(DB(q).process_instance)
      BY DEF LocksInv, Instances
    <3>2. P!Q!Keys(DB(q)'.process_instance) = P!Q!Keys(DB(q).process_instance)
      BY <1>1, <1>5, <1>6, <2>1
    <3>3. copy'[m][q] = IF m = n /\ q = p THEN x ELSE copy[m][q]
      BY <1>4
    <3>4. CASE m = n /\ q = p
      BY <1>5, <1>6, <3>3, <3>4
    <3>5. CASE ~(m = n /\ q = p)
      <4>1. copy'[m][q] = copy[m][q]
        BY <3>3, <3>5
      <4>2. QED BY <3>1, <3>2, <4>1
    <3>6. QED BY <3>4, <3>5
  <2>3. ASSUME NEW q \in Partition
        PROVE  /\ Cardinality(DB(q)'.process_instance) <= scenario.insts
               /\ \A r \in DB(q)'.process_instance : \E k \in 1..Cardinality(DB(q)'.process_instance) :
                     r.key = KeySpace * q + 20 * k
    <3>1. CASE q # p
      BY <1>5, <3>1 DEF LocksInv, Instances
    <3>2. CASE q = p
      <4>1. IsFiniteSet(x.process_instance) /\ IsFiniteSet(b.process_instance)
        <5>1. Database(x)
          BY <1>1, <1>4, <1>7 DEF Replicas
        <5>2. QED BY <1>1, <5>1 DEF Database, Sound, P!Q!Tables
      <4>2. Cardinality(x.process_instance) = Cardinality(b.process_instance)
        BY <1>1, <1>6, <4>1, TableSize
      <4>3. \A r \in x.process_instance : \E s \in b.process_instance : r.key = s.key
        BY <1>6 DEF P!Q!Keys
      <4>4. /\ Cardinality(b.process_instance) <= scenario.insts
            /\ \A r \in b.process_instance : \E k \in 1..Cardinality(b.process_instance) :
                  r.key = KeySpace * p + 20 * k
        BY <1>1 DEF LocksInv, Instances
      <4>5. QED BY <1>5, <3>2, <4>2, <4>3, <4>4
    <3>3. QED BY <3>1, <3>2
  <2>4. QED BY <1>7, <2>2, <2>3 DEF Instances
<1>12. ASSUME NEW c, CallOK(c), ~(c.locked /\ c.node = n /\ c.inst = i) PROVE CallOK(c)'
  <2>1. CASE ~c.locked
    BY <1>7, <1>12, <2>1 DEF CallOK
  <2>2. CASE c.locked
    <3>1. HolderOK(c) /\ c.part = R!N!S!GetPartitionId(c.inst)
      BY <1>12, <2>2 DEF CallOK
    <3>2. c.part \in Partition /\ c.node \in Node /\ c.part \in Hosting(c.node)
      BY <3>1, HostedPartitions DEF HolderOK
    <3>3. c.inst \in P!Q!Keys(copy'[c.node][c.part].process_instance)
      <4>1. c.inst \in P!Q!Keys(copy[c.node][c.part].process_instance)
        BY <3>1 DEF HolderOK
      <4>2. copy'[c.node][c.part] = IF c.node = n /\ c.part = p THEN x ELSE copy[c.node][c.part]
        BY <1>4, <3>2
      <4>3. CASE c.node = n /\ c.part = p
        BY <1>6, <4>1, <4>2, <4>3
      <4>4. CASE ~(c.node = n /\ c.part = p)
        BY <4>1, <4>2, <4>4
      <4>5. QED BY <4>3, <4>4
    <3>4. Current(c)' = Current(c)
      BY DEF Current
    <3>5. Current(c) => StateOf(DB(c.part), c.inst)' = StateOf(DB(c.part), c.inst)
      BY <1>9, <1>12, <2>2, <3>2 DEF Current, SameState
    <3>6. HolderOK(c)'
      BY <1>7, <3>1, <3>3, <3>4, <3>5 DEF HolderOK
    <3>7. QED BY <1>7, <1>12, <2>2, <3>6 DEF CallOK
  <2>3. QED BY <2>1, <2>2
<1>13. P!Q!Keys(copy'[n][p].process_instance) = P!Q!Keys(b.process_instance)
  BY <1>1, <1>4, <1>6
<1>14. QED BY <1>9, <1>10, <1>11, <1>12, <1>13

\* So such a step has to answer for the instance and for the calls that it adds.
LEMMA WrittenKeeps ==
    ASSUME Placement, Replicas, Replicas', LocksInv, NEW n, NEW p, NEW i, NEW u, Writes(n, p, i, u),
           NEW c, Adds(n, i, c), CallOK(c)', Allowed(p, i)
    PROVE  LocksGood
<1>1. /\ Instances'
      /\ \A d : CallOK(d) /\ ~(d.locked /\ d.node = n /\ d.inst = i) => CallOK(d)'
      /\ \A q \in Partition : \A j : q # p \/ j # i => SameState(q, j)
  <2>1. Instances'
    BY Written
  <2>2. \A d : CallOK(d) /\ ~(d.locked /\ d.node = n /\ d.inst = i) => CallOK(d)'
    BY Written
  <2>3. \A q \in Partition : \A j : q # p \/ j # i => SameState(q, j)
    BY Written
  <2>4. QED BY <2>1, <2>2, <2>3
<1>2. \A d \in calls' : CallOK(d)'
  BY <1>1 DEF LocksInv, Adds
<1>3. Exclusive'
  BY DEF LocksInv, Exclusive, Adds
<1>4. EndedStay
  <2>1. ASSUME NEW q \in Partition, NEW j PROVE Allowed(q, j)
    BY <1>1 DEF Allowed
  <2>2. QED BY <2>1 DEF EndedStay
<1>5. LocksInv'
  <2>1. (elections \in [Partition -> Nat])'
    BY DEF LocksInv, Writes
  <2>2. QED BY <1>1, <1>2, <1>3, <2>1 DEF LocksInv
<1>6. QED BY <1>4, <1>5 DEF LocksGood

\* What processing a token saves is about its instance.
LEMMA ProcessedSaves ==
    ASSUME NEW db, Table(db.process_instance), NEW i \in P!Q!Keys(db.process_instance), NEW n
    PROVE  Saves(Processed(db, n, i), i)
<1> DEFINE k == WaitKey(db, n, i)
           r == TheInstance(db, i)
           a == P!Stmt("SaveFlowElementInstance", FlowElement(k, i, 1))
           b == IF r.def = JobProcess THEN P!Stmt("SaveJob", Job(k, i))
                ELSE P!Stmt("SaveMessageSubscription", Subscription(k, i, r.business_key))
           c == SaveTokenAs(db, i, "waiting", 1)
           d == SaveInstance(db, i, "active")
           e == SaveTokenAs(db, i, "completed", 2)
           f == SaveInstance(db, i, "completed")
<1>1. Processed(db, n, i) = IF TheToken(db, i).elem = 1 THEN <<a, b, c, d>> ELSE <<e, f>>
  BY DEF Processed
<1>2. AboutOnly(a, i) /\ AboutOnly(b, i) /\ AboutOnly(c, i) /\ AboutOnly(e, i)
  BY OtherStatements
<1>3. AboutOnly(d, i) /\ AboutOnly(f, i)
  BY SaveInstanceResult
<1> HIDE DEF a, b, c, d, e, f
<1>4. Saves(<<a, b, c, d>>, i) /\ Saves(<<e, f>>, i)
  BY <1>2, <1>3, FewSaves
<1>5. QED BY <1>1, <1>4

\* The main loop runs an instance that has not ended, and locks it.
LEMMA RunProcessInstanceKeeps ==
    ASSUME Placement, Replicas, Replicas', LocksInv, NEW b \in calls, RunProcessInstance(b)
    PROVE  LocksGood
<1>1. UNCHANGED <<scenario, raft, elections>> /\ b.pc = "run" /\ ~Locked(b.node, b.inst)
  BY DEF RunProcessInstance, placement
<1>2. PICK n, p, i, db : n = b.node /\ p = b.part /\ i = b.inst /\ db = copy[n][p]
  OBVIOUS
<1>3. n \in Node /\ p \in Hosting(n) /\ p = R!N!S!GetPartitionId(i) /\ p \in Partition
  <2>1. n \in Node /\ p \in Hosting(n) /\ p = R!N!S!GetPartitionId(i)
    BY <1>1, <1>2 DEF LocksInv, CallOK
  <2>2. QED BY <2>1, HostedPartitions
<1>4. \A d \in calls : ~(d.locked /\ d.node = n /\ d.inst = i)
  BY <1>1, <1>2 DEF Locked
<1>5. CASE copy' = copy /\ calls' = calls \ {b}
  <2>1. SameInstances
    BY <1>5 DEF SameInstances
  <2>2. QED BY <1>1, <1>5, <2>1, CallsLeft
<1>6. CASE /\ raft[p] = n /\ NewEngineBatch(db, i)
           /\ copy' = [copy EXCEPT ![n][p] = P!ExecuteStatements(@, <<SaveInstance(db, i, "active")>>)]
           /\ calls' = (calls \ {b}) \cup
                IF TheToken(db, i).state # "running" THEN {}
                ELSE {[Batch(n, i, Processed(db, n, i), "none") EXCEPT !.from = "run"]}
  <2>1. db = DB(p) /\ Table(db.process_instance)
    BY <1>2, <1>3, <1>6 DEF DB, LocksInv, Instances
  <2>2. i \in P!Q!Keys(db.process_instance) /\ StateOf(db, i) \notin EndedStates
    BY <1>6, <2>1, BatchFinds
  <2> DEFINE x == SaveInstance(db, i, "active")
             rows == <<x>>
             more == Processed(db, n, i)
             V == {StateOf(db, i), "active"}
  <2>3. x.q \in EngineQueries /\ AboutOnly(x, i) /\ x.row.state \in V
    BY <2>1, <2>2, Queries, SaveInstanceResult
  <2>4. Saves(more, i)
    BY <2>1, <2>2, ProcessedSaves
  <2>5. PICK e : e = Batch(n, i, more, "none")
    OBVIOUS
  <2>6. PICK c : c = [e EXCEPT !.from = "run"]
    OBVIOUS
  <2>7. calls' \subseteq (calls \ {b}) \cup {c}
    BY <1>6, <2>5, <2>6
  <2>8. copy' = [copy EXCEPT ![n][p] = P!ExecuteStatements(@, rows)]
    BY <1>6
  <2> HIDE DEF x, more
  <2>9. EngineStmts(rows) /\ Saves(rows, i) /\ SavesIn(rows, V)
    BY <2>3, FewStmts, FewSaves
  <2> HIDE DEF rows
  <2>10. i \in P!Q!Keys(copy[n][p].process_instance) /\ raft[p] = n
    BY <1>2, <1>6, <2>2
  <2>11. PICK u : u = rows
    OBVIOUS
  <2>12. Writes(n, p, i, u)
    BY <1>1, <1>3, <2>8, <2>9, <2>10, <2>11 DEF Writes
  <2>13. P!Q!Keys(copy'[n][p].process_instance) = P!Q!Keys(copy[n][p].process_instance)
    BY <2>12, Written
  <2>14. StateOf(DB(p), i)' \notin EndedStates
    <3>1. PICK W : W = V
      OBVIOUS
    <3>2. \A X : StateOf(DB(p), i) \in X /\ SavesIn(u, X) => StateOf(DB(p), i)' \in X
      BY <2>12, Written
    <3>3. StateOf(DB(p), i)' \in W
      BY <2>1, <2>9, <2>11, <3>1, <3>2
    <3>4. QED BY <2>2, <3>1, <3>3 DEF EndedStates
  <2>15. /\ DOMAIN e = {"node", "part", "inst", "pc", "term", "from", "locked", "then", "ptr", "stmts"}
         /\ e.node = n /\ e.part = p /\ e.inst = i /\ e.pc # "run" /\ e.term = elections[p]
         /\ e.locked /\ e.stmts = more
    BY <1>3, <2>5, BatchFields
  <2>16. /\ c.node = n /\ c.part = p /\ c.inst = i /\ c.pc # "run" /\ c.term = elections[p]
         /\ c.from = "run" /\ c.locked /\ c.stmts = more
    BY <2>6, <2>15
  <2>17. c.term \in Nat /\ c.term <= elections'[p] /\ \A m : Hosting(m)' = Hosting(m)
    BY <1>1, <1>3, <2>16 DEF LocksInv, Hosting
  <2>18. HolderOK(c)'
    BY <1>3, <2>4, <2>10, <2>13, <2>14, <2>16, <2>17 DEF HolderOK
  <2>19. CallOK(c)'
    BY <1>3, <2>16, <2>17, <2>18 DEF CallOK
  <2>20. /\ calls' \subseteq calls \cup {c} /\ (c.locked => c.node = n /\ c.inst = i)
         /\ \A d \in calls' : d = c \/ ~(d.locked /\ d.node = n /\ d.inst = i)
    BY <1>4, <2>7, <2>16
  <2>21. Allowed(p, i)
    BY <2>1, <2>2 DEF Allowed
  <2>22. Adds(n, i, c)
    BY <2>20 DEF Adds
  <2>23. QED BY <2>12, <2>19, <2>21, <2>22, WrittenKeeps
<1>7. QED BY <1>2, <1>5, <1>6 DEF RunProcessInstance

\* A batch is flushed by the raft leader, or fails.
LEMMA FlushKeeps ==
    ASSUME Placement, Replicas, Replicas', CallsSaveRows, LocksInv, NEW b \in calls, Flush(b)
    PROVE  LocksGood
<1>1. UNCHANGED placement /\ UNCHANGED <<scenario, raft, elections>> /\ b.pc = "flush"
  BY DEF Flush, placement
<1>2. CASE copy' = copy /\ calls' = (calls \ {b}) \cup Failed(b)
  BY <1>1, <1>2, FailedKeeps
<1>3. CASE /\ raft[b.part] = b.node
           /\ copy' = [copy EXCEPT ![b.node][b.part] = P!ExecuteStatements(@, b.stmts)]
           /\ calls' = (calls \ {b}) \cup
                IF b.then = "run" THEN {[Call(b.node, b.inst, "run") EXCEPT !.term = b.term]} ELSE {}
  <2>1. PICK n, p, i, u : n = b.node /\ p = b.part /\ i = b.inst /\ u = b.stmts
    OBVIOUS
  <2>2. EngineStmts(u) /\ CallOK(b) /\ copy' = [copy EXCEPT ![n][p] = P!ExecuteStatements(@, u)]
    BY <1>3, <2>1 DEF CallsSaveRows, LocksInv
  <2>3. CASE ~b.locked
    <3>1. SavesOf(u) = {} /\ b.then # "run"
      BY <2>1, <2>2, <2>3 DEF CallOK
    <3> DEFINE x == P!ExecuteStatements(copy[n][p], u)
    <3>2. copy' = [copy EXCEPT ![n][p] = x]
      BY <2>2
    <3>3. n \in Node /\ p \in Hosting(n) => x.process_instance = copy[n][p].process_instance
      BY <2>2, <3>1, InstancesUntouched DEF Replicas
    <3> HIDE DEF x
    <3>4. SameInstances
      BY <3>2, <3>3, OthersWritten
    <3>5. QED BY <1>1, <1>3, <3>1, <3>4, CallsLeft
  <2>4. CASE b.locked
    <3>1. HolderOK(b) /\ p = R!N!S!GetPartitionId(i)
      BY <2>1, <2>2, <2>4 DEF CallOK
    <3>2. /\ n \in Node /\ p \in Hosting(n) /\ i \in P!Q!Keys(copy[n][p].process_instance)
          /\ Saves(u, i)
      BY <2>1, <3>1 DEF HolderOK
    <3>3. p \in Partition /\ raft[p] = n /\ b.term \in Nat /\ b.term <= elections[p]
      BY <1>3, <2>1, <2>2, <3>2, HostedPartitions DEF CallOK
    <3>4. PICK e : e = Call(n, i, "run")
      OBVIOUS
    <3>5. PICK c : c = [e EXCEPT !.term = b.term]
      OBVIOUS
    <3>6. e.locked = FALSE
      BY <3>4, CallUnlocked
    <3>7. /\ DOMAIN e = {"node", "part", "inst", "pc", "term", "from", "locked", "then", "ptr", "stmts"}
          /\ e.node = n /\ e.part = p /\ e.inst = i /\ e.pc = "run"
          /\ e.from = "call" /\ e.then = "none" /\ e.stmts = <<>>
      BY <3>1, <3>4 DEF Call
    <3>8. /\ c.node = n /\ c.part = p /\ c.inst = i /\ c.pc = "run" /\ c.term = b.term /\ ~c.locked
          /\ c.from = "call" /\ c.then = "none" /\ c.stmts = <<>>
      BY <3>5, <3>6, <3>7
    <3>9. calls' \subseteq (calls \ {b}) \cup {c} /\ b \notin calls'
      <4>1. calls' \subseteq (calls \ {b}) \cup {c}
        BY <1>3, <2>1, <3>4, <3>5
      <4>2. b # c
        BY <1>1, <3>8
      <4>3. QED BY <4>1, <4>2
    <3>10. CallOK(c)'
      <4>1. SavesOf(c.stmts) = {}
        BY <3>8, FewSaves
      <4>2. c.term <= elections'[p] /\ \A m : Hosting(m)' = Hosting(m)
        BY <1>1, <3>3, <3>8 DEF Hosting
      <4>3. QED BY <3>1, <3>2, <3>3, <3>8, <4>1, <4>2 DEF CallOK
    <3>11. \A d \in calls \cap calls' : ~(d.locked /\ d.node = n /\ d.inst = i)
      BY <2>1, <2>4, <3>9 DEF LocksInv, Exclusive
    <3>12. /\ calls' \subseteq calls \cup {c} /\ (c.locked => c.node = n /\ c.inst = i)
           /\ \A d \in calls' : d = c \/ ~(d.locked /\ d.node = n /\ d.inst = i)
      BY <3>8, <3>9, <3>11
    <3>13. ASSUME StateOf(DB(p), i) \in EndedStates
           PROVE  \/ SameState(p, i)
                  \/ \E d \in calls \ calls' : d.inst = i /\ d.pc = "flush" /\ d.term < elections[p]
      <4>1. CASE Current(b)
        <5> DEFINE V == {StateOf(DB(p), i)}
        <5>1. SavesIn(u, V) /\ StateOf(DB(p), i) \in V
          BY <2>1, <3>1, <3>13, <4>1 DEF HolderOK
        <5> HIDE DEF V
        <5>2. StateOf(DB(p), i)' \in V
          <6>1. Writes(n, p, i, u)
            BY <1>1, <2>2, <3>2, <3>3 DEF Writes
          <6>2. QED BY <5>1, <6>1, Written
        <5>3. QED BY <5>2 DEF V, SameState
      <4>2. CASE ~Current(b)
        <5>1. b.term # elections[p]
          BY <2>1, <3>3, <4>2 DEF Current
        <5>2. b.term < elections[p]
          BY <3>3, <5>1 DEF LocksInv
        <5>3. QED BY <1>1, <2>1, <3>9, <5>2
      <4>3. QED BY <4>1, <4>2
    <3>14. Allowed(p, i)
      BY <3>13 DEF Allowed
    <3>15. Writes(n, p, i, u) /\ Adds(n, i, c)
      BY <1>1, <2>2, <3>2, <3>3, <3>12 DEF Writes, Adds
    <3>16. QED BY <3>10, <3>14, <3>15, WrittenKeeps
  <2>5. QED BY <2>3, <2>4
<1>4. QED BY <1>2, <1>3 DEF Flush

\* A replica catches up with the raft leader, who may become another node: then
\* no call about the partition is current any more.
LEMMA CaughtUp ==
    ASSUME Placement, Replicas, LocksInv, NEW n \in Node, NEW p \in Partition, p \in Hosting(n),
           UNCHANGED <<scenario, calls>>, copy' = [copy EXCEPT ![n][p] = DB(p)],
           \/ raft' = raft /\ elections' = elections
           \/ raft' = [raft EXCEPT ![p] = n] /\ elections' = [elections EXCEPT ![p] = @ + 1]
    PROVE  LocksGood
<1>1. \A m : Hosting(m)' = Hosting(m)
  BY DEF Hosting
<1>2. \A m \in Node : \A q \in Hosting(m) : copy'[m][q] = IF m = n /\ q = p THEN DB(p) ELSE copy[m][q]
  BY DEF Replicas
<1>3. raft' \in [Partition -> Node] /\ \A q \in Partition : raft'[q] = raft[q] \/ (q = p /\ raft'[q] = n)
  BY DEF Placement
<1>4. \A q \in Partition : DB(q)' = DB(q)
  BY <1>2, <1>3, HostedPartitions DEF DB
<1>5. elections \in [Partition -> Nat] /\ elections' \in [Partition -> Nat]
  BY DEF LocksInv
<1>6. \A m \in Node : Hosting(m) \subseteq Partition
  BY HostedPartitions
<1>7. Table(DB(p).process_instance)
  BY HostedPartitions DEF LocksInv, Instances, DB
<1>8. Instances'
  <2>1. ASSUME NEW m \in Node, NEW q \in Hosting(m)
        PROVE  /\ Table(copy'[m][q].process_instance)
               /\ P!Q!Keys(copy'[m][q].process_instance) \subseteq P!Q!Keys(DB(q)'.process_instance)
    <3>1. DB(q)' = DB(q)
      BY <1>4, <1>6
    <3>2. CASE m = n /\ q = p
      BY <1>2, <1>7, <3>1, <3>2
    <3>3. CASE ~(m = n /\ q = p)
      <4>1. copy'[m][q] = copy[m][q]
        BY <1>2, <3>3
      <4>2. QED BY <3>1, <4>1 DEF LocksInv, Instances
    <3>4. QED BY <3>2, <3>3
  <2>2. ASSUME NEW q \in Partition
        PROVE  /\ Cardinality(DB(q)'.process_instance) <= scenario.insts
               /\ \A r \in DB(q)'.process_instance : \E k \in 1..Cardinality(DB(q)'.process_instance) :
                     r.key = KeySpace * q + 20 * k
    BY <1>4 DEF LocksInv, Instances
  <2>3. QED BY <1>1, <2>1, <2>2 DEF Instances
<1>9. ASSUME NEW q \in Partition, NEW j PROVE SameState(q, j)
  <2>1. StateOf(DB(q), j)' = StateOf(DB(q)', j)
    BY DEF StateOf, TheInstance
  <2>2. QED BY <1>4, <2>1 DEF SameState
<1>10. ASSUME NEW c \in calls PROVE CallOK(c)'
  <2>1. CallOK(c)
    BY DEF LocksInv
  <2>2. c.part \in Partition => c.term \in Nat /\ c.term <= elections'[c.part]
    <3>1. c.part \in Partition => elections[c.part] <= elections'[c.part] /\ elections'[c.part] \in Nat
      BY <1>5
    <3>2. QED BY <1>5, <2>1, <3>1 DEF CallOK
  <2>3. CASE ~c.locked
    BY <1>1, <2>1, <2>2, <2>3 DEF CallOK
  <2>4. CASE c.locked
    <3>1. HolderOK(c)
      BY <2>1, <2>4 DEF CallOK
    <3>2. c.part \in Partition /\ c.node \in Node /\ c.part \in Hosting(c.node)
      BY <3>1, HostedPartitions DEF HolderOK
    <3>3. c.inst \in P!Q!Keys(copy'[c.node][c.part].process_instance)
      <4>1. /\ c.inst \in P!Q!Keys(copy[c.node][c.part].process_instance)
            /\ c.inst \in P!Q!Keys(DB(c.part).process_instance)
        BY <3>1, <3>2 DEF HolderOK, LocksInv, Instances
      <4>2. copy'[c.node][c.part] = IF c.node = n /\ c.part = p THEN DB(p) ELSE copy[c.node][c.part]
        BY <1>2, <3>2
      <4>3. CASE c.node = n /\ c.part = p
        BY <4>1, <4>2, <4>3
      <4>4. CASE ~(c.node = n /\ c.part = p)
        BY <4>1, <4>2, <4>4
      <4>5. QED BY <4>3, <4>4
    <3>4. Current(c)' => Current(c)
      <4>1. CASE raft' = raft /\ elections' = elections
        BY <4>1 DEF Current
      <4>2. CASE raft' = [raft EXCEPT ![p] = n] /\ elections' = [elections EXCEPT ![p] = @ + 1]
        <5>1. CASE c.part = p
          <6>1. elections'[c.part] = elections[c.part] + 1 /\ elections[c.part] \in Nat
            BY <1>5, <4>2, <5>1
          <6>2. c.term \in Nat /\ c.term <= elections[c.part]
            BY <2>1, <3>2 DEF CallOK
          <6>3. c.term # elections'[c.part]
            BY <6>1, <6>2
          <6>4. QED BY <6>3 DEF Current
        <5>2. CASE c.part # p
          <6>1. elections'[c.part] = elections[c.part] /\ raft'[c.part] = raft[c.part]
            BY <1>5, <3>2, <4>2, <5>2 DEF Placement
          <6>2. QED BY <6>1 DEF Current
        <5>3. QED BY <5>1, <5>2
      <4>3. QED BY <4>1, <4>2
    <3>5. StateOf(DB(c.part), c.inst)' = StateOf(DB(c.part), c.inst)
      BY <1>9, <3>2 DEF SameState
    <3>6. HolderOK(c)'
      BY <1>1, <3>1, <3>3, <3>4, <3>5 DEF HolderOK
    <3>7. QED BY <1>1, <2>1, <2>2, <2>4, <3>6 DEF CallOK
  <2>5. QED BY <2>3, <2>4
<1>11. Exclusive'
  BY DEF LocksInv, Exclusive
<1>12. EndedStay
  BY <1>9 DEF EndedStay, Allowed
<1>13. LocksInv'
  BY <1>5, <1>8, <1>10, <1>11 DEF LocksInv
<1>14. QED BY <1>12, <1>13 DEF LocksGood

-----------------------------------------------------------------------------
(* A new instance *)

\* The statements that create an instance add its row, or nothing.
LEMMA NewRow ==
    ASSUME NEW b, Database(b), NEW r, NEW t, r.key \notin P!Q!Keys(b.process_instance),
           NEW x, x = P!ExecuteStatements(b, <<P!Stmt("SaveProcessInstance", r), P!Stmt("SaveToken", t)>>)
    PROVE  x.process_instance \in {b.process_instance, b.process_instance \cup {r}}
<1> DEFINE s == P!Stmt("SaveProcessInstance", r)
           w == P!Stmt("SaveToken", t)
           u == <<s, w>>
           f == P!After(b, u)
<1>1. s.q = "SaveProcessInstance" /\ s.row = r /\ w.q = "SaveToken"
  BY DEF P!Stmt
<1> HIDE DEF s, w
<1>2. s.q \in EngineQueries /\ w.q \in EngineQueries
  BY <1>1 DEF EngineQueries
<1>3. Len(u) = 2 /\ u[1] = s /\ u[2] = w /\ EngineStmts(u)
  <2>1. EngineStmts(u)
    BY <1>2, FewStmts
  <2>2. Len(u) = 2 /\ u[1] = s /\ u[2] = w
    OBVIOUS
  <2>3. QED BY <2>1, <2>2
<1>4. f[0] = b /\ f[1] = P!Exec(f[0], u[1]) /\ f[2] = P!Exec(f[1], u[2])
  <2> HIDE DEF u
  <2>1. QED BY <1>3, AfterResult
<1>5. Sound(b) /\ Sound(f[1])
  <2> HIDE DEF u
  <2>1. Sound(b)
    BY DEF Database
  <2>2. 1 \in 0..Len(u)
    BY <1>3
  <2>3. QED BY <1>3, <2>1, <2>2, EngineAfter
<1>6. x \in {b, f[2]}
  <2>1. x = P!ExecuteStatements(b, u)
    BY DEF s, w
  <2> HIDE DEF u
  <2>2. QED BY <1>3, <2>1 DEF P!ExecuteStatements, P!Run
<1> HIDE DEF f, u
<1>7. f[1].process_instance = P!Q!Upsert(b.process_instance, r, {"state", "variables", "business_key"})
  BY <1>1, <1>2, <1>3, <1>4, <1>5, InstanceExec
<1>8. f[1].process_instance = b.process_instance \cup {r}
  BY <1>7 DEF P!Q!Upsert
<1>9. f[2].process_instance = f[1].process_instance
  BY <1>1, <1>2, <1>3, <1>4, <1>5, InstanceExec
<1>10. QED BY <1>6, <1>8, <1>9

\* The keys that a partition has generated.
Numbered(T, base) == \A q \in T : \E k \in 1..Cardinality(T) : q.key = base + 20 * k

\* A table of instances that gets one more row, with the next key, or none.
Grows(T, r, U, N, base) ==
    /\ Table(T) /\ IsFiniteSet(T) /\ DOMAIN r = InstanceFields /\ r.key \notin P!Q!Keys(T)
    /\ U \in {T, T \cup {r}} /\ N \in Nat /\ Cardinality(T) < N /\ base \in Nat
    /\ Numbered(T, base) /\ r.key = base + 20 * (1 + Cardinality(T))

\* Such a table has still one row for a key, and the keys of its partition.
LEMMA TableGrows ==
    ASSUME NEW T, NEW r, NEW U, NEW N, NEW base, Grows(T, r, U, N, base)
    PROVE  Table(U) /\ P!Q!Keys(T) \subseteq P!Q!Keys(U) /\ Cardinality(U) <= N /\ Numbered(U, base)
<1> USE DEF Grows
<1>1. Cardinality(T) \in Nat
  BY FS_CardinalityType
<1>2. CASE U = T
  BY <1>1, <1>2
<1>3. CASE U = T \cup {r}
  <2>1. r \notin T
    BY DEF P!Q!Keys
  <2>2. Cardinality(U) = Cardinality(T) + 1
    BY <1>3, <2>1, FS_AddElement
  <2>3. Table(U)
    BY <1>3 DEF Table, P!Q!Keys
  <2>4. P!Q!Keys(T) \subseteq P!Q!Keys(U)
    BY <1>3 DEF P!Q!Keys
  <2>5. ASSUME NEW q \in U PROVE \E k \in 1..Cardinality(U) : q.key = base + 20 * k
    <3>1. CASE q \in T
      <4>1. PICK k \in 1..Cardinality(T) : q.key = base + 20 * k
        BY <3>1 DEF Numbered
      <4>2. k \in 1..Cardinality(U)
        BY <1>1, <2>2
      <4>3. QED BY <4>1, <4>2
    <3>2. CASE q = r
      <4>1. 1 + Cardinality(T) \in 1..Cardinality(U)
        BY <1>1, <2>2
      <4>2. QED BY <3>2, <4>1
    <3>3. QED BY <1>3, <3>1, <3>2
  <2>6. Cardinality(U) <= N
    BY <1>1, <2>2
  <2>7. QED BY <2>3, <2>4, <2>5, <2>6 DEF Numbered
<1>4. QED BY <1>2, <1>3

\* A new instance has a key of its own, which no call is about.
LEMMA CreateInstanceKeeps ==
    ASSUME Placement, Replicas, LocksInv, NEW m \in Node, NEW p \in Hosting(m), NEW def, NEW corr,
           CreateInstance(m, p, def, corr)
    PROVE  LocksGood
<1> DEFINE T == DB(p).process_instance
           i == KeySpace * p + 20 * (1 + Cardinality(T))
           r == Instance(i, def, corr)
           S == {DB(q).process_instance : q \in Partition}
           x == P!ExecuteStatements(copy[m][p], <<P!Stmt("SaveProcessInstance", r), P!Stmt("SaveToken", Token(i))>>)
           U == x.process_instance
<1>1. /\ Cardinality(UNION S) < scenario.insts /\ raft[p] = m
      /\ copy' = [copy EXCEPT ![m][p] = x] /\ calls' = calls \cup {Call(m, i, "run")}
      /\ UNCHANGED placement
  BY DEF CreateInstance
<1>2. UNCHANGED <<scenario, raft, elections>>
  BY <1>1 DEF placement
<1>3. /\ p \in Partition /\ p \in Nat /\ scenario.insts \in Nat
      /\ 20 * scenario.insts < KeySpace /\ KeySpace \in Nat
  <2>1. p \in Partition /\ scenario \in Scenarios
    BY HostedPartitions DEF Placement
  <2>2. PICK N : N = scenario.insts
    OBVIOUS
  <2>3. N \in Nat /\ KeySpace \in Nat /\ 20 * (N + 1) <= KeySpace
    BY <2>1, <2>2, KeysFit
  <2>4. p \in Nat
    BY <2>1, KeysFit
  <2>5. 20 * N < KeySpace
    BY <2>3
  <2>6. QED BY <2>1, <2>2, <2>3, <2>4, <2>5
<1>4. copy[m][p] = DB(p)
  BY <1>1 DEF DB
<1>5. \A q \in Partition : IsFiniteSet(DB(q).process_instance) /\ Database(DB(q)) /\ Table(DB(q).process_instance)
  BY HostedPartitions DEF Replicas, DB, Database, Sound, P!Q!Tables, LocksInv, Instances
<1>6. Cardinality(T) \in Nat /\ Cardinality(T) < scenario.insts
  <2> DEFINE f == [q \in Partition |-> DB(q).process_instance]
  <2>1. S = {f[q] : q \in Partition} /\ DOMAIN f = Partition /\ f = [q \in Partition |-> f[q]]
    OBVIOUS
  <2>2. T \in S /\ \A A \in S : IsFiniteSet(A)
    BY <1>3, <1>5
  <2> HIDE DEF f, S, T
  <2>3. IsFiniteSet(S)
    BY <2>1, KeysFit, ImageIsFinite
  <2>4. IsFiniteSet(UNION S) /\ T \in SUBSET UNION S
    BY <2>2, <2>3, FS_UNION
  <2>5. Cardinality(T) <= Cardinality(UNION S) /\ IsFiniteSet(T)
    BY <2>4, FS_Subset
  <2>6. Cardinality(T) \in Nat /\ Cardinality(UNION S) \in Nat
    BY <2>4, <2>5, FS_CardinalityType
  <2>7. QED BY <1>1, <1>3, <2>5, <2>6
<1> DEFINE base == KeySpace * p
<1>7. base \in Nat /\ i = base + 20 * (1 + Cardinality(T)) /\ \A q \in T : \E k \in 1..Cardinality(T) : q.key = base + 20 * k
  BY <1>3 DEF LocksInv, Instances
<1>8. R!N!S!GetPartitionId(i) = p
  <2>1. PICK k : k = 20 * (1 + Cardinality(T))
    OBVIOUS
  <2>2. k \in Nat /\ k < KeySpace /\ i = KeySpace * p + k
    BY <1>3, <1>6, <2>1
  <2> HIDE DEF i
  <2>3. i \div KeySpace = p
    BY <1>3, <2>2, PartOfKey
  <2>4. QED BY <2>3 DEF R!N!S!GetPartitionId
<1>9. i \notin P!Q!Keys(T)
  <2> HIDE DEF base, i, T
  <2>1. QED BY <1>6, <1>7 DEF P!Q!Keys
<1>10. DOMAIN r = InstanceFields /\ r.key = i
  BY DEF Instance, InstanceFields
<1> HIDE DEF r, i, base
<1>11. U \in {T, T \cup {r}}
  <2>1. Database(copy[m][p]) /\ r.key \notin P!Q!Keys(copy[m][p].process_instance)
    BY <1>3, <1>4, <1>5, <1>9, <1>10
  <2>2. PICK t : t = Token(i)
    OBVIOUS
  <2>3. U \in {copy[m][p].process_instance, copy[m][p].process_instance \cup {r}}
    BY <2>1, <2>2, NewRow
  <2>4. QED BY <1>4, <2>3
<1> HIDE DEF x
<1>12. \A n \in Node : \A q \in Hosting(n) : copy'[n][q] = IF n = m /\ q = p THEN x ELSE copy[n][q]
  BY <1>1 DEF Replicas
<1>13. DB(p)' = x /\ \A q \in Partition : q # p => DB(q)' = DB(q)
  BY <1>1, <1>2, <1>12, HostedPartitions DEF DB
<1>14. /\ Table(U) /\ P!Q!Keys(T) \subseteq P!Q!Keys(U) /\ Cardinality(U) <= scenario.insts
       /\ Numbered(U, base)
  <2>1. Table(T) /\ IsFiniteSet(T)
    BY <1>3, <1>5
  <2>2. r.key = base + 20 * (1 + Cardinality(T)) /\ r.key \notin P!Q!Keys(T)
    BY <1>7, <1>9, <1>10
  <2>3. PICK A, B, N, d, w : A = T /\ B = U /\ N = scenario.insts /\ d = base /\ w = r
    OBVIOUS
  <2> HIDE DEF T, U
  <2>4. /\ Table(A) /\ IsFiniteSet(A) /\ DOMAIN w = InstanceFields /\ w.key \notin P!Q!Keys(A)
        /\ B \in {A, A \cup {w}} /\ N \in Nat /\ Cardinality(A) < N /\ d \in Nat
        /\ Numbered(A, d) /\ w.key = d + 20 * (1 + Cardinality(A))
    BY <1>3, <1>6, <1>7, <1>10, <1>11, <2>1, <2>2, <2>3 DEF Numbered
  <2>5. Grows(A, w, B, N, d)
    BY <2>4 DEF Grows
  <2>6. Table(B) /\ P!Q!Keys(A) \subseteq P!Q!Keys(B) /\ Cardinality(B) <= N /\ Numbered(B, d)
    BY <2>5, TableGrows
  <2>7. QED BY <2>3, <2>6
<1>15. \A n : Hosting(n)' = Hosting(n)
  BY <1>2 DEF Hosting
<1>16. ASSUME NEW q \in Partition, NEW j, q # p \/ j # i PROVE SameState(q, j)
  <2>1. StateOf(DB(q), j)' = StateOf(DB(q)', j)
    BY DEF StateOf, TheInstance
  <2>2. CASE q # p
    BY <1>13, <2>1, <2>2 DEF SameState
  <2>3. CASE q = p /\ j # i
    <3>1. P!Q!GetProcessInstance(x, j) = P!Q!GetProcessInstance(DB(p), j)
      BY <1>10, <1>11, <2>3 DEF P!Q!GetProcessInstance
    <3>2. QED BY <1>13, <2>1, <2>3, <3>1 DEF SameState, StateOf, TheInstance
  <2>4. QED BY <1>16, <2>2, <2>3
<1>17. \A q \in Partition : P!Q!Keys(DB(q).process_instance) \subseteq P!Q!Keys(DB(q)'.process_instance)
  BY <1>13, <1>14
<1>18. Instances'
  <2>1. \A n \in Node : Hosting(n) \subseteq Partition
    BY HostedPartitions
  <2>2. ASSUME NEW n \in Node, NEW q \in Hosting(n)
        PROVE  /\ Table(copy'[n][q].process_instance)
               /\ P!Q!Keys(copy'[n][q].process_instance) \subseteq P!Q!Keys(DB(q)'.process_instance)
    <3>1. CASE n = m /\ q = p
      BY <1>12, <1>13, <1>14, <3>1
    <3>2. CASE ~(n = m /\ q = p)
      <4>1. copy'[n][q] = copy[n][q]
        BY <1>12, <3>2
      <4>2. /\ Table(copy[n][q].process_instance)
            /\ P!Q!Keys(copy[n][q].process_instance) \subseteq P!Q!Keys(DB(q).process_instance)
        BY DEF LocksInv, Instances
      <4>3. QED BY <1>17, <2>1, <4>1, <4>2
    <3>3. QED BY <3>1, <3>2
  <2>3. ASSUME NEW q \in Partition
        PROVE  /\ Cardinality(DB(q)'.process_instance) <= scenario.insts
               /\ \A w \in DB(q)'.process_instance : \E k \in 1..Cardinality(DB(q)'.process_instance) :
                     w.key = KeySpace * q + 20 * k
    <3>1. CASE q # p
      BY <1>13, <3>1 DEF LocksInv, Instances
    <3>2. CASE q = p
      BY <1>13, <1>14, <3>2 DEF base, Numbered
    <3>3. QED BY <3>1, <3>2
  <2>4. QED BY <1>2, <1>15, <2>2, <2>3 DEF Instances
<1>19. ASSUME NEW d \in calls PROVE CallOK(d)'
  <2>1. CallOK(d)
    BY DEF LocksInv
  <2>2. CASE ~d.locked
    BY <1>2, <1>15, <2>1, <2>2 DEF CallOK
  <2>3. CASE d.locked
    <3>1. HolderOK(d)
      BY <2>1, <2>3 DEF CallOK
    <3>2. d.part \in Partition /\ d.node \in Node /\ d.part \in Hosting(d.node)
      BY <3>1, HostedPartitions DEF HolderOK
    <3>3. /\ d.inst \in P!Q!Keys(copy[d.node][d.part].process_instance)
          /\ d.inst \in P!Q!Keys(DB(d.part).process_instance)
      BY <3>1, <3>2 DEF HolderOK, LocksInv, Instances
    <3>4. d.inst \in P!Q!Keys(copy'[d.node][d.part].process_instance)
      <4>1. copy'[d.node][d.part] = IF d.node = m /\ d.part = p THEN x ELSE copy[d.node][d.part]
        BY <1>12, <3>2
      <4>2. CASE d.node = m /\ d.part = p
        BY <1>14, <3>3, <4>1, <4>2
      <4>3. CASE ~(d.node = m /\ d.part = p)
        BY <3>3, <4>1, <4>3
      <4>4. QED BY <4>2, <4>3
    <3>5. SameState(d.part, d.inst)
      BY <1>9, <1>16, <3>2, <3>3
    <3>6. Current(d)' = Current(d)
      BY <1>2 DEF Current
    <3>7. HolderOK(d)'
      BY <1>15, <3>1, <3>4, <3>5, <3>6 DEF HolderOK, SameState
    <3>8. QED BY <1>2, <1>15, <2>1, <2>3, <3>7 DEF CallOK
  <2>4. QED BY <2>2, <2>3
<1>20. PICK c : c = Call(m, i, "run")
  OBVIOUS
<1>21. c.locked = FALSE
  BY <1>20, CallUnlocked
<1>22. /\ c.node = m /\ c.part = p /\ c.inst = i /\ c.pc = "run" /\ c.term = elections[p]
       /\ c.from = "call" /\ c.then = "none" /\ c.stmts = <<>>
  BY <1>8, <1>20 DEF Call
<1>23. CallOK(c)'
  <2>1. SavesOf(c.stmts) = {}
    BY <1>22, FewSaves
  <2>2. c.term \in Nat /\ c.term <= elections'[p]
    BY <1>2, <1>3, <1>22 DEF LocksInv
  <2>3. c.part = R!N!S!GetPartitionId(c.inst)
    BY <1>8, <1>22
  <2>4. QED BY <1>15, <1>21, <1>22, <2>1, <2>2, <2>3 DEF CallOK
<1>24. calls' = calls \cup {c}
  BY <1>1, <1>20
<1>25. Exclusive'
  BY <1>21, <1>24 DEF LocksInv, Exclusive
<1>26. EndedStay
  <2>1. ASSUME NEW q \in Partition, NEW j \in P!Q!Keys(DB(q).process_instance) PROVE Allowed(q, j)
    BY <1>9, <1>16 DEF Allowed
  <2>2. QED BY <2>1 DEF EndedStay
<1>27. LocksInv'
  <2>1. (elections \in [Partition -> Nat])'
    BY <1>2 DEF LocksInv
  <2>2. \A d \in calls' : CallOK(d)'
    BY <1>19, <1>23, <1>24
  <2>3. QED BY <1>18, <1>25, <2>1, <2>2 DEF LocksInv
<1>28. QED BY <1>26, <1>27 DEF LocksGood

-----------------------------------------------------------------------------
(* Deployments, and every step *)

\* A definition is no instance.
LEMMA DefinitionSaved ==
    ASSUME NEW b, Database(b), NEW s,
           s.q \in {"SaveProcessDefinition", "SaveDmnResourceDefinition", "SaveDecisionDefinition"}
    PROVE  P!ExecContext(b, s).process_instance = b.process_instance
<1>1. DOMAIN b = P!Q!Tables /\ "process_instance" \in P!Q!Tables
  BY DEF Database, Sound, P!Q!Tables
<1>2. P!Exec(b, s).process_instance = b.process_instance
  <2>1. CASE s.q = "SaveProcessDefinition"
    BY <1>1, <2>1 DEF P!Exec, P!Q!SaveProcessDefinition
  <2>2. CASE s.q = "SaveDmnResourceDefinition"
    BY <1>1, <2>2 DEF P!Exec, P!Q!SaveDmnResourceDefinition
  <2>3. CASE s.q = "SaveDecisionDefinition"
    BY <1>1, <2>3 DEF P!Exec, P!Q!SaveDecisionDefinition
  <2>4. QED BY <2>1, <2>2, <2>3
<1>3. QED BY <1>2, ExecContextResult

\* A row of a deployment is saved, on the raft leader.
LEMMA SaveKeeps ==
    ASSUME Placement, Replicas, LocksInv, NEW d \in DOMAIN deploys, NEW q \in Partition, Save(d, q)
    PROVE  LocksGood
<1> DEFINE w == deploys[d].save[q]
           n == deploys[d].to[q]
           row == IF w.of = "resource" THEN ResourceStmt(d, w.version) ELSE DecisionStmt(d, w.part, w.version)
<1>1. /\ copy' = [copy EXCEPT ![n][w.part] = P!ExecContext(@, row[1])] \/ copy' = copy
      /\ UNCHANGED <<placement, calls>> /\ UNCHANGED <<scenario, raft, elections>>
  BY DEF Save, placement
<1>2. PICK s : s = row[1] /\ s.q \in {"SaveProcessDefinition", "SaveDmnResourceDefinition", "SaveDecisionDefinition"}
  BY StmtQuery DEF ResourceStmt, DecisionStmt, P!SaveProcessDefinitionWith, P!SaveDmnResourceDefinitionWith,
                   P!SaveDecisionDefinitionWith
<1>3. PICK m, p : m = n /\ p = w.part
  OBVIOUS
<1> HIDE DEF row
<1>4. CASE copy' = copy
  BY <1>1, <1>4, NothingSaved, CallsLeft
<1>5. CASE copy' = [copy EXCEPT ![n][w.part] = P!ExecContext(@, row[1])]
  <2>1. PICK x : x = P!ExecContext(copy[m][p], s)
    OBVIOUS
  <2>2. copy' = [copy EXCEPT ![m][p] = x]
    BY <1>2, <1>3, <1>5, <2>1
  <2>3. m \in Node /\ p \in Hosting(m) => x.process_instance = copy[m][p].process_instance
    BY <1>2, <2>1, DefinitionSaved DEF Replicas
  <2>4. SameInstances
    BY <2>2, <2>3, OthersWritten
  <2>5. QED BY <1>1, <2>4, CallsLeft
<1>6. QED BY <1>1, <1>4, <1>5

\* Every step keeps what calls know, and the instances that have ended.
LEMMA LocksNext ==
    ASSUME CallsInv, CallsInv', LocksInv, Next
    PROVE  LocksGood
<1>1. Placement /\ Replicas /\ CallsSaveRows /\ Replicas'
  BY DEF CallsInv
<1>2. ASSUME NEW p \in Partition, NEW n \in Node, Elect(p, n) \/ Replicate(n, p) PROVE LocksGood
  <2>1. /\ p \in Hosting(n) /\ UNCHANGED <<scenario, calls>> /\ copy' = [copy EXCEPT ![n][p] = DB(p)]
        /\ \/ raft' = raft /\ elections' = elections
           \/ raft' = [raft EXCEPT ![p] = n] /\ elections' = [elections EXCEPT ![p] = @ + 1]
    BY <1>2 DEF Elect, Replicate, placement
  <2>2. QED BY <1>1, <2>1, CaughtUp
<1>3. ASSUME NEW p \in Partition, NEW n \in Node, CreateEngine(n, p) PROVE LocksGood
  BY <1>1, <1>3, CreateEngineKeeps
<1>4. ASSUME UNCHANGED <<scenario, copy, raft, elections, calls>> PROVE LocksGood
  <2>1. SameInstances
    BY <1>4 DEF SameInstances
  <2>2. QED BY <1>1, <1>4, <2>1, CallsLeft
<1>5. ASSUME NEW p \in Partition, Announce(p) PROVE LocksGood
  BY <1>4, <1>5 DEF Announce
<1>6. ASSUME NEW def, NEW corr,
             CreateProcessInstance(def, corr) \/ StartProcessInstanceOnElements(def, corr)
      PROVE  LocksGood
  <2>1. PICK m \in R!N!GetLeastStressedPartitionLeader(C) :
           \E p \in R!N!S!GetRandomEngine(C, m) : CreateInstance(m, p, def, corr)
    BY <1>6 DEF CreateProcessInstance, StartProcessInstanceOnElements
  <2>2. PICK p \in R!N!S!GetRandomEngine(C, m) : CreateInstance(m, p, def, corr)
    BY <2>1
  <2>3. m \in Node /\ p \in Hosting(m)
    <3>1. C.copy = copy
      BY DEF C
    <3>2. m \in Node
      BY <1>1, <3>1 DEF R!N!GetLeastStressedPartitionLeader, R!N!Nodes, Replicas
    <3>3. p \in DOMAIN copy[m]
      BY <3>1 DEF R!N!S!GetRandomEngine, R!N!S!Engines, R!N!S!Hosts
    <3>4. QED BY <1>1, <3>2, <3>3 DEF Replicas
  <2>4. QED BY <1>1, <2>2, <2>3, CreateInstanceKeeps
<1>7. ASSUME NEW n, NEW corr, PublishMessage(n, corr) PROVE LocksGood
  BY <1>1, <1>7, PublishMessageKeeps
<1>8. ASSUME NEW k, CompleteJob(k) \/ FailJob(k) \/ AssignJob(k) PROVE LocksGood
  BY <1>1, <1>8, CompleteJobKeeps, FailJobKeeps, AssignJobKeeps
<1>9. ASSUME NEW k, ResolveIncident(k) PROVE LocksGood
  BY <1>1, <1>9, ResolveIncidentKeeps
<1>10. ASSUME NEW i, CancelProcessInstance(i) PROVE LocksGood
  BY <1>1, <1>10, CancelProcessInstanceKeeps
<1>11. ASSUME NEW i, NEW op \in {"update", "delete"}, BeginVars(i, op) PROVE LocksGood
  BY <1>1, <1>11, BeginVarsKeeps
<1>12. ASSUME EvaluateDecision PROVE LocksGood
  BY <1>1, <1>12, EvaluateDecisionKeeps
<1>13. ASSUME NEW b \in calls, UpdateProcessInstanceVariables(b) \/ DeleteProcessInstanceVariable(b)
       PROVE  LocksGood
  BY <1>1, <1>13, VariablesKeep
<1>14. ASSUME NEW b \in calls, RunProcessInstance(b) \/ SavePointer(b) \/ Flush(b) PROVE LocksGood
  BY <1>1, <1>14, RunProcessInstanceKeeps, SavePointerKeeps, FlushKeeps
<1>15. ASSUME NEW kind, NEW sum, NEW n, Deploy(kind, sum, n) PROVE LocksGood
  BY <1>4, <1>15 DEF Deploy, placement
<1>16. ASSUME NEW d \in DOMAIN deploys, NEW q \in Partition, DeployArrives(d, q) \/ DeployLost(d, q)
       PROVE  LocksGood
  BY <1>4, <1>16 DEF DeployArrives, DeployLost, placement
<1>17. ASSUME NEW d \in DOMAIN deploys, NEW q \in Partition, NEW p \in Partition, Load(d, q, p)
       PROVE  LocksGood
  BY <1>4, <1>17 DEF Load, placement
<1>18. ASSUME NEW d \in DOMAIN deploys, NEW q \in Partition, Save(d, q) PROVE LocksGood
  BY <1>1, <1>18, SaveKeeps
<1>19. ASSUME NEW d \in DOMAIN deploys, DeployEnds(d) PROVE LocksGood
  BY <1>4, <1>19 DEF DeployEnds, placement
<1>20. QED
  BY <1>2, <1>3, <1>5, <1>6, <1>7, <1>8, <1>9, <1>10, <1>11, <1>12, <1>13, <1>14, <1>15, <1>16, <1>17, <1>18,
     <1>19 DEF Next

\* The same for a step and for a stutter.
LEMMA LocksStep ==
    ASSUME CallsInv, LocksInv, [Next]_vars
    PROVE  LocksGood
<1>1. CASE Next
  <2>1. CallsInv'
    BY CallsStep
  <2>2. QED BY <1>1, <2>1, LocksNext
<1>2. CASE UNCHANGED vars
  <2>1. UNCHANGED <<scenario, copy, raft, elections, calls>> /\ Placement
    BY <1>2 DEF vars, CallsInv
  <2>2. SameInstances
    BY <2>1 DEF SameInstances
  <2>3. QED BY <2>1, <2>2, CallsLeft
<1>3. QED BY <1>1, <1>2

\* A cluster starts with no instance.
LEMMA LocksInit ==
    ASSUME Init
    PROVE  LocksInv
<1>1. /\ scenario \in Scenarios
      /\ copy = [n \in Node |-> [p \in Hosting(n) |-> Deployed(p)]]
      /\ calls = {} /\ elections = [p \in Partition |-> 0]
  BY DEF Init
<1>2. Placement
  BY InitEstablishes DEF CallsInv
<1>3. \A n \in Node : \A p \in Hosting(n) : copy[n][p].process_instance = {}
  BY <1>1, DeployedResult
<1>4. \A p \in Partition : DB(p).process_instance = {}
  BY <1>2, <1>3, HostedPartitions DEF DB
<1>5. Cardinality({}) = 0 /\ scenario.insts \in Nat
  BY <1>1, FS_EmptySet, KeysFit
<1>6. Instances
  <2>1. \A n \in Node : \A p \in Hosting(n) :
           /\ Table(copy[n][p].process_instance)
           /\ P!Q!Keys(copy[n][p].process_instance) \subseteq P!Q!Keys(DB(p).process_instance)
    BY <1>3 DEF Table, P!Q!Keys
  <2>2. \A p \in Partition :
           /\ Cardinality(DB(p).process_instance) <= scenario.insts
           /\ \A q \in DB(p).process_instance : \E k \in 1..Cardinality(DB(p).process_instance) :
                 q.key = KeySpace * p + 20 * k
    BY <1>4, <1>5
  <2>3. QED BY <2>1, <2>2 DEF Instances
<1>7. QED BY <1>1, <1>6 DEF LocksInv, Exclusive

\* What a call that holds the lock of an instance knows: the instance is in the
\* database of its node's partition, and as long as the node leads the partition
\* and there was no election since the call began, it has not ended, or what is
\* saved keeps its state; and a node has one such call of an instance
\* (running_instance_cache.go, lockInstance; engine_batch.go, NewEngineBatch).
THEOREM LocksInvariance == Spec => []LocksInv
<1>1. Init => LocksInv
  BY LocksInit
<1>2. CallsInv /\ LocksInv /\ [Next]_vars => LocksInv'
  BY LocksStep DEF LocksGood
<1>3. QED BY <1>1, <1>2, CallsInvariance, PTL DEF Spec

\* An instance that has ended keeps its state, whatever completes, fails, cancels,
\* resolves, publishes or changes variables on whichever node, unless a call flushes
\* what it read before an election of the partition (engine_batch.go, NewEngineBatch
\* and Flush).
THEOREM EndedInstancesStay == Spec => OnlyOldCallsReviveEnded
<1> DEFINE A == \A i \in InstanceKeys :
         LET p   == R!N!S!GetPartitionId(i)
             old == TheInstance(DB(p), i).state
         IN  old \in {"completed", "terminated"} =>
               \/ TheInstance(DB(p), i).state = TheInstance(copy'[raft'[p]][p], i).state
               \/ \E b \in calls \ calls' : b.inst = i /\ b.pc = "flush" /\ b.term < elections[p]
<1>1. CallsInv /\ LocksInv /\ [Next]_vars => [A]_vars
  <2>1. SUFFICES ASSUME CallsInv, LocksInv, [Next]_vars, NEW i \in InstanceKeys
                 PROVE  LET p   == R!N!S!GetPartitionId(i)
                            old == TheInstance(DB(p), i).state
                        IN  old \in {"completed", "terminated"} =>
                              \/ TheInstance(DB(p), i).state = TheInstance(copy'[raft'[p]][p], i).state
                              \/ \E b \in calls \ calls' : b.inst = i /\ b.pc = "flush" /\ b.term < elections[p]
    OBVIOUS
  <2>2. Placement /\ Replicas /\ Instances /\ EndedStay
    <3>1. Placement /\ Replicas /\ Instances
      BY <2>1 DEF CallsInv, LocksInv
    <3>2. EndedStay
      BY <2>1, LocksStep DEF LocksGood
    <3>3. QED BY <3>1, <3>2
  <2>3. PICK p \in Partition : i \in P!Q!Keys(DB(p).process_instance)
    BY DEF InstanceKeys
  <2>4. R!N!S!GetPartitionId(i) = p
    BY <2>2, <2>3, HostedPartitions, InstancePartition DEF DB
  <2>5. Allowed(p, i)
    BY <2>2, <2>3 DEF EndedStay
  <2>6. StateOf(DB(p), i)' = TheInstance(copy'[raft'[p]][p], i).state
    BY DEF StateOf, TheInstance, DB
  <2>7. QED BY <2>4, <2>5, <2>6 DEF Allowed, SameState, StateOf, EndedStates
<1>2. QED BY <1>1, CallsInvariance, LocksInvariance, PTL DEF Spec, OnlyOldCallsReviveEnded

=============================================================================
