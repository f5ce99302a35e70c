-------------------------- MODULE JobManagerProofs --------------------------
(***************************************************************************)
(* Proofs about the job manager, for any nodes, partitions, clients, jobs  *)
(* and bounds.  That two workers never hold a locked job is not inductive: *)
(* the job may be twice on the way to them.  The invariant follows a job   *)
(* from the batch over a stream and a dispatcher to its worker, and says   *)
(* that a job whose lock lives is at one place at most, is then in the     *)
(* list of locked jobs, and is not in the batch about to be sent.          *)
(***************************************************************************)
EXTENDS JobManager, FiniteSetTheorems, SequenceTheorems, WellFoundedInduction, TLAPS

-----------------------------------------------------------------------------
(* The inductive invariant.                                                *)

\* The jobs in the list of locked jobs.
LockedJobs == {distributed[i].job : i \in DOMAIN distributed}

\* A job is locked at most once, and an expired lock counts as released.
LocksAreDistinct ==
    /\ \A i, k \in DOMAIN distributed :
          distributed[i].job = distributed[k].job => i = k
    /\ \A i \in DOMAIN distributed :
          distributed[i].expired => distributed[i].job \in released

\* No job about to be sent is locked: the list only shrinks after it was read
\* for the jobs to skip, and each job of the batch is sent once.
BatchIsUnlocked ==
    /\ loop.pc = "load" => LockedJobs \subseteq loop.skip
    /\ \A a, b \in DOMAIN loop.batch : loop.batch[a] = loop.batch[b] => a = b
    /\ \A a \in DOMAIN loop.batch : loop.batch[a] \notin LockedJobs

\* The places a job can be at on its way to a worker.
OnStream(j, s, i) == i \in DOMAIN down[s] /\ down[s][i][1] = j
InDispatcher(j, n) == dispatcher[n].pc = "sending" /\ dispatcher[n].job = j

\* Job j is at one place at most, and only when it is locked.
TravelsAlone(j) ==
    /\ \A s \in Stream : \A i \in DOMAIN down[s] : OnStream(j, s, i) =>
          /\ j \in LockedJobs
          /\ \A r \in Stream : \A k \in DOMAIN down[r] :
                OnStream(j, r, k) => s = r /\ i = k
          /\ \A n \in Node : ~InDispatcher(j, n)
          /\ \A c \in Client : j \notin held[c]
    /\ \A n \in Node : InDispatcher(j, n) =>
          /\ j \in LockedJobs
          /\ \A m \in Node : InDispatcher(j, m) => n = m
          /\ \A c \in Client : j \notin held[c]
    /\ \A c \in Client : j \in held[c] =>
          /\ j \in LockedJobs
          /\ \A d \in Client : j \in held[d] => c = d

LockedJobsTravelAlone == \A j \in Job \ released : TravelsAlone(j)

\* A registered client has a call on the node it is registered at.
ClientsAreConnected ==
    /\ \A n \in Node : \A c \in clientSubs[n] :
          conn[c].node = n /\ conn[c].pc # "off"
    /\ \A c \in Client :
          /\ conn[c].pc = "removing" => conn[c].done
          /\ conn[c].pc = "off" => ~conn[c].done

\* Without faults every stream that is served is known by its node.
ServedNodesAreKnown ==
    faults = 0 =>
       \A s \in Stream :
          /\ handler[s] \in {"new", "opening", "recv"}
          /\ handler[s] = "recv" => nodeSubs[StreamNode(s)] # None

JobInv ==
    /\ TypeOK
    /\ LocksAreDistinct
    /\ BatchIsUnlocked
    /\ LockedJobsTravelAlone
    /\ ClientsAreConnected
    /\ ServedNodesAreKnown
    /\ LocksLeakOnlyAfterFaults
    /\ DispatcherWaitsForAServedClient

-----------------------------------------------------------------------------
(* What the operators on lists return.                                     *)

Entry == [job : Job, client : Client, expired : BOOLEAN]
LoopType == [pc : {"plan", "load", "send"}, slots : [Client -> Int], skip : SUBSET Job,
             types : SUBSET Type, count : Int, batch : Seq(Job)]

JobTypeData == [known : BOOLEAN, index : Nat, clients : Seq(Client)]

LEMMA NoElements ==
    ASSUME NEW S, NEW q \in Seq(S)
    PROVE  q = <<>> <=> Len(q) = 0
  OBVIOUS

LEMMA TailOfOne ==
    ASSUME NEW S, NEW q \in Seq(S), q # <<>>
    PROVE  Tail(q) = <<>> <=> Len(q) = 1
  <1>1. Tail(q) \in Seq(S) /\ Len(Tail(q)) = Len(q) - 1 /\ Len(q) \in Nat
    OBVIOUS
  <1>2. Tail(q) = <<>> <=> Len(Tail(q)) = 0
    BY <1>1, NoElements
  <1>3. QED
    BY <1>1, <1>2

LEMMA MinIsMember ==
    ASSUME NEW S, S \subseteq Nat, S # {}
    PROVE  Min(S) \in S
  <1>1. PICK x \in S : \A y \in S : ~(<<y, x>> \in OpToRel(<, Nat))
    BY NatLessThanWellFounded, WFMin
  <1>2. ASSUME NEW y \in S, ~(x <= y)
        PROVE  FALSE
    <2>1. y < x /\ y \in Nat /\ x \in Nat
      BY <1>2
    <2>2. <<y, x>> \in Nat \X Nat /\ <<y, x>>[1] < <<y, x>>[2]
      BY <2>1
    <2>3. <<y, x>> \in OpToRel(<, Nat)
      BY <2>2, Zenon DEF OpToRel
    <2>4. QED
      BY <1>1, <2>3
  <1>3. QED
    BY <1>2 DEF Min

\* An increasing enumeration names every member of the set once.
LEMMA AscendingResult ==
    ASSUME NEW K, IsFiniteSet(K), K \subseteq Int, NEW f \in Ascending(K)
    PROVE  /\ f \in Seq(K)
           /\ DOMAIN f = 1 .. Cardinality(K)
           /\ \A a, b \in DOMAIN f : f[a] = f[b] => a = b
           /\ \A k \in K : \E a \in DOMAIN f : f[a] = k
  <1>1. Cardinality(K) \in Nat
    BY FS_CardinalityType
  <1>2. /\ f \in [1 .. Cardinality(K) -> K]
        /\ \A a, b \in 1 .. Cardinality(K) : a < b => f[a] < f[b]
    BY DEF Ascending
  <1>3. f \in Seq(K)
    BY <1>1, <1>2
  <1>4. ASSUME NEW a \in 1 .. Cardinality(K), NEW b \in 1 .. Cardinality(K),
               f[a] = f[b]
        PROVE  a = b
    <2>1. f[a] \in Int
      BY <1>2
    <2>2. ~(f[a] < f[b]) /\ ~(f[b] < f[a])
      BY <1>4, <2>1
    <2>3. ~(a < b) /\ ~(b < a)
      BY <1>2, <2>2
    <2>4. a \in Int /\ b \in Int
      BY <1>1
    <2>5. QED
      BY <2>3, <2>4
  <1>5. f \in Injection(1 .. Cardinality(K), K)
    BY <1>2, <1>4 DEF Injection, IsInjective
  <1>6. Cardinality(1 .. Cardinality(K)) = Cardinality(K)
    BY <1>1, FS_Interval
  <1>7. f \in Surjection(1 .. Cardinality(K), K)
    BY <1>5, <1>6, FS_Injection
  <1>8. QED
    BY <1>2, <1>3, <1>4, <1>7 DEF Surjection

LEMMA RemoveAtResult ==
    ASSUME NEW S, NEW q \in Seq(S), NEW i \in 1 .. Len(q)
    PROVE  /\ RemoveAt(q, i) \in Seq(S)
           /\ Len(RemoveAt(q, i)) = Len(q) - 1
           /\ \A k \in 1 .. (Len(q) - 1) :
                 RemoveAt(q, i)[k] = IF k < i THEN q[k] ELSE q[k + 1]
  <1> DEFINE left == SubSeq(q, 1, i - 1)
             right == SubSeq(q, i + 1, Len(q))
  <1>1. /\ left \in Seq(S) /\ Len(left) = i - 1
        /\ \A k \in 1 .. (i - 1) : left[k] = q[k]
    <2>1. \A k \in 1 .. (i - 1) : q[k] \in S
      OBVIOUS
    <2>2. QED
      BY <2>1, SubSeqProperties
  <1>2. /\ right \in Seq(S) /\ Len(right) = Len(q) - i
        /\ \A k \in 1 .. (Len(q) - i) : right[k] = q[i + k]
    OBVIOUS
  <1>3. RemoveAt(q, i) = left \o right
    BY DEF RemoveAt
  <1> HIDE DEF left, right
  <1>4. /\ left \o right \in Seq(S)
        /\ Len(left \o right) = Len(q) - 1
        /\ \A k \in 1 .. (Len(q) - 1) :
              (left \o right)[k] = IF k <= i - 1 THEN left[k] ELSE right[k - (i - 1)]
    <2>1. Len(left) + Len(right) = Len(q) - 1
      BY <1>1, <1>2
    <2>2. \A k \in 1 .. (Len(left) + Len(right)) :
             (left \o right)[k] = IF k <= Len(left) THEN left[k] ELSE right[k - Len(left)]
      BY <1>1, <1>2, ConcatProperties
    <2>3. left \o right \in Seq(S) /\ Len(left \o right) = Len(left) + Len(right)
      BY <1>1, <1>2, ConcatProperties
    <2>4. QED
      BY <1>1, <2>1, <2>2, <2>3
  <1>5. ASSUME NEW k \in 1 .. (Len(q) - 1)
        PROVE  (left \o right)[k] = IF k < i THEN q[k] ELSE q[k + 1]
    <2>1. CASE k < i
      BY <1>1, <1>4, <2>1
    <2>2. CASE ~(k < i)
      <3>1. k - (i - 1) \in 1 .. (Len(q) - i) /\ i + (k - (i - 1)) = k + 1
        BY <2>2
      <3>2. (left \o right)[k] = right[k - (i - 1)]
        BY <1>4, <2>2
      <3>3. right[k - (i - 1)] = q[i + (k - (i - 1))]
        BY <1>2, <3>1
      <3>4. QED
        BY <2>2, <3>1, <3>2, <3>3
    <2>3. QED
      BY <2>1, <2>2
  <1>6. QED
    BY <1>3, <1>4, <1>5

\* new is the list of locked jobs without some entries, all of jobs in gone.
Shrinks(new, gone) ==
    /\ new \in Seq(Entry)
    /\ \E f \in [DOMAIN new -> DOMAIN distributed] :
          /\ \A a, b \in DOMAIN new : f[a] = f[b] => a = b
          /\ \A a \in DOMAIN new : new[a] = distributed[f[a]]
    /\ \A k \in DOMAIN distributed :
          \/ distributed[k].job \in gone
          \/ \E a \in DOMAIN new : new[a] = distributed[k]

LEMMA KeptResult ==
    ASSUME distributed \in Seq(Entry), NEW gone,
           NEW K, K \subseteq DOMAIN distributed, NEW new \in Kept(K),
           \A k \in DOMAIN distributed : k \notin K => distributed[k].job \in gone
    PROVE  /\ Shrinks(new, gone)
           /\ \A a \in DOMAIN new : \E k \in K : new[a] = distributed[k]
  <1>1. IsFiniteSet(K) /\ K \subseteq Int /\ Cardinality(K) \in Nat
    <2>1. IsFiniteSet(1 .. Len(distributed)) /\ K \subseteq 1 .. Len(distributed)
      BY FS_Interval
    <2>2. QED
      BY <2>1, FS_Subset, FS_CardinalityType
  <1>2. PICK f \in Ascending(K) : new = [i \in 1 .. Cardinality(K) |-> distributed[f[i]]]
    BY DEF Kept
  <1>3. /\ f \in [1 .. Cardinality(K) -> K]
        /\ \A a, b \in DOMAIN f : f[a] = f[b] => a = b
        /\ \A k \in K : \E a \in DOMAIN f : f[a] = k
    BY <1>1, AscendingResult DEF Ascending
  <1>4. DOMAIN new = 1 .. Cardinality(K) /\ \A a \in DOMAIN new : new[a] = distributed[f[a]]
    BY <1>2
  <1>5. new \in Seq(Entry)
    <2>1. \A a \in 1 .. Cardinality(K) : distributed[f[a]] \in Entry
      BY <1>3
    <2>2. QED
      BY <1>1, <1>2, <2>1
  <1>6. f \in [DOMAIN new -> DOMAIN distributed]
    BY <1>3, <1>4
  <1>7. \A k \in K : \E a \in DOMAIN new : new[a] = distributed[k]
    BY <1>3, <1>4
  <1>8. QED
    BY <1>3, <1>4, <1>5, <1>6, <1>7 DEF Shrinks

\* completeJob and failJob remove one entry, of their job.
LEMMA FreeResult ==
    ASSUME distributed \in Seq(Entry), NEW j
    PROVE  Shrinks(Free(j), {j})
  <1> DEFINE At == {i \in DOMAIN distributed : distributed[i].job = j}
             p == Min(At)
  <1>1. CASE At = {}
    <2>1. Free(j) = distributed
      BY <1>1 DEF Free
    <2>2. [i \in DOMAIN distributed |-> i] \in [DOMAIN distributed -> DOMAIN distributed]
      OBVIOUS
    <2>3. QED
      BY <2>1, <2>2 DEF Shrinks
  <1>2. CASE At # {}
    <2>1. p \in At
      <3>1. At \subseteq Nat
        OBVIOUS
      <3>2. QED
        BY <1>2, <3>1, MinIsMember
    <2>2. Free(j) = RemoveAt(distributed, p)
      BY <1>2 DEF Free
    <2> HIDE DEF p
    <2> DEFINE new == RemoveAt(distributed, p)
               f == [k \in 1 .. (Len(distributed) - 1) |-> IF k < p THEN k ELSE k + 1]
    <2>3. /\ new \in Seq(Entry) /\ Len(new) = Len(distributed) - 1
          /\ \A k \in 1 .. (Len(distributed) - 1) :
                new[k] = IF k < p THEN distributed[k] ELSE distributed[k + 1]
      BY <2>1, RemoveAtResult
    <2> HIDE DEF new
    <2>4. DOMAIN new = 1 .. (Len(distributed) - 1)
      BY <2>3
    <2>5. /\ f \in [DOMAIN new -> DOMAIN distributed]
          /\ \A a, b \in DOMAIN new : f[a] = f[b] => a = b
          /\ \A a \in DOMAIN new : new[a] = distributed[f[a]]
      BY <2>1, <2>3, <2>4
    <2>6. ASSUME NEW k \in DOMAIN distributed, k # p
          PROVE  \E a \in DOMAIN new : new[a] = distributed[k]
      <3>1. CASE k < p
        BY <2>1, <2>3, <2>4, <3>1
      <3>2. CASE p < k
        <4>1. k - 1 \in DOMAIN new /\ ~(k - 1 < p) /\ (k - 1) + 1 = k
          BY <2>1, <2>4, <3>2
        <4>2. QED
          BY <2>3, <2>4, <4>1
      <3>3. QED
        BY <2>1, <2>6, <3>1, <3>2
    <2>7. Free(j) = new /\ distributed[p].job = j
      BY <2>1, <2>2 DEF new
    <2>8. \A k \in DOMAIN distributed :
             distributed[k].job \in {j} \/ \E a \in DOMAIN new : new[a] = distributed[k]
      BY <2>6, <2>7
    <2> HIDE DEF f
    <2>9. Shrinks(new, {j})
      BY <2>3, <2>5, <2>8 DEF Shrinks
    <2>10. QED
      BY <2>7, <2>9
  <1>3. QED
    BY <1>1, <1>2

LEMMA WithoutResult ==
    ASSUME NEW q \in Seq(Client), NEW c
    PROVE  Without(q, c) \in Seq(Client)
  <1>1. CASE c \in ToSet(q)
    <2> DEFINE At == {i \in DOMAIN q : q[i] = c}
    <2>1. At # {} /\ At \subseteq Nat
      BY <1>1 DEF ToSet
    <2>2. Min(At) \in 1 .. Len(q)
      <3>1. At \subseteq 1 .. Len(q)
        OBVIOUS
      <3> HIDE DEF At
      <3>2. QED
        BY <2>1, <3>1, MinIsMember
    <2>3. QED
      BY <1>1, <2>2, RemoveAtResult DEF Without
  <1>2. CASE c \notin ToSet(q)
    BY <1>2 DEF Without
  <1>3. QED
    BY <1>1, <1>2

\* The round robin never leaves the list of clients.
LEMMA PickIndexInRange ==
    ASSUME NEW data \in JobTypeData,
           NEW slots, data.clients # <<>>
    PROVE  PickIndex(data, slots) \in 0 .. (Len(data.clients) - 1)
  <1> DEFINE n == Len(data.clients)
             size == RoundSize(n)
             first == IF data.index + 1 >= n - 1 THEN 0 ELSE data.index + 1
             At(k) == (first + k) % size
             free == {k \in 0 .. (size - 1) : slots[data.clients[At(k) + 1]] > 0}
  <1>1. n \in Nat /\ n >= 1 /\ data.index \in Nat
    BY DEF JobTypeData
  <1>2. size \in Nat /\ size >= 1 /\ size <= n
    BY <1>1 DEF RoundSize
  <1>3. first \in 0 .. (n - 1)
    BY <1>1
  <1>4. PickIndex(data, slots) = IF free = {} THEN first ELSE At(Min(free))
    BY DEF PickIndex
  <1>5. ASSUME NEW k \in Nat
        PROVE  At(k) \in 0 .. (n - 1)
    <2> HIDE DEF size, first, n
    <2>1. first + k \in Nat
      BY <1>1, <1>3
    <2>2. (first + k) % size \in 0 .. (size - 1)
      BY <1>2, <2>1
    <2>3. QED
      BY <1>1, <1>2, <2>2
  <1>6. free # {} => Min(free) \in Nat
    <2> HIDE DEF At, first
    <2>1. free \subseteq Nat
      BY <1>2
    <2>2. QED
      BY <2>1, MinIsMember
  <1> HIDE DEF free, At, size, first
  <1>7. QED
    BY <1>3, <1>4, <1>5, <1>6

-----------------------------------------------------------------------------
(* Types.                                                                  *)

LEMMA NoLoopType == NoLoop \in LoopType
  BY DEF NoLoop, LoopType

LEMMA InitTypes == Init => TypeOK
  BY JobManagerAssumption, NoLoopType 
       DEF Init, TypeOK, ServerTypes, LoopTypes, StreamTypes, ClientTypes, NoLoop,
           LoopType, Off, Idle

LEMMA PlanTypes ==
    ASSUME TypeOK, Plan
    PROVE  /\ TypeOK'
           /\ loop'.batch = <<>>
           /\ loop'.pc = "load" => loop'.skip = {distributed'[i].job : i \in DOMAIN distributed'}
  <1>1. PICK live \in Kept({i \in DOMAIN distributed : ~distributed[i].expired}) :
           /\ distributed' = live
           /\ loop' = IF MaxActive * Cardinality(Listed) - Len(live) <= 0 THEN NoLoop
                      ELSE [NoLoop EXCEPT !.pc = "load",
                              !.slots = [c \in Client |->
                                 (IF c \in Listed THEN MaxActive ELSE 0)
                                 - Cardinality({i \in DOMAIN live : live[i].client = c})],
                              !.count = MaxActive * Cardinality(Listed) - Len(live),
                              !.types = {t \in Type : jobTypes[t].known},
                              !.skip = {live[i].job : i \in DOMAIN live}]
    BY DEF Plan
  <1>2. live \in Seq(Entry)
    <2>1. distributed \in Seq(Entry) /\ \A k \in DOMAIN distributed : distributed[k].job \in Job
      <3>1. distributed \in Seq(Entry)
        BY DEF TypeOK, LoopTypes, Entry
      <3>2. \A k \in DOMAIN distributed : distributed[k] \in Entry
        BY <3>1
      <3>3. QED
        BY <3>1, <3>2 DEF Entry
    <2>2. Shrinks(live, Job)
      BY <2>1, KeptResult
    <2>3. QED
      BY <2>2 DEF Shrinks
  <1>3. Cardinality(Listed) \in Nat
    <2>1. Listed \subseteq Client
      BY DEF Listed, ToSet, TypeOK, ServerTypes
    <2>2. QED
      BY <2>1, JobManagerAssumption, FS_Subset, FS_CardinalityType
  <1>4. ASSUME NEW c \in Client
        PROVE  Cardinality({i \in DOMAIN live : live[i].client = c}) \in Nat
    <2>1. IsFiniteSet(1 .. Len(live))
      BY <1>2, FS_Interval
    <2>2. {i \in DOMAIN live : live[i].client = c} \subseteq 1 .. Len(live)
      BY <1>2
    <2>3. QED
      BY <2>1, <2>2, FS_Subset, FS_CardinalityType
  <1>5. [c \in Client |-> (IF c \in Listed THEN MaxActive ELSE 0)
            - Cardinality({i \in DOMAIN live : live[i].client = c})] \in [Client -> Int]
    BY <1>4, JobManagerAssumption
  <1>6. MaxActive * Cardinality(Listed) - Len(live) \in Int
    BY <1>2, <1>3, JobManagerAssumption
  <1>7. {live[i].job : i \in DOMAIN live} \subseteq Job
    <2>1. \A i \in DOMAIN live : live[i] \in Entry
      BY <1>2
    <2>2. QED
      BY <2>1 DEF Entry
  <1>8. {t \in Type : jobTypes[t].known} \subseteq Type
    OBVIOUS
  <1>9. /\ loop' \in LoopType
        /\ loop'.pc # "send" /\ loop'.batch = <<>>
        /\ loop'.pc = "load" => loop'.skip = {live[i].job : i \in DOMAIN live}
    <2>1. NoLoop.pc = "plan" /\ NoLoop.batch = <<>>
      BY DEF NoLoop
    <2>2. CASE MaxActive * Cardinality(Listed) - Len(live) <= 0
      BY <1>1, <2>1, <2>2, NoLoopType
    <2>3. CASE ~(MaxActive * Cardinality(Listed) - Len(live) <= 0)
      BY <1>1, <1>5, <1>6, <1>7, <2>1, <2>3, NoLoopType DEF LoopType
    <2>4. QED
      BY <2>2, <2>3
  <1>10. QED
    <2>1. UNCHANGED <<jobState, released, serverVars, handler, up, down, clientVars,
                      requests, faults>>
      BY DEF Plan
    <2>2. LoopTypes'
      BY <1>1, <1>2, <1>9, <2>1 DEF TypeOK, LoopTypes, Entry, LoopType
    <2>3. (ServerTypes /\ StreamTypes /\ ClientTypes)'
      BY <2>1 DEF TypeOK, ServerTypes, StreamTypes, ClientTypes, serverVars, clientVars
    <2>4. QED
      BY <1>1, <1>9, <2>2, <2>3 DEF TypeOK

LEMMA LoadTypes ==
    ASSUME TypeOK, Load
    PROVE  TypeOK'
  <1> DEFINE jobs == LoadJobsToDistribute(loop.types, loop.skip, loop.count)
  <1>1. PICK batch \in Ascending(jobs) :
           loop' = IF batch = <<>> THEN NoLoop
                   ELSE [loop EXCEPT !.pc = "send", !.batch = batch]
    BY DEF Load
  <1>2. jobs \subseteq Job
    BY DEF LoadJobsToDistribute
  <1>3. batch \in Seq(Job)
    <2>1. IsFiniteSet(jobs) /\ jobs \subseteq Int
      BY <1>2, JobManagerAssumption, FS_Subset
    <2>2. batch \in Seq(jobs)
      BY <2>1, AscendingResult
    <2>3. QED
      BY <1>2, <2>2, SeqMonotonic
  <1> HIDE DEF jobs
  <1>4. loop \in LoopType /\ NoLoop.pc = "plan" /\ NoLoop.batch = <<>>
    BY DEF TypeOK, LoopTypes, LoopType, NoLoop
  <1>5. loop' \in LoopType /\ ((loop'.pc = "send") <=> (loop'.batch # <<>>))
    <2>1. CASE batch = <<>>
      BY <1>1, <1>4, <2>1, NoLoopType
    <2>2. CASE batch # <<>>
      <3>1. loop' = [loop EXCEPT !.pc = "send", !.batch = batch]
        BY <1>1, <2>2
      <3>2. loop' \in LoopType /\ loop'.pc = "send" /\ loop'.batch = batch
        BY <1>3, <1>4, <3>1 DEF LoopType
      <3>3. QED
        BY <2>2, <3>2
    <2>3. QED
      BY <2>1, <2>2
  <1>6. UNCHANGED <<jobState, released, serverVars, distributed, handler, up, down,
                    clientVars, requests, faults>>
    BY DEF Load
  <1>7. QED
    <2>1. LoopTypes'
      <3>1. (jobState \in [Job -> {"waiting", "done"}] /\ distributed \in Seq(Entry)
              /\ released \subseteq Job)'
        BY <1>6 DEF TypeOK, LoopTypes, Entry
      <3>2. QED
        BY <1>5, <3>1 DEF LoopTypes, LoopType, Entry
    <2>2. (ServerTypes /\ StreamTypes /\ ClientTypes)'
      BY <1>6 DEF TypeOK, ServerTypes, StreamTypes, ClientTypes, serverVars, clientVars
    <2>3. QED
      BY <2>1, <2>2 DEF TypeOK

LEMMA SkipTypes ==
    ASSUME TypeOK, loop.pc = "send"
    PROVE  /\ Skip \in LoopType
           /\ (Skip.pc = "send") <=> (Skip.batch # <<>>)
           /\ Skip.batch = Tail(loop.batch)
           /\ Skip.pc # "load"
           /\ Head(loop.batch) \in Job
  <1>1. loop.batch \in Seq(Job) /\ loop.batch # <<>>
    BY DEF TypeOK, LoopTypes
  <1>2. Tail(loop.batch) \in Seq(Job) /\ Len(Tail(loop.batch)) = Len(loop.batch) - 1
    BY <1>1
  <1>3. Tail(loop.batch) = <<>> <=> Len(loop.batch) = 1
    BY <1>1, TailOfOne
  <1>4. loop \in LoopType
    BY DEF TypeOK, LoopTypes, LoopType
  <1>5. CASE Len(loop.batch) = 1
    <2>1. Skip = [loop EXCEPT !.pc = "plan", !.batch = Tail(loop.batch)]
      BY <1>4, <1>5 DEF Skip, LoopType
    <2>2. Skip \in LoopType /\ Skip.pc = "plan" /\ Skip.batch = Tail(loop.batch)
      BY <1>2, <1>4, <2>1 DEF LoopType
    <2>3. QED
      BY <1>1, <1>3, <1>5, <2>2
  <1>6. CASE Len(loop.batch) # 1
    <2>1. Skip = [loop EXCEPT !.pc = "send", !.batch = Tail(loop.batch)]
      BY <1>4, <1>6 DEF Skip, LoopType
    <2>2. Skip \in LoopType /\ Skip.pc = "send" /\ Skip.batch = Tail(loop.batch)
      BY <1>2, <1>4, <2>1 DEF LoopType
    <2>3. QED
      BY <1>1, <1>3, <1>6, <2>2
  <1>7. QED
    BY <1>5, <1>6

\* Job j is locked for a client c and perhaps sent on stream s.
Locks(j, c, s) ==
    /\ distributed' = Append(distributed, [job |-> j, client |-> c, expired |-> FALSE])
    /\ \/ down' = down
       \/ down' = [down EXCEPT ![s] = Append(@, <<j, c>>)]

\* SendJob drops the first job of the batch or locks it.
LEMMA SendJobCases ==
    ASSUME TypeOK, SendJob
    PROVE  \/ UNCHANGED <<distributed, down>>
           \/ \E c \in Client, s \in Stream : Locks(Head(loop.batch), c, s)
  <1> DEFINE j == Head(loop.batch)
             data == jobTypes[TypeOf[j]]
             index == PickIndex(data, loop.slots)
             c == data.clients[index + 1]
             s == subscriptions[TypeOf[j]][c]
  <1>1. j \in Job /\ TypeOf[j] \in Type
    BY SkipTypes, JobManagerAssumption DEF SendJob
  <1>2. CASE data.clients = <<>> \/ s = None
    BY <1>2 DEF SendJob
  <1>3. CASE data.clients # <<>> /\ s # None
    <2>1. data \in JobTypeData
      BY <1>1 DEF TypeOK, ServerTypes, JobTypeData
    <2>2. index + 1 \in 1 .. Len(data.clients)
      <3>1. index \in 0 .. (Len(data.clients) - 1)
        BY <1>3, <2>1, PickIndexInRange
      <3> HIDE DEF index
      <3>2. QED
        BY <2>1, <3>1 DEF JobTypeData
    <2>3. c \in Client
      <3> HIDE DEF index, data
      <3>1. QED
        BY <2>1, <2>2 DEF JobTypeData
    <2>4. s \in Stream
      <3> HIDE DEF c
      <3>1. QED
        BY <1>1, <1>3, <2>3 DEF TypeOK, ServerTypes
    <2>5. Locks(j, c, s)
      BY <1>3 DEF SendJob, Locks
    <2> HIDE DEF s, c
    <2>6. QED
      BY <2>3, <2>4, <2>5
  <1>4. QED
    BY <1>2, <1>3

LEMMA SendJobTypes ==
    ASSUME TypeOK, SendJob
    PROVE  TypeOK'
  <1> DEFINE j == Head(loop.batch)
  <1>1. j \in Job /\ TypeOf[j] \in Type
    BY SkipTypes, JobManagerAssumption DEF SendJob
  <1>2. distributed' \in Seq(Entry) /\ down' \in [Stream -> Seq(Job \X Client)]
    <2>1. distributed \in Seq(Entry) /\ down \in [Stream -> Seq(Job \X Client)]
      BY DEF TypeOK, LoopTypes, StreamTypes, Entry
    <2>2. ASSUME NEW c \in Client, NEW s \in Stream, Locks(j, c, s)
          PROVE  distributed' \in Seq(Entry) /\ down' \in [Stream -> Seq(Job \X Client)]
      <3>1. [job |-> j, client |-> c, expired |-> FALSE] \in Entry
        BY <1>1 DEF Entry
      <3>2. <<j, c>> \in Job \X Client
        BY <1>1
      <3> HIDE DEF j
      <3>3. Append(down[s], <<j, c>>) \in Seq(Job \X Client)
        BY <2>1, <3>2
      <3>4. distributed' \in Seq(Entry)
        BY <2>1, <2>2, <3>1 DEF Locks
      <3>5. down' \in [Stream -> Seq(Job \X Client)]
        BY <2>1, <2>2, <3>3 DEF Locks
      <3>6. QED
        BY <3>4, <3>5
    <2>3. QED
      BY <2>1, <2>2, SendJobCases
  <1>4. jobTypes' \in [Type -> JobTypeData]
    <2> DEFINE data == jobTypes[TypeOf[j]]
               index == PickIndex(data, loop.slots)
    <2>1. data \in JobTypeData
      BY <1>1 DEF TypeOK, ServerTypes, JobTypeData
    <2>2. data.clients # <<>> => index \in Nat
      <3> HIDE DEF data
      <3>1. QED
        BY <2>1, PickIndexInRange
    <2>3. jobTypes' = jobTypes \/
          (data.clients # <<>> /\ jobTypes' = [jobTypes EXCEPT ![TypeOf[j]].index = index])
      BY DEF SendJob
    <2> HIDE DEF index, data, j
    <2>4. jobTypes \in [Type -> JobTypeData]
      BY DEF TypeOK, ServerTypes, JobTypeData
    <2>5. index \in Nat =>
             [jobTypes EXCEPT ![TypeOf[j]].index = index] \in [Type -> JobTypeData]
      BY <2>4 DEF JobTypeData
    <2>6. QED
      BY <2>2, <2>3, <2>4, <2>5
  <1>5. loop' = Skip /\ loop.pc = "send"
    BY DEF SendJob
  <1>6. QED
    <2>1. UNCHANGED <<jobState, released, nodeSubs, leaked, clientMu, subscriptions,
                      handler, up, clientVars, requests, faults>>
      BY DEF SendJob
    <2>2. LoopTypes'
      BY <1>2, <1>5, <2>1, SkipTypes DEF TypeOK, LoopTypes, Entry, LoopType
    <2>3. (ServerTypes /\ StreamTypes /\ ClientTypes)'
      BY <1>2, <1>4, <2>1
         DEF TypeOK, ServerTypes, StreamTypes, ClientTypes, JobTypeData, clientVars
    <2>4. QED
      BY <2>2, <2>3 DEF TypeOK

\* The changes of the round robin of a job type.
LEMMA JobTypeChanges ==
    ASSUME NEW types \in [Type -> JobTypeData], NEW t \in Type, NEW c \in Client
    PROVE  /\ [types EXCEPT ![t].known = TRUE, ![t].clients = Append(@, c)]
                 \in [Type -> JobTypeData]
           /\ [types EXCEPT ![t].clients = Without(@, c)] \in [Type -> JobTypeData]
  <1>1. types[t].clients \in Seq(Client)
    BY DEF JobTypeData
  <1>2. Append(types[t].clients, c) \in Seq(Client)
    BY <1>1
  <1>3. Without(types[t].clients, c) \in Seq(Client)
    BY <1>1, WithoutResult
  <1>4. QED
    BY <1>2, <1>3 DEF JobTypeData

\* The request at the head of a stream.
LEMMA RequestTypes ==
    ASSUME TypeOK, NEW s \in Stream, NEW kind, Receives(s, kind)
    PROVE  /\ Head(up[s])[2] \in Client /\ Head(up[s])[3] \in Type \cup {None}
           /\ down' = down => StreamTypes'
           /\ StreamNode(s) \in Node
  <1>1. up \in [Stream -> Seq(Request)] /\ up[s] # <<>> /\ up' = [up EXCEPT ![s] = Tail(@)]
    BY DEF TypeOK, StreamTypes, Receives
  <1>2. Head(up[s]) \in Request /\ Tail(up[s]) \in Seq(Request)
    BY <1>1
  <1>3. up' \in [Stream -> Seq(Request)]
    BY <1>1, <1>2
  <1>4. QED
    BY <1>2, <1>3 DEF TypeOK, StreamTypes, Request, Stream, StreamNode

LEMMA ServeTypes ==
    ASSUME TypeOK, NEW s \in Stream,
           \/ addNodeSubscription(s) \/ removeNode(s) \/ removeNodeSubs(s)
           \/ subscribeNodeToPartition(s)
    PROVE  TypeOK'
  <1>1. StreamNode(s) \in Node
    BY DEF Stream, StreamNode
  <1>2. ServerTypes'
    <2> USE DEF TypeOK, ServerTypes
    <2>1. CASE addNodeSubscription(s)
      BY <1>1, <2>1 DEF addNodeSubscription
    <2>2. CASE removeNode(s)
      BY <1>1, <2>2 DEF removeNode
    <2>3. CASE removeNodeSubs(s)
      <3>1. subscriptions' \in [Type -> [Client -> Stream \cup {None}]]
        BY <2>3 DEF removeNodeSubs
      <3>2. QED
        BY <2>3, <3>1 DEF removeNodeSubs
    <2>4. CASE subscribeNodeToPartition(s)
      BY <2>4 DEF subscribeNodeToPartition, serverVars
    <2>5. QED
      BY <2>1, <2>2, <2>3, <2>4
  <1>3. UNCHANGED <<jobState, released, distributed, loop, up, down, clientVars, requests, faults>>
    BY DEF addNodeSubscription, removeNode, removeNodeSubs, subscribeNodeToPartition
  <1>4. QED
    BY <1>2, <1>3 DEF TypeOK, LoopTypes, StreamTypes, ClientTypes, clientVars

LEMMA SubscribeTypes ==
    ASSUME TypeOK, NEW s \in Stream, subscribeClient(s)
    PROVE  TypeOK'
  <1> DEFINE c == Head(up[s])[2]
             t == Head(up[s])[3]
  <1>1. Receives(s, "subscribe") /\ UNCHANGED <<jobState, released, nodeSubs, distributed,
           loop, down, clientVars, requests, faults>>
    BY DEF subscribeClient
  <1>2. c \in Client /\ StreamTypes' /\ StreamNode(s) \in Node
    BY <1>1, RequestTypes
  <1>3. leaked' \in Nat /\ clientMu' \in Stream \cup {None}
    BY DEF subscribeClient, TypeOK, ServerTypes
  <1>4. handler' = handler \/ handler' = [handler EXCEPT ![s] = "subscribing"]
    BY DEF subscribeClient
  <1>5. \/ UNCHANGED <<subscriptions, jobTypes>>
        \/ /\ subscriptions' = [subscriptions EXCEPT ![t][c] = nodeSubs[StreamNode(s)]]
           /\ jobTypes' = [jobTypes EXCEPT ![t].known = TRUE, ![t].clients = Append(@, c)]
    BY DEF subscribeClient
  <1> HIDE DEF c, t
  <1>6. jobTypes' \in [Type -> JobTypeData]
    <2>1. jobTypes \in [Type -> JobTypeData]
      BY DEF TypeOK, ServerTypes, JobTypeData
    <2>2. CASE t \in Type
      <3> DEFINE new == [jobTypes EXCEPT ![t].known = TRUE, ![t].clients = Append(@, c)]
      <3>1. new \in [Type -> JobTypeData]
        BY <1>2, <2>1, <2>2, JobTypeChanges
      <3>2. jobTypes' = jobTypes \/ jobTypes' = new
        BY <1>5
      <3> HIDE DEF new
      <3>3. QED
        BY <2>1, <3>1, <3>2
    <2>3. CASE t \notin Type
      <3>1. jobTypes' = jobTypes
        BY <1>5, <2>1, <2>3
      <3>2. QED
        BY <2>1, <3>1
    <2>4. QED
      BY <2>2, <2>3
  <1>7. subscriptions' \in [Type -> [Client -> Stream \cup {None}]]
    <2>1. subscriptions \in [Type -> [Client -> Stream \cup {None}]]
          /\ nodeSubs[StreamNode(s)] \in Stream \cup {None}
      BY <1>2 DEF TypeOK, ServerTypes
    <2>2. QED
      BY <1>2, <1>5, <2>1
  <1>8. ServerTypes'
    BY <1>1, <1>3, <1>4, <1>6, <1>7 DEF TypeOK, ServerTypes, JobTypeData
  <1>9. QED
    BY <1>1, <1>2, <1>8 DEF TypeOK, LoopTypes, ClientTypes, clientVars

LEMMA UnsubscribeTypes ==
    ASSUME TypeOK, NEW s \in Stream, unsubscribeClient(s)
    PROVE  TypeOK'
  <1> DEFINE c == Head(up[s])[2]
             t == Head(up[s])[3]
  <1>1. Receives(s, "unsubscribe") /\ UNCHANGED <<jobState, released, nodeSubs, leaked,
           clientMu, distributed, loop, handler, down, clientVars, requests, faults>>
    BY DEF unsubscribeClient
  <1>2. c \in Client /\ StreamTypes'
    BY <1>1, RequestTypes
  <1>3. /\ subscriptions' = [subscriptions EXCEPT ![t][c] = None]
        /\ jobTypes' = [jobTypes EXCEPT ![t].clients = Without(@, c)]
    BY DEF unsubscribeClient
  <1> HIDE DEF c, t
  <1>4. jobTypes' \in [Type -> JobTypeData]
    <2>1. jobTypes \in [Type -> JobTypeData]
      BY DEF TypeOK, ServerTypes, JobTypeData
    <2>2. CASE t \in Type
      BY <1>2, <1>3, <2>1, <2>2, JobTypeChanges
    <2>3. CASE t \notin Type
      BY <1>3, <2>1, <2>3
    <2>4. QED
      BY <2>2, <2>3
  <1>5. ServerTypes'
    <2>1. subscriptions' \in [Type -> [Client -> Stream \cup {None}]]
      BY <1>2, <1>3 DEF TypeOK, ServerTypes
    <2>2. QED
      BY <1>1, <1>4, <2>1 DEF TypeOK, ServerTypes, JobTypeData
  <1>6. QED
    BY <1>1, <1>2, <1>5 DEF TypeOK, LoopTypes, ClientTypes, clientVars

\* The server forgets a client: only entries of released jobs leave the list.
LEMMA RemovalShrinks ==
    ASSUME TypeOK, NEW s \in Stream, removeClientFromServer(s)
    PROVE  /\ Shrinks(distributed', released')
           /\ released \subseteq released' /\ released' \subseteq Job
  <1> DEFINE c == Head(up[s])[2]
  <1>1. /\ distributed' \in Kept({i \in DOMAIN distributed : distributed[i].client # c})
        /\ released' = released \cup {distributed[i].job : i \in
                          {k \in DOMAIN distributed : distributed[k].client = c}}
    BY DEF removeClientFromServer
  <1>2. distributed \in Seq(Entry)
    BY DEF TypeOK, LoopTypes, Entry
  <1>3. \A k \in DOMAIN distributed : distributed[k].job \in Job
    <2>1. \A k \in DOMAIN distributed : distributed[k] \in Entry
      BY <1>2
    <2>2. QED
      BY <2>1 DEF Entry
  <1> HIDE DEF c
  <1>4. \A k \in DOMAIN distributed :
           k \notin {i \in DOMAIN distributed : distributed[i].client # c} =>
              distributed[k].job \in released'
    BY <1>1
  <1>5. QED
    <2>1. Shrinks(distributed', released')
      BY <1>1, <1>2, <1>4, KeptResult
    <2>2. released \subseteq Job
      BY DEF TypeOK, LoopTypes
    <2>3. QED
      BY <1>1, <1>3, <2>1, <2>2

LEMMA RemovalTypes ==
    ASSUME TypeOK, NEW s \in Stream, removeClientFromServer(s)
    PROVE  TypeOK'
  <1> DEFINE c == Head(up[s])[2]
  <1>1. Receives(s, "removeAll") /\ UNCHANGED <<jobState, nodeSubs, leaked, clientMu, loop,
           handler, down, clientVars, requests, faults>>
    BY DEF removeClientFromServer
  <1>2. c \in Client /\ StreamTypes'
    BY <1>1, RequestTypes
  <1>3. /\ subscriptions' = [u \in Type |-> [subscriptions[u] EXCEPT ![c] = None]]
        /\ jobTypes' = [u \in Type |->
              IF Without(jobTypes[u].clients, c) = <<>>
              THEN [known |-> FALSE, index |-> 0, clients |-> <<>>]
              ELSE [jobTypes[u] EXCEPT !.clients = Without(jobTypes[u].clients, c)]]
    BY DEF removeClientFromServer
  <1> HIDE DEF c
  <1>4. jobTypes' \in [Type -> JobTypeData]
    <2>1. jobTypes \in [Type -> JobTypeData]
      BY DEF TypeOK, ServerTypes, JobTypeData
    <2>2. ASSUME NEW u \in Type
          PROVE  jobTypes'[u] \in JobTypeData
      <3>1. Without(jobTypes[u].clients, c) \in Seq(Client)
        BY <2>1, WithoutResult DEF JobTypeData
      <3>2. [jobTypes[u] EXCEPT !.clients = Without(jobTypes[u].clients, c)] \in JobTypeData
        BY <2>1, <3>1 DEF JobTypeData
      <3>3. [known |-> FALSE, index |-> 0, clients |-> <<>>] \in JobTypeData
        BY DEF JobTypeData
      <3>4. QED
        BY <1>3, <3>2, <3>3
    <2>3. QED
      BY <1>3, <2>2
  <1>5. ServerTypes'
    <2>1. subscriptions' \in [Type -> [Client -> Stream \cup {None}]]
      BY <1>2, <1>3 DEF TypeOK, ServerTypes
    <2>2. QED
      BY <1>1, <1>4, <2>1 DEF TypeOK, ServerTypes, JobTypeData
  <1>6. LoopTypes'
    BY <1>1, RemovalShrinks DEF TypeOK, LoopTypes, Shrinks, Entry
  <1>7. QED
    BY <1>1, <1>2, <1>5, <1>6 DEF TypeOK, ClientTypes, clientVars

LEMMA WorkerTypes ==
    ASSUME TypeOK, NEW c \in Client, NEW j \in Job, Work(c, j)
    PROVE  TypeOK'
  <1>1. distributed \in Seq(Entry)
    BY DEF TypeOK, LoopTypes, Entry
  <1>2. Free(j) \in Seq(Entry)
    BY <1>1, FreeResult DEF Shrinks
  <1>3. /\ held' = [held EXCEPT ![c] = @ \ {j}]
        /\ jobState' = [jobState EXCEPT ![j] = "done"]
        /\ distributed' = Free(j)
        /\ UNCHANGED <<released, serverVars, loop, handler, up, down, gen, clientSubs, conn,
                       inflight, dispatcher, requests, faults>>
    BY DEF Work, completeJob, failJob
  <1>4. LoopTypes'
    BY <1>2, <1>3 DEF TypeOK, LoopTypes, Entry
  <1>5. (ServerTypes /\ StreamTypes)'
    BY <1>3 DEF TypeOK, ServerTypes, StreamTypes, serverVars
  <1>6. ClientTypes'
    BY <1>3 DEF TypeOK, ClientTypes
  <1>7. QED
    BY <1>4, <1>5, <1>6 DEF TypeOK

\* The requests that a node sends to the server.
LEMMA BroadcastTypes ==
    ASSUME up \in [Stream -> Seq(Request)], NEW n, NEW req \in Request, Broadcast(n, req)
    PROVE  up' \in [Stream -> Seq(Request)]
  BY DEF Broadcast

LEMMA RemoveClientTypes ==
    ASSUME TypeOK, NEW n, NEW c \in Client, removeClient(n, c)
    PROVE  up' \in [Stream -> Seq(Request)] /\ clientSubs' \in [Node -> SUBSET Client]
  <1>1. <<"removeAll", c, None>> \in Request
    BY DEF Request
  <1>2. up \in [Stream -> Seq(Request)] /\ clientSubs \in [Node -> SUBSET Client]
    BY DEF TypeOK, StreamTypes, ClientTypes
  <1>3. CASE c \in clientSubs[n]
    <2>1. Broadcast(n, <<"removeAll", c, None>>) /\ clientSubs' = [clientSubs EXCEPT ![n] = @ \ {c}]
      BY <1>3 DEF removeClient
    <2>2. up' \in [Stream -> Seq(Request)]
      BY <1>1, <1>2, <2>1, BroadcastTypes
    <2>3. QED
      BY <1>2, <2>1, <2>2
  <1>4. CASE c \notin clientSubs[n]
    BY <1>2, <1>4 DEF removeClient
  <1>5. QED
    BY <1>3, <1>4

\* The steps of a node and its workers that send nothing to the server.
NodeStep ==
    \/ \E c \in Client, n \in Node : addClient(c, n)
    \/ \E c \in Client, k \in {"subscribe", "unsubscribe"}, t \in Type :
          recvClientRequest(c, k, t)
    \/ \E c \in Client : streamDone(c) \/ Disconnect(c)
    \/ \E n \in Node : sendClientJobs(n)

LEMMA NodeTypes ==
    ASSUME TypeOK, NodeStep
    PROVE  TypeOK'
  <1>1. UNCHANGED <<jobState, released, serverVars, distributed, loop, handler, up, down>>
    BY DEF NodeStep, addClient, recvClientRequest, streamDone, Disconnect, sendClientJobs
  <1>2. (ServerTypes /\ LoopTypes /\ StreamTypes)'
    BY <1>1 DEF TypeOK, ServerTypes, LoopTypes, StreamTypes, serverVars
  <1>3. ClientTypes'
    <2> USE DEF TypeOK, ClientTypes
    <2>1. ASSUME NEW c \in Client, NEW n \in Node, addClient(c, n)
          PROVE  ClientTypes'
      BY <2>1 DEF addClient
    <2>2. ASSUME NEW c \in Client, NEW k \in {"subscribe", "unsubscribe"}, NEW t \in Type,
                 recvClientRequest(c, k, t)
          PROVE  ClientTypes'
      <3>1. conn[c].node \in Node
        BY <2>2 DEF recvClientRequest
      <3>2. QED
        BY <2>2, <3>1 DEF recvClientRequest
    <2>3. ASSUME NEW c \in Client, streamDone(c)
          PROVE  ClientTypes'
      BY <2>3 DEF streamDone
    <2>4. ASSUME NEW c \in Client, Disconnect(c)
          PROVE  ClientTypes'
      <3>1. /\ conn' = [conn EXCEPT ![c].done = TRUE] /\ held' = [held EXCEPT ![c] = {}]
            /\ faults' = faults + 1
            /\ UNCHANGED <<gen, clientSubs, inflight, dispatcher, requests>>
        BY <2>4 DEF Disconnect
      <3>2. /\ conn' \in [Client -> [pc : {"off", "serving", "removing"},
                                     node : Node \cup {None}, done : BOOLEAN]]
            /\ \A d \in Client : conn'[d].pc # "off" => conn'[d].node \in Node
        <4>1. \A d \in Client : conn'[d].pc = conn[d].pc /\ conn'[d].node = conn[d].node
          BY <3>1
        <4>2. [conn[c] EXCEPT !.done = TRUE] \in [pc : {"off", "serving", "removing"},
                                                  node : Node \cup {None}, done : BOOLEAN]
          OBVIOUS
        <4>3. QED
          BY <3>1, <4>1, <4>2
      <3>3. held' \in [Client -> SUBSET Job] /\ faults' \in Nat
        BY <3>1
      <3>4. QED
        BY <3>1, <3>2, <3>3
    <2>5. ASSUME NEW n \in Node, sendClientJobs(n)
          PROVE  ClientTypes'
      <3>1. /\ dispatcher' = [dispatcher EXCEPT ![n] = Idle]
            /\ dispatcher[n].job \in Job
            /\ held' = held \/ held' = [held EXCEPT ![dispatcher[n].client] = @ \cup {dispatcher[n].job}]
            /\ UNCHANGED <<gen, clientSubs, conn, inflight, requests, faults>>
        BY <2>5 DEF sendClientJobs
      <3>2. held' \in [Client -> SUBSET Job]
        BY <3>1
      <3>3. QED
        BY <3>1, <3>2 DEF Idle
    <2>6. QED
      BY <2>1, <2>2, <2>3, <2>4, <2>5 DEF NodeStep
  <1>4. QED
    BY <1>2, <1>3 DEF TypeOK

LEMMA ForwardTypes ==
    ASSUME TypeOK, NEW c \in Client, addJobSub(c) \/ removeJobSub(c)
    PROVE  TypeOK'
  <1>1. PICK kind \in {"subscribe", "unsubscribe"} : Forward(c, kind)
    BY DEF addJobSub, removeJobSub
  <1>2. inflight[c] \in Node \X {"subscribe", "unsubscribe"} \X Type
    BY <1>1 DEF Forward, TypeOK, ClientTypes
  <1>3. <<kind, c, inflight[c][3]>> \in Request
    BY <1>2 DEF Request
  <1>4. up' \in [Stream -> Seq(Request)]
    BY <1>1, <1>3, BroadcastTypes DEF TypeOK, StreamTypes, Forward
  <1>5. /\ inflight' = [inflight EXCEPT ![c] = None]
        /\ UNCHANGED <<jobState, released, serverVars, distributed, loop, handler, down, gen,
                       clientSubs, conn, dispatcher, held, requests, faults>>
    BY <1>1 DEF Forward
  <1>6. QED
    BY <1>4, <1>5
       DEF TypeOK, ServerTypes, LoopTypes, StreamTypes, ClientTypes, serverVars

LEMMA LeaveTypes ==
    ASSUME TypeOK, NEW c \in Client, RemoveClient(c)
    PROVE  TypeOK'
  <1>1. /\ removeClient(conn[c].node, c)
        /\ conn' = [conn EXCEPT ![c] = Off]
        /\ UNCHANGED <<jobState, released, serverVars, distributed, loop, handler, down, gen,
                       inflight, dispatcher, held, requests, faults>>
    BY DEF RemoveClient
  <1>2. up' \in [Stream -> Seq(Request)] /\ clientSubs' \in [Node -> SUBSET Client]
    BY <1>1, RemoveClientTypes
  <1>3. QED
    BY <1>1, <1>2
       DEF TypeOK, ServerTypes, LoopTypes, StreamTypes, ClientTypes, serverVars, Off

\* What sendJobToClient does: the job leaves the stream, and is dropped or taken by the
\* dispatcher for a client that is registered and connected.
Takes(s, j, c) ==
    LET n == StreamNode(s)
    IN  /\ c \in clientSubs[n] /\ ~conn[c].done
        /\ dispatcher' = [dispatcher EXCEPT ![n] =
                             [pc |-> "sending", job |-> j, client |-> c]]
        /\ clientSubs' = clientSubs

LEMMA DispatchCases ==
    ASSUME TypeOK, NEW s \in Stream, sendJobToClient(s)
    PROVE  /\ StreamNode(s) \in Node
           /\ down[s] # <<>> /\ down' = [down EXCEPT ![s] = Tail(@)]
           /\ dispatcher[StreamNode(s)].pc = "idle"
           /\ Head(down[s])[1] \in Job /\ Head(down[s])[2] \in Client
           /\ \/ Takes(s, Head(down[s])[1], Head(down[s])[2])
              \/ /\ dispatcher' = dispatcher
                 /\ \/ clientSubs' = clientSubs
                    \/ clientSubs' = [clientSubs EXCEPT ![StreamNode(s)] =
                                         @ \ {Head(down[s])[2]}]
           /\ up' \in [Stream -> Seq(Request)]
           /\ UNCHANGED <<jobState, released, serverVars, distributed, loop, handler, gen,
                          conn, inflight, held, requests, faults>>
  <1> DEFINE n == StreamNode(s)
             j == Head(down[s])[1]
             c == Head(down[s])[2]
  <1>1. /\ down[s] # <<>> /\ down' = [down EXCEPT ![s] = Tail(@)]
        /\ dispatcher[n].pc = "idle"
        /\ UNCHANGED <<jobState, released, serverVars, distributed, loop, handler, gen,
                       conn, inflight, held, requests, faults>>
    BY DEF sendJobToClient
  <1>2. n \in Node
    BY DEF Stream, StreamNode
  <1>3. j \in Job /\ c \in Client
    <2>1. Head(down[s]) \in Job \X Client
      BY <1>1 DEF TypeOK, StreamTypes
    <2>2. QED
      BY <2>1
  <1>4. up \in [Stream -> Seq(Request)]
    BY DEF TypeOK, StreamTypes
  <1>5. CASE c \notin clientSubs[n]
    BY <1>1, <1>2, <1>3, <1>4, <1>5 DEF sendJobToClient
  <1>6. CASE c \in clientSubs[n] /\ conn[c].done
    <2>1. removeClient(n, c) /\ dispatcher' = dispatcher
      BY <1>6 DEF sendJobToClient
    <2>2. clientSubs' = [clientSubs EXCEPT ![n] = @ \ {c}]
      BY <1>6, <2>1 DEF removeClient
    <2>3. up' \in [Stream -> Seq(Request)]
      BY <1>3, <2>1, RemoveClientTypes
    <2>4. QED
      BY <1>1, <1>2, <1>3, <2>1, <2>2, <2>3
  <1>7. CASE c \in clientSubs[n] /\ ~conn[c].done
    <2>1. Takes(s, j, c) /\ up' = up
      BY <1>7 DEF sendJobToClient, Takes
    <2>2. QED
      BY <1>1, <1>2, <1>3, <1>4, <2>1
  <1>8. QED
    BY <1>5, <1>6, <1>7

LEMMA DispatchTypes ==
    ASSUME TypeOK, NEW s \in Stream, sendJobToClient(s)
    PROVE  TypeOK'
  <1> DEFINE n == StreamNode(s)
             j == Head(down[s])[1]
             c == Head(down[s])[2]
  <1>1. down' \in [Stream -> Seq(Job \X Client)]
    <2>1. Tail(down[s]) \in Seq(Job \X Client)
      BY DispatchCases DEF TypeOK, StreamTypes
    <2>2. QED
      BY <2>1, DispatchCases DEF TypeOK, StreamTypes
  <1>2. ClientTypes'
    <2>1. j \in Job /\ c \in Client /\ n \in Node
      BY DispatchCases
    <2>2. \/ dispatcher' = dispatcher
          \/ dispatcher' = [dispatcher EXCEPT ![n] = [pc |-> "sending", job |-> j, client |-> c]]
      BY DispatchCases DEF Takes
    <2>3. clientSubs' = clientSubs \/ clientSubs' = [clientSubs EXCEPT ![n] = @ \ {c}]
      BY DispatchCases DEF Takes
    <2>4. UNCHANGED <<gen, conn, inflight, held, requests, faults>>
      BY DispatchCases
    <2> HIDE DEF j, c, n
    <2>5. clientSubs' \in [Node -> SUBSET Client]
      BY <2>3 DEF TypeOK, ClientTypes
    <2>6. /\ dispatcher' \in [Node -> [pc : {"idle", "sending"}, job : Job \cup {None},
                                       client : Client \cup {None}]]
          /\ \A m \in Node : dispatcher'[m].pc = "sending" =>
                dispatcher'[m].job \in Job /\ dispatcher'[m].client \in Client
      <3> DEFINE e == [pc |-> "sending", job |-> j, client |-> c]
      <3>1. /\ e \in [pc : {"idle", "sending"}, job : Job \cup {None}, client : Client \cup {None}]
            /\ e.job \in Job /\ e.client \in Client
        BY <2>1
      <3> HIDE DEF e
      <3>2. \A m \in Node : dispatcher'[m] = dispatcher[m] \/ dispatcher'[m] = e
        BY <2>1, <2>2 DEF TypeOK, ClientTypes, e
      <3>3. DOMAIN dispatcher' = Node /\ dispatcher' = [m \in Node |-> dispatcher'[m]]
        BY <2>2 DEF TypeOK, ClientTypes
      <3>4. QED
        BY <3>1, <3>2, <3>3 DEF TypeOK, ClientTypes
    <2>7. QED
      BY <2>4, <2>5, <2>6 DEF TypeOK, ClientTypes
  <1>3. (ServerTypes /\ LoopTypes)'
    BY DispatchCases DEF TypeOK, ServerTypes, LoopTypes, serverVars
  <1>4. StreamTypes'
    BY <1>1, DispatchCases DEF StreamTypes
  <1>5. QED
    BY <1>2, <1>3, <1>4 DEF TypeOK

LEMMA LoseTypes ==
    ASSUME TypeOK, NEW s \in Stream, LoseStream(s)
    PROVE  TypeOK'
  <1>1. /\ faults' = faults + 1
        /\ Closed({s})
        /\ up' = [up EXCEPT ![s] = <<>>]
        /\ down' = [down EXCEPT ![s] = <<>>]
        /\ UNCHANGED <<jobState, released, serverVars, distributed, loop, clientVars, requests>>
    BY DEF LoseStream
  <1>2. ServerTypes'
    BY <1>1 DEF TypeOK, ServerTypes, Closed, serverVars
  <1>3. QED
    BY <1>1, <1>2 DEF TypeOK, LoopTypes, StreamTypes, ClientTypes, clientVars

LEMMA RestartTypes ==
    ASSUME TypeOK, NEW n \in Node, RestartNode(n)
    PROVE  TypeOK'
  <1>1. /\ faults' = faults + 1 /\ gen[n] < MaxRestarts
        /\ gen' = [gen EXCEPT ![n] = @ + 1]
        /\ Closed(nodeStreams(n))
        /\ up' = [s \in Stream |-> IF s \in nodeStreams(n) THEN <<>> ELSE up[s]]
        /\ down' = [s \in Stream |-> IF s \in nodeStreams(n) THEN <<>> ELSE down[s]]
        /\ clientSubs' = [clientSubs EXCEPT ![n] = {}]
        /\ dispatcher' = [dispatcher EXCEPT ![n] = Idle]
        /\ conn' = [c \in Client |-> IF conn[c].node = n THEN Off ELSE conn[c]]
        /\ held' = [c \in Client |-> IF conn[c].node = n THEN {} ELSE held[c]]
        /\ inflight' = [c \in Client |-> IF inflight[c] # None /\ inflight[c][1] = n
                                         THEN None ELSE inflight[c]]
        /\ UNCHANGED <<jobState, released, serverVars, distributed, loop, requests>>
    BY DEF RestartNode
  <1>2. ServerTypes'
    BY <1>1 DEF TypeOK, ServerTypes, Closed, serverVars
  <1>3. StreamTypes'
    BY <1>1 DEF TypeOK, StreamTypes
  <1>4. LoopTypes'
    BY <1>1 DEF TypeOK, LoopTypes
  <1>5. ClientTypes'
    <2> USE DEF TypeOK, ClientTypes
    <2>1. gen' \in [Node -> 0 .. MaxRestarts]
      BY <1>1, JobManagerAssumption
    <2>2. /\ conn' \in [Client -> [pc : {"off", "serving", "removing"},
                                   node : Node \cup {None}, done : BOOLEAN]]
          /\ \A c \in Client : conn'[c].pc # "off" => conn'[c].node \in Node
      BY <1>1 DEF Off
    <2>3. dispatcher' \in [Node -> [pc : {"idle", "sending"}, job : Job \cup {None},
                                    client : Client \cup {None}]]
          /\ \A m \in Node : dispatcher'[m].pc = "sending" =>
                dispatcher'[m].job \in Job /\ dispatcher'[m].client \in Client
      BY <1>1 DEF Idle
    <2>4. inflight' \in [Client -> (Node \X {"subscribe", "unsubscribe"} \X Type) \cup {None}]
      BY <1>1
    <2>5. clientSubs' \in [Node -> SUBSET Client] /\ held' \in [Client -> SUBSET Job]
      BY <1>1
    <2>6. QED
      BY <1>1, <2>1, <2>2, <2>3, <2>4, <2>5
  <1>6. QED
    BY <1>2, <1>3, <1>4, <1>5 DEF TypeOK

LEMMA ExpireTypes ==
    ASSUME TypeOK, Expire
    PROVE  TypeOK'
  <1>1. PICK i \in DOMAIN distributed :
           /\ distributed' = [distributed EXCEPT ![i].expired = TRUE]
           /\ released' = released \cup {distributed[i].job}
    BY DEF Expire
  <1>2. distributed \in Seq(Entry)
    BY DEF TypeOK, LoopTypes, Entry
  <1>3. distributed[i] \in Entry
    BY <1>2
  <1>4. [distributed[i] EXCEPT !.expired = TRUE] \in Entry /\ distributed[i].job \in Job
    BY <1>3 DEF Entry
  <1>5. distributed' = [distributed EXCEPT ![i] = [distributed[i] EXCEPT !.expired = TRUE]]
    BY <1>1
  <1>6. distributed' \in Seq(Entry)
    BY <1>2, <1>4, <1>5, ExceptSeq
  <1>7. UNCHANGED <<jobState, serverVars, loop, handler, up, down, clientVars, requests, faults>>
    BY DEF Expire
  <1>8. LoopTypes'
    BY <1>1, <1>4, <1>6, <1>7 DEF TypeOK, LoopTypes, Entry
  <1>9. QED
    BY <1>7, <1>8
       DEF TypeOK, ServerTypes, StreamTypes, ClientTypes, serverVars, clientVars

LEMMA NextTypes ==
    ASSUME TypeOK, [Next]_vars
    PROVE  TypeOK'
  <1>1. CASE Expire
    BY <1>1, ExpireTypes
  <1>2. CASE Plan
    BY <1>2, PlanTypes
  <1>3. CASE Load
    BY <1>3, LoadTypes
  <1>4. CASE SendJob
    BY <1>4, SendJobTypes
  <1>5. CASE LoadFails
    <2>1. NoLoop \in LoopType /\ NoLoop.pc = "plan" /\ NoLoop.batch = <<>>
      BY NoLoopType DEF NoLoop
    <2>2. LoopTypes'
      BY <1>5, <2>1 DEF LoadFails, TypeOK, LoopTypes, LoopType
    <2>3. QED
      BY <1>5, <2>2 DEF LoadFails, TypeOK, ServerTypes, StreamTypes, ClientTypes,
                        serverVars, clientVars
  <1>6. CASE \E s \in Stream : Serve(s)
    BY <1>6, ServeTypes, SubscribeTypes, UnsubscribeTypes, RemovalTypes, DispatchTypes
       DEF Serve
  <1>7. CASE \E s \in Stream : LoseStream(s)
    BY <1>7, LoseTypes
  <1>8. CASE \E c \in Client : addJobSub(c) \/ removeJobSub(c) \/ RemoveClient(c)
    BY <1>8, ForwardTypes, LeaveTypes
  <1>9. CASE \E c \in Client, j \in Job : Work(c, j)
    BY <1>9, WorkerTypes
  <1>10. CASE \E n \in Node : RestartNode(n)
    BY <1>10, RestartTypes
  <1>11. CASE UNCHANGED vars
    BY <1>11 DEF vars, TypeOK, ServerTypes, LoopTypes, StreamTypes, ClientTypes,
                 serverVars, clientVars
  <1>12. CASE NodeStep
    BY <1>12, NodeTypes
  <1>13. QED
    BY <1>1, <1>2, <1>3, <1>4, <1>5, <1>6, <1>7, <1>8, <1>9, <1>10, <1>11, <1>12
       DEF Next, Distribute, Hand, NodeStep

-----------------------------------------------------------------------------
(* The list of locked jobs and the batch.                                  *)

\* A list that shrinks keeps its jobs distinct and locks no further job.
LEMMA ShrinkingKeepsLocks ==
    ASSUME LocksAreDistinct, NEW gone, Shrinks(distributed', gone), released \subseteq released'
    PROVE  /\ LocksAreDistinct'
           /\ LockedJobs' \subseteq LockedJobs
           /\ \A j \in LockedJobs : j \in gone \/ j \in LockedJobs'
  <1>1. PICK f \in [DOMAIN distributed' -> DOMAIN distributed] :
           /\ \A a, b \in DOMAIN distributed' : f[a] = f[b] => a = b
           /\ \A a \in DOMAIN distributed' : distributed'[a] = distributed[f[a]]
    BY DEF Shrinks
  <1>2. LocksAreDistinct'
    BY <1>1 DEF LocksAreDistinct
  <1>3. LockedJobs' \subseteq LockedJobs
    BY <1>1 DEF LockedJobs
  <1>4. \A j \in LockedJobs : j \in gone \/ j \in LockedJobs'
    BY DEF LockedJobs, Shrinks
  <1>5. QED
    BY <1>2, <1>3, <1>4

ListInv == LocksAreDistinct /\ BatchIsUnlocked

LEMMA PlanShrinks ==
    ASSUME TypeOK, LocksAreDistinct, Plan
    PROVE  Shrinks(distributed', released) /\ released' = released
  <1>1. distributed' \in Kept({i \in DOMAIN distributed : ~distributed[i].expired})
    BY DEF Plan
  <1>2. distributed \in Seq(Entry)
    BY DEF TypeOK, LoopTypes, Entry
  <1>3. \A k \in DOMAIN distributed :
           k \notin {i \in DOMAIN distributed : ~distributed[i].expired} =>
              distributed[k].job \in released
    BY DEF LocksAreDistinct
  <1>4. released' = released
    BY DEF Plan
  <1>5. QED
    BY <1>1, <1>2, <1>3, <1>4, KeptResult

LEMMA PlanKeepsLists ==
    ASSUME TypeOK, ListInv, Plan
    PROVE  ListInv'
  <1>1. LocksAreDistinct'
    BY PlanShrinks, ShrinkingKeepsLocks DEF ListInv
  <1>2. BatchIsUnlocked'
    BY PlanTypes DEF BatchIsUnlocked, LockedJobs
  <1>3. QED
    BY <1>1, <1>2 DEF ListInv

LEMMA LoadKeepsLists ==
    ASSUME TypeOK, ListInv, Load
    PROVE  ListInv'
  <1> DEFINE jobs == LoadJobsToDistribute(loop.types, loop.skip, loop.count)
  <1>1. PICK batch \in Ascending(jobs) :
           loop' = IF batch = <<>> THEN NoLoop
                   ELSE [loop EXCEPT !.pc = "send", !.batch = batch]
    BY DEF Load
  <1>2. loop.pc = "load" /\ UNCHANGED <<distributed, released>>
    BY DEF Load
  <1>3. jobs \subseteq Job /\ \A j \in jobs : j \notin loop.skip
    BY DEF LoadJobsToDistribute
  <1> HIDE DEF jobs
  <1>4. batch \in Seq(jobs) /\ \A a, b \in DOMAIN batch : batch[a] = batch[b] => a = b
    <2>1. IsFiniteSet(jobs) /\ jobs \subseteq Int
      BY <1>3, JobManagerAssumption, FS_Subset
    <2>2. QED
      BY <2>1, AscendingResult
  <1>5. \A a \in DOMAIN batch : batch[a] \notin LockedJobs
    BY <1>2, <1>3, <1>4 DEF ListInv, BatchIsUnlocked
  <1>6. LockedJobs' = LockedJobs
    BY <1>2 DEF LockedJobs
  <1>7. loop'.pc # "load"
        /\ (loop'.batch = <<>> \/ loop'.batch = batch)
    <2>1. loop \in LoopType
      BY DEF TypeOK, LoopTypes, LoopType
    <2>2. QED
      BY <1>1, <2>1 DEF NoLoop, LoopType
  <1>8. BatchIsUnlocked'
    BY <1>4, <1>5, <1>6, <1>7 DEF BatchIsUnlocked
  <1>9. LocksAreDistinct'
    BY <1>2 DEF ListInv, LocksAreDistinct
  <1>10. QED
    BY <1>8, <1>9 DEF ListInv

LEMMA SendKeepsLists ==
    ASSUME TypeOK, ListInv, SendJob
    PROVE  ListInv'
  <1> DEFINE j == Head(loop.batch)
             q == loop.batch
  <1>1. loop'.batch = Tail(q) /\ loop'.pc # "load" /\ j \in Job /\ released' = released
    BY SkipTypes DEF SendJob
  <1>2. q \in Seq(Job) /\ q # <<>>
    BY DEF SendJob, TypeOK, LoopTypes
  <1>3. /\ j = q[1] /\ 1 \in DOMAIN q
        /\ \A a \in DOMAIN Tail(q) : a + 1 \in DOMAIN q /\ Tail(q)[a] = q[a + 1] /\ a + 1 # 1
        /\ DOMAIN Tail(q) \subseteq Int
    BY <1>2
  <1>4. /\ \A a, b \in DOMAIN q : q[a] = q[b] => a = b
        /\ \A a \in DOMAIN q : q[a] \notin LockedJobs
    BY DEF ListInv, BatchIsUnlocked
  <1> HIDE DEF q, j
  <1>5. /\ \A a, b \in DOMAIN Tail(q) : Tail(q)[a] = Tail(q)[b] => a = b
        /\ \A a \in DOMAIN Tail(q) : Tail(q)[a] \notin LockedJobs \cup {j}
    BY <1>3, <1>4
  <1>6. CASE UNCHANGED distributed
    BY <1>1, <1>5, <1>6 DEF ListInv, LocksAreDistinct, BatchIsUnlocked, LockedJobs
  <1>7. ASSUME NEW c \in Client, NEW s \in Stream, Locks(j, c, s)
        PROVE  ListInv'
    <2> DEFINE e == [job |-> j, client |-> c, expired |-> FALSE]
               n == Len(distributed)
    <2>1. distributed \in Seq(Entry) /\ n \in Nat /\ DOMAIN distributed = 1 .. n
      BY DEF TypeOK, LoopTypes, Entry
    <2>2. /\ DOMAIN distributed' = 1 .. (n + 1)
          /\ \A i \in 1 .. n : distributed'[i] = distributed[i]
          /\ distributed'[n + 1] = e
      BY <1>7, <2>1 DEF Locks
    <2>3. e.job = j /\ e.expired = FALSE
      OBVIOUS
    <2> HIDE DEF e, n
    <2>4. \A i \in DOMAIN distributed' : i = n + 1 \/ i \in DOMAIN distributed
      BY <2>1, <2>2
    <2>5. LockedJobs' = LockedJobs \cup {j}
      BY <2>1, <2>2, <2>3, <2>4 DEF LockedJobs
    <2>6. j \notin LockedJobs
      BY <1>3, <1>4
    <2>7. LocksAreDistinct'
      BY <1>1, <2>1, <2>2, <2>3, <2>4, <2>6 DEF ListInv, LocksAreDistinct, LockedJobs
    <2>8. BatchIsUnlocked'
      BY <1>1, <1>5, <2>5 DEF BatchIsUnlocked
    <2>9. QED
      BY <2>7, <2>8 DEF ListInv
  <1>8. QED
    BY <1>6, <1>7, SendJobCases DEF j

LEMMA ExpireKeepsLists ==
    ASSUME TypeOK, ListInv, Expire
    PROVE  ListInv' /\ LockedJobs' = LockedJobs /\ released \subseteq released'
  <1>1. PICK i \in DOMAIN distributed :
           /\ distributed' = [distributed EXCEPT ![i].expired = TRUE]
           /\ released' = released \cup {distributed[i].job}
    BY DEF Expire
  <1>2. loop' = loop
    BY DEF Expire
  <1>3. DOMAIN distributed' = DOMAIN distributed
        /\ \A k \in DOMAIN distributed :
              /\ distributed'[k].job = distributed[k].job
              /\ k # i => distributed'[k] = distributed[k]
    <2>1. distributed \in Seq(Entry)
      BY DEF TypeOK, LoopTypes, Entry
    <2>2. distributed[i] \in Entry
      BY <2>1
    <2>3. QED
      BY <1>1, <2>2 DEF Entry
  <1>4. LockedJobs' = LockedJobs
    BY <1>3 DEF LockedJobs
  <1>5. LocksAreDistinct'
    BY <1>1, <1>3 DEF ListInv, LocksAreDistinct
  <1>6. BatchIsUnlocked'
    BY <1>2, <1>4 DEF ListInv, BatchIsUnlocked
  <1>7. QED
    BY <1>1, <1>4, <1>5, <1>6 DEF ListInv

\* The steps that change neither the list of locked jobs nor the batch.
QuietStep ==
    \/ \E s \in Stream :
          \/ addNodeSubscription(s) \/ removeNode(s) \/ removeNodeSubs(s)
          \/ subscribeClient(s) \/ unsubscribeClient(s) \/ subscribeNodeToPartition(s)
          \/ sendJobToClient(s) \/ LoseStream(s)
    \/ \E c \in Client : Hand(c) \/ Disconnect(c)
    \/ \E c \in Client, n \in Node : addClient(c, n)
    \/ \E c \in Client, k \in {"subscribe", "unsubscribe"}, t \in Type :
          recvClientRequest(c, k, t)
    \/ \E n \in Node : sendClientJobs(n) \/ RestartNode(n)
    \/ UNCHANGED vars

LEMMA NextCases ==
    ASSUME [Next]_vars
    PROVE  \/ Expire \/ Plan \/ Load \/ LoadFails \/ SendJob
           \/ \E s \in Stream : removeClientFromServer(s)
           \/ \E c \in Client, j \in Job : Work(c, j)
           \/ QuietStep
  BY DEF Next, Distribute, Serve, QuietStep

LEMMA QuietSteps ==
    ASSUME QuietStep
    PROVE  UNCHANGED <<distributed, loop, released>>
  BY DEF QuietStep, addNodeSubscription, removeNode, removeNodeSubs, subscribeClient,
         unsubscribeClient, subscribeNodeToPartition, sendJobToClient, LoseStream, Hand,
         addJobSub, removeJobSub, Forward, streamDone, RemoveClient, Disconnect, addClient,
         recvClientRequest, sendClientJobs, RestartNode, vars

LEMMA NextKeepsLists ==
    ASSUME TypeOK, ListInv, [Next]_vars
    PROVE  ListInv'
  <1>1. ASSUME NEW gone, Shrinks(distributed', gone), released \subseteq released', loop' = loop
        PROVE  ListInv'
    <2>1. LocksAreDistinct' /\ LockedJobs' \subseteq LockedJobs
      BY <1>1, ShrinkingKeepsLocks DEF ListInv
    <2>2. BatchIsUnlocked'
      BY <1>1, <2>1 DEF ListInv, BatchIsUnlocked
    <2>3. QED
      BY <2>1, <2>2 DEF ListInv
  <1>2. CASE Expire \/ Plan \/ Load \/ SendJob
    BY <1>2, ExpireKeepsLists, PlanKeepsLists, LoadKeepsLists, SendKeepsLists
  <1>3. CASE LoadFails
    <2>1. NoLoop.pc = "plan" /\ NoLoop.batch = <<>>
      BY DEF NoLoop
    <2>2. QED
      BY <1>3, <2>1 DEF LoadFails, ListInv, LocksAreDistinct, BatchIsUnlocked, LockedJobs
  <1>4. ASSUME NEW s \in Stream, removeClientFromServer(s)
        PROVE  ListInv'
    <2>1. loop' = loop
      BY <1>4 DEF removeClientFromServer
    <2>2. QED
      BY <1>1, <1>4, <2>1, RemovalShrinks
  <1>5. ASSUME NEW c \in Client, NEW j \in Job, Work(c, j)
        PROVE  ListInv'
    <2>1. distributed' = Free(j) /\ UNCHANGED <<loop, released>>
      BY <1>5 DEF Work, completeJob, failJob
    <2>2. distributed \in Seq(Entry)
      BY DEF TypeOK, LoopTypes, Entry
    <2>3. Shrinks(distributed', {j})
      BY <2>1, <2>2, FreeResult
    <2>4. QED
      BY <1>1, <2>1, <2>3
  <1>6. CASE QuietStep
    BY <1>6, QuietSteps DEF ListInv, LocksAreDistinct, BatchIsUnlocked, LockedJobs
  <1>7. QED
    BY <1>2, <1>3, <1>4, <1>5, <1>6, NextCases

-----------------------------------------------------------------------------
(* The way of a job to its worker.                                         *)

\* No place of the job is new, and the job keeps its lock.
LEMMA PlacesLeft ==
    ASSUME LockedJobsTravelAlone, NEW j \in Job \ released,
           j \in LockedJobs => j \in LockedJobs',
           \A s \in Stream : down'[s] = down[s] \/ down'[s] = <<>>,
           \A n \in Node : dispatcher'[n] = dispatcher[n] \/ dispatcher'[n].pc = "idle",
           \A c \in Client : held'[c] \subseteq held[c]
    PROVE  TravelsAlone(j)'
  <1>1. TravelsAlone(j)
    BY DEF LockedJobsTravelAlone
  <1>2. \A s \in Stream : \A i \in DOMAIN down'[s] : OnStream(j, s, i)' =>
           i \in DOMAIN down[s] /\ OnStream(j, s, i)
    BY DEF OnStream
  <1>3. \A n \in Node : InDispatcher(j, n)' => InDispatcher(j, n)
    BY DEF InDispatcher
  <1>4. QED
    BY <1>1, <1>2, <1>3 DEF TravelsAlone

LEMMA SendTravels ==
    ASSUME TypeOK, ListInv, LockedJobsTravelAlone, SendJob
    PROVE  LockedJobsTravelAlone'
  <1>1. PICK new \in Job : new = Head(loop.batch) /\ new \notin LockedJobs
    <2>1. loop.batch \in Seq(Job) /\ loop.batch # <<>>
      BY DEF SendJob, TypeOK, LoopTypes
    <2>2. QED
      BY <2>1 DEF ListInv, BatchIsUnlocked
  <1>2. UNCHANGED <<released, dispatcher, held>>
    BY DEF SendJob, clientVars
  <1>3. CASE UNCHANGED <<distributed, down>>
    BY <1>2, <1>3 DEF LockedJobsTravelAlone, TravelsAlone, OnStream, InDispatcher, LockedJobs
  <1>4. ASSUME NEW c \in Client, NEW s \in Stream, Locks(new, c, s)
        PROVE  LockedJobsTravelAlone'
    <2>1. distributed \in Seq(Entry) /\ down \in [Stream -> Seq(Job \X Client)]
      BY DEF TypeOK, LoopTypes, StreamTypes, Entry
    <2>2. LockedJobs \subseteq LockedJobs' /\ new \in LockedJobs'
      <3> DEFINE e == [job |-> new, client |-> c, expired |-> FALSE]
                 n == Len(distributed)
      <3>1. /\ n \in Nat /\ DOMAIN distributed = 1 .. n /\ DOMAIN distributed' = 1 .. (n + 1)
            /\ \A i \in 1 .. n : distributed'[i] = distributed[i]
            /\ distributed'[n + 1] = e
        BY <1>4, <2>1 DEF Locks
      <3>2. e.job = new
        OBVIOUS
      <3> HIDE DEF e, n
      <3>3. n + 1 \in DOMAIN distributed' /\ DOMAIN distributed \subseteq DOMAIN distributed'
        BY <3>1
      <3>4. QED
        BY <3>1, <3>2, <3>3 DEF LockedJobs
    <2>3. CASE down' = down
      BY <1>2, <2>2, <2>3
         DEF LockedJobsTravelAlone, TravelsAlone, OnStream, InDispatcher
    <2>4. CASE down' = [down EXCEPT ![s] = Append(@, <<new, c>>)]
      <3> DEFINE k == Len(down[s]) + 1
      <3>1. /\ k \in Nat /\ k \notin DOMAIN down[s]
            /\ DOMAIN down'[s] = DOMAIN down[s] \cup {k}
            /\ \A i \in DOMAIN down[s] : down'[s][i] = down[s][i]
            /\ down'[s][k] = <<new, c>>
            /\ \A r \in Stream : r # s => down'[r] = down[r]
        BY <2>1, <2>4
      <3> HIDE DEF k
      <3>2. \A j \in Job, r \in Stream : \A i \in DOMAIN down'[r] : OnStream(j, r, i)' =>
               \/ i \in DOMAIN down[r] /\ OnStream(j, r, i)
               \/ j = new /\ r = s /\ i = k
        BY <3>1 DEF OnStream
      <3>3. ASSUME NEW j \in Job \ released', j # new
            PROVE  TravelsAlone(j)'
        BY <1>2, <2>2, <3>2, <3>3 DEF LockedJobsTravelAlone, TravelsAlone, InDispatcher
      <3>4. ASSUME new \notin released'
            PROVE  TravelsAlone(new)'
        <4>1. /\ \A r \in Stream : \A i \in DOMAIN down[r] : ~OnStream(new, r, i)
              /\ \A n \in Node : ~InDispatcher(new, n)
              /\ \A d \in Client : new \notin held[d]
          BY <1>1, <1>2, <3>4 DEF LockedJobsTravelAlone, TravelsAlone
        <4>2. \A n \in Node : ~InDispatcher(new, n)'
          BY <1>2, <4>1 DEF InDispatcher
        <4>3. \A r \in Stream : \A i \in DOMAIN down'[r] : OnStream(new, r, i)' => r = s /\ i = k
          BY <1>1, <3>2, <4>1
        <4>4. QED
          BY <1>2, <2>2, <4>1, <4>2, <4>3 DEF TravelsAlone
      <3>5. QED
        BY <1>1, <3>3, <3>4 DEF LockedJobsTravelAlone
    <2>5. QED
      BY <1>4, <2>3, <2>4 DEF Locks
  <1>5. QED
    BY <1>1, <1>3, <1>4, SendJobCases

LEMMA DispatchTravels ==
    ASSUME TypeOK, LockedJobsTravelAlone, NEW s \in Stream, sendJobToClient(s)
    PROVE  LockedJobsTravelAlone'
  <1> DEFINE n == StreamNode(s)
             job == Head(down[s])[1]
             c == Head(down[s])[2]
  <1>1. /\ down \in [Stream -> Seq(Job \X Client)]
        /\ dispatcher \in [Node -> [pc : {"idle", "sending"}, job : Job \cup {None},
                                    client : Client \cup {None}]]
    BY DEF TypeOK, StreamTypes, ClientTypes
  <1>2. /\ n \in Node /\ down[s] # <<>> /\ down' = [down EXCEPT ![s] = Tail(@)]
        /\ UNCHANGED <<released, distributed, held>> /\ dispatcher[n].pc = "idle"
    BY DispatchCases
  <1>3. /\ 1 \in DOMAIN down[s] /\ down[s][1][1] = job
        /\ \A i \in DOMAIN down'[s] : i + 1 \in DOMAIN down[s] /\ down'[s][i] = down[s][i + 1]
                                      /\ i + 1 # 1 /\ i \in Int
        /\ \A r \in Stream : r # s => down'[r] = down[r]
    BY <1>1, <1>2
  <1>4. LockedJobs' = LockedJobs
    BY <1>2 DEF LockedJobs
  <1>5. /\ \A m \in Node : m # n => dispatcher'[m] = dispatcher[m]
        /\ \/ dispatcher'[n] = dispatcher[n]
           \/ dispatcher'[n].pc = "sending" /\ dispatcher'[n].job = job
    <2>1. \/ dispatcher' = dispatcher
          \/ dispatcher' = [dispatcher EXCEPT ![n] = [pc |-> "sending", job |-> job, client |-> c]]
      BY DispatchCases DEF Takes
    <2> HIDE DEF n, job, c
    <2>2. QED
      BY <1>1, <1>2, <2>1
  <1> HIDE DEF n, job, c
  <1>6. SUFFICES ASSUME NEW j \in Job \ released
                 PROVE  TravelsAlone(j)'
    BY <1>2 DEF LockedJobsTravelAlone
  <1>7. TravelsAlone(j)
    BY DEF LockedJobsTravelAlone
  <1> DEFINE From(r, i) == IF r = s THEN i + 1 ELSE i
  <1>8. \A r \in Stream : \A i \in DOMAIN down'[r] : OnStream(j, r, i)' =>
           From(r, i) \in DOMAIN down[r] /\ OnStream(j, r, From(r, i))
    BY <1>3 DEF OnStream
  <1>9. \A m \in Node : InDispatcher(j, m)' =>
           InDispatcher(j, m) \/ (m = n /\ j = job /\ OnStream(j, s, 1) /\ 1 \in DOMAIN down[s])
    BY <1>3, <1>5 DEF InDispatcher, OnStream
  <1>10. ~InDispatcher(j, n)
    BY <1>2 DEF InDispatcher
  <1>11. ASSUME NEW r \in Stream, NEW i \in DOMAIN down'[r], OnStream(j, r, i)'
         PROVE  /\ j \in LockedJobs'
                /\ \A t \in Stream : \A k \in DOMAIN down'[t] :
                      OnStream(j, t, k)' => r = t /\ i = k
                /\ \A m \in Node : ~InDispatcher(j, m)'
                /\ \A d \in Client : j \notin held'[d]
    <2>1. From(r, i) \in DOMAIN down[r] /\ OnStream(j, r, From(r, i))
      BY <1>8, <1>11
    <2>2. j \in LockedJobs' /\ \A d \in Client : j \notin held'[d]
      BY <1>2, <1>4, <1>7, <2>1 DEF TravelsAlone
    <2>3. ASSUME NEW t \in Stream, NEW k \in DOMAIN down'[t], OnStream(j, t, k)'
          PROVE  r = t /\ i = k
      <3>1. From(t, k) \in DOMAIN down[t] /\ OnStream(j, t, From(t, k))
        BY <1>8, <2>3
      <3>2. r = t /\ From(r, i) = From(t, k)
        BY <1>7, <2>1, <3>1 DEF TravelsAlone
      <3>3. QED
        BY <1>3, <3>2
    <2>4. ASSUME NEW m \in Node, InDispatcher(j, m)'
          PROVE  FALSE
      <3>1. CASE InDispatcher(j, m)
        BY <1>7, <2>1, <3>1 DEF TravelsAlone
      <3>2. CASE OnStream(j, s, 1) /\ 1 \in DOMAIN down[s]
        <4>1. r = s /\ From(r, i) = 1
          BY <1>7, <2>1, <3>2 DEF TravelsAlone
        <4>2. QED
          BY <1>3, <4>1
      <3>3. QED
        BY <1>9, <2>4, <3>1, <3>2
    <2>5. QED
      BY <2>2, <2>3, <2>4
  <1>12. ASSUME NEW m \in Node, InDispatcher(j, m)'
         PROVE  /\ j \in LockedJobs'
                /\ \A o \in Node : InDispatcher(j, o)' => m = o
                /\ \A d \in Client : j \notin held'[d]
    BY <1>2, <1>4, <1>7, <1>9, <1>10, <1>12 DEF TravelsAlone
  <1>13. ASSUME NEW d \in Client, j \in held'[d]
         PROVE  j \in LockedJobs' /\ \A e \in Client : j \in held'[e] => d = e
    BY <1>2, <1>4, <1>7, <1>13 DEF TravelsAlone
  <1>14. QED
    BY <1>11, <1>12, <1>13 DEF TravelsAlone

LEMMA HandTravels ==
    ASSUME TypeOK, LockedJobsTravelAlone, NEW n \in Node, sendClientJobs(n)
    PROVE  LockedJobsTravelAlone'
  <1> DEFINE job == dispatcher[n].job
             c == dispatcher[n].client
  <1>1. /\ dispatcher[n].pc = "sending"
        /\ dispatcher' = [dispatcher EXCEPT ![n] = Idle]
        /\ held' = held \/ held' = [held EXCEPT ![c] = @ \cup {job}]
        /\ UNCHANGED <<released, distributed, down>>
    BY DEF sendClientJobs
  <1>2. LockedJobs' = LockedJobs
    BY <1>1 DEF LockedJobs
  <1>3. /\ InDispatcher(job, n)
        /\ \A m \in Node : m # n => dispatcher'[m] = dispatcher[m]
        /\ dispatcher'[n].pc = "idle"
    BY <1>1 DEF InDispatcher, Idle, TypeOK, ClientTypes
  <1>4. \A d \in Client : held'[d] = held[d] \/ (d = c /\ held'[d] = held[d] \cup {job})
    BY <1>1 DEF TypeOK, ClientTypes
  <1> HIDE DEF c, job
  <1>5. SUFFICES ASSUME NEW j \in Job \ released
                 PROVE  TravelsAlone(j)'
    BY <1>1 DEF LockedJobsTravelAlone
  <1>6. TravelsAlone(j)
    BY DEF LockedJobsTravelAlone
  <1>7. /\ \A s \in Stream : \A i \in DOMAIN down'[s] : OnStream(j, s, i)' = OnStream(j, s, i)
        /\ down' = down
    BY <1>1 DEF OnStream
  <1>8. \A m \in Node : InDispatcher(j, m)' => InDispatcher(j, m) /\ m # n
    BY <1>3 DEF InDispatcher
  <1>9. CASE j # job
    BY <1>2, <1>4, <1>6, <1>7, <1>8, <1>9 DEF TravelsAlone
  <1>10. CASE j = job
    <2>1. /\ j \in LockedJobs
          /\ \A s \in Stream : \A i \in DOMAIN down[s] : ~OnStream(j, s, i)
          /\ \A m \in Node : InDispatcher(j, m) => m = n
          /\ \A d \in Client : j \notin held[d]
      BY <1>3, <1>6, <1>10 DEF TravelsAlone
    <2>2. QED
      BY <1>2, <1>4, <1>7, <1>8, <2>1 DEF TravelsAlone
  <1>11. QED
    BY <1>9, <1>10

LEMMA WorkTravels ==
    ASSUME TypeOK, ListInv, LockedJobsTravelAlone, NEW c \in Client, NEW job \in Job, Work(c, job)
    PROVE  LockedJobsTravelAlone'
  <1>1. /\ job \in held[c]
        /\ held' = [held EXCEPT ![c] = @ \ {job}]
        /\ distributed' = Free(job)
        /\ UNCHANGED <<released, down, dispatcher>>
    BY DEF Work, completeJob, failJob
  <1>2. distributed \in Seq(Entry) /\ held \in [Client -> SUBSET Job]
    BY DEF TypeOK, LoopTypes, ClientTypes, Entry
  <1>3. \A j \in LockedJobs : j = job \/ j \in LockedJobs'
    <2>1. Shrinks(distributed', {job})
      BY <1>1, <1>2, FreeResult
    <2>2. QED
      BY <1>1, <2>1, ShrinkingKeepsLocks DEF ListInv
  <1>4. ASSUME NEW j \in Job \ released, j # job
        PROVE  TravelsAlone(j)'
    BY <1>1, <1>2, <1>3, <1>4, PlacesLeft
  <1>5. ASSUME job \notin released
        PROVE  TravelsAlone(job)'
    <2>1. /\ \A s \in Stream : \A i \in DOMAIN down[s] : ~OnStream(job, s, i)
          /\ \A n \in Node : ~InDispatcher(job, n)
          /\ \A d \in Client : job \in held[d] => d = c
      BY <1>1, <1>5 DEF LockedJobsTravelAlone, TravelsAlone
    <2>2. /\ \A s \in Stream : \A i \in DOMAIN down'[s] : ~OnStream(job, s, i)'
          /\ \A n \in Node : ~InDispatcher(job, n)'
          /\ \A d \in Client : job \notin held'[d]
      BY <1>1, <1>2, <2>1 DEF OnStream, InDispatcher
    <2>3. QED
      BY <2>2 DEF TravelsAlone
  <1>6. QED
    BY <1>1, <1>4, <1>5 DEF LockedJobsTravelAlone

\* The steps that move no job: neither the list nor a place of a job changes.
LEMMA OtherStepsMoveNothing ==
    ASSUME QuietStep
    PROVE  \/ \E s \in Stream : sendJobToClient(s) \/ LoseStream(s)
           \/ \E n \in Node : sendClientJobs(n) \/ RestartNode(n)
           \/ \E c \in Client : Disconnect(c)
           \/ UNCHANGED <<down, dispatcher, held>>
  BY DEF QuietStep, addNodeSubscription, removeNode, removeNodeSubs, subscribeClient,
         unsubscribeClient, subscribeNodeToPartition, Hand, addJobSub, removeJobSub,
         Forward, streamDone, RemoveClient, addClient, recvClientRequest, vars, clientVars

LEMMA NextTravels ==
    ASSUME TypeOK, ListInv, LockedJobsTravelAlone, [Next]_vars
    PROVE  LockedJobsTravelAlone'
  <1>1. /\ down \in [Stream -> Seq(Job \X Client)] /\ held \in [Client -> SUBSET Job]
        /\ dispatcher \in [Node -> [pc : {"idle", "sending"}, job : Job \cup {None},
                                    client : Client \cup {None}]]
    BY DEF TypeOK, StreamTypes, ClientTypes
  <1>2. ASSUME UNCHANGED <<down, dispatcher, held>>, released \subseteq released',
               \A j \in LockedJobs : j \in released' \/ j \in LockedJobs'
        PROVE  LockedJobsTravelAlone'
    BY <1>2, PlacesLeft DEF LockedJobsTravelAlone
  <1>3. CASE Expire
    BY <1>2, <1>3, ExpireKeepsLists DEF Expire, clientVars
  <1>4. CASE Plan
    <2>1. UNCHANGED <<down, dispatcher, held>>
      BY <1>4 DEF Plan, clientVars
    <2>2. QED
      BY <1>2, <1>4, <2>1, PlanShrinks, ShrinkingKeepsLocks DEF ListInv
  <1>5. CASE Load \/ LoadFails
    <2>1. UNCHANGED <<distributed, released, down, dispatcher, held>>
      BY <1>5 DEF Load, LoadFails, clientVars
    <2>2. QED
      BY <1>2, <2>1 DEF LockedJobs
  <1>6. CASE SendJob
    BY <1>6, SendTravels
  <1>7. ASSUME NEW s \in Stream, removeClientFromServer(s)
        PROVE  LockedJobsTravelAlone'
    <2>1. UNCHANGED <<down, dispatcher, held>>
      BY <1>7 DEF removeClientFromServer, clientVars
    <2>2. QED
      BY <1>2, <1>7, <2>1, RemovalShrinks, ShrinkingKeepsLocks DEF ListInv
  <1>8. CASE \E c \in Client, j \in Job : Work(c, j)
    BY <1>8, WorkTravels
  <1>9. CASE QuietStep
    <2>1. UNCHANGED <<released, distributed>> /\ LockedJobs' = LockedJobs
      BY <1>9, QuietSteps DEF LockedJobs
    <2>2. ASSUME NEW s \in Stream, LoseStream(s)
          PROVE  LockedJobsTravelAlone'
      <3>1. /\ \A r \in Stream : down'[r] = down[r] \/ down'[r] = <<>>
            /\ UNCHANGED <<dispatcher, held>>
        BY <1>1, <2>2 DEF LoseStream, clientVars
      <3>2. QED
        BY <2>1, <3>1, PlacesLeft DEF LockedJobsTravelAlone
    <2>3. ASSUME NEW n \in Node, RestartNode(n)
          PROVE  LockedJobsTravelAlone'
      <3>1. /\ \A r \in Stream : down'[r] = down[r] \/ down'[r] = <<>>
            /\ \A m \in Node : dispatcher'[m] = dispatcher[m] \/ dispatcher'[m].pc = "idle"
            /\ \A c \in Client : held'[c] \subseteq held[c]
        BY <1>1, <2>3 DEF RestartNode, Idle
      <3>2. QED
        BY <2>1, <3>1, PlacesLeft DEF LockedJobsTravelAlone
    <2>4. ASSUME NEW c \in Client, Disconnect(c)
          PROVE  LockedJobsTravelAlone'
      <3>1. /\ UNCHANGED <<down, dispatcher>>
            /\ \A d \in Client : held'[d] \subseteq held[d]
        BY <1>1, <2>4 DEF Disconnect
      <3>2. QED
        BY <2>1, <3>1, PlacesLeft DEF LockedJobsTravelAlone
    <2>5. CASE UNCHANGED <<down, dispatcher, held>>
      BY <1>2, <2>1, <2>5
    <2>6. QED
      BY <1>9, <2>2, <2>3, <2>4, <2>5, OtherStepsMoveNothing, DispatchTravels, HandTravels
  <1>10. QED
    BY <1>3, <1>4, <1>5, <1>6, <1>7, <1>8, <1>9, NextCases

-----------------------------------------------------------------------------
(* The clients of a node and its dispatcher.                               *)

ClientInv == ClientsAreConnected /\ DispatcherWaitsForAServedClient

LEMMA DispatchKeepsClients ==
    ASSUME TypeOK, ClientInv, NEW s \in Stream, sendJobToClient(s)
    PROVE  ClientInv'
  <1> DEFINE n == StreamNode(s)
             j == Head(down[s])[1]
             c == Head(down[s])[2]
  <1>1. /\ n \in Node /\ c \in Client /\ j \in Job /\ dispatcher[n].pc = "idle" /\ conn' = conn
        /\ \/ Takes(s, j, c)
           \/ /\ dispatcher' = dispatcher
              /\ clientSubs' = clientSubs \/ clientSubs' = [clientSubs EXCEPT ![n] = @ \ {c}]
    BY DispatchCases
  <1>2. CASE Takes(s, j, c)
    <2>1. /\ c \in clientSubs[n] /\ ~conn[c].done /\ clientSubs' = clientSubs
          /\ dispatcher' = [dispatcher EXCEPT ![n] =
                               [pc |-> "sending", job |-> j, client |-> c]]
      BY <1>2 DEF Takes
    <2> HIDE DEF n, j, c
    <2>2. conn[c].node = n /\ conn[c].pc = "serving"
      BY <1>1, <2>1 DEF ClientInv, ClientsAreConnected, TypeOK, ClientTypes
    <2>3. dispatcher'[n].client = c /\ \A m \in Node : m # n => dispatcher'[m] = dispatcher[m]
      BY <1>1, <2>1 DEF TypeOK, ClientTypes
    <2>4. QED
      BY <1>1, <2>1, <2>2, <2>3
         DEF ClientInv, ClientsAreConnected, DispatcherWaitsForAServedClient
  <1>3. CASE dispatcher' = dispatcher
    <2> HIDE DEF n, j, c
    <2>1. \A m \in Node : clientSubs'[m] \subseteq clientSubs[m]
                          /\ (m # n => clientSubs'[m] = clientSubs[m])
      BY <1>1 DEF Takes, TypeOK, ClientTypes, n
    <2>2. QED
      BY <1>1, <1>3, <2>1
         DEF ClientInv, ClientsAreConnected, DispatcherWaitsForAServedClient
  <1>4. QED
    BY <1>1, <1>2, <1>3

\* The steps that leave the clients of the nodes alone.
LEMMA NextKeepsClients ==
    ASSUME TypeOK, ClientInv, [Next]_vars
    PROVE  ClientInv'
  <1> DEFINE Same == UNCHANGED <<clientSubs, conn, dispatcher>>
  <1>1. CASE Same
    BY <1>1 DEF ClientInv, ClientsAreConnected, DispatcherWaitsForAServedClient
  <1>2. CASE \E s \in Stream : sendJobToClient(s)
    BY <1>2, DispatchKeepsClients
  <1>3. ASSUME NEW c \in Client, NEW n \in Node, addClient(c, n)
        PROVE  ClientInv'
    <2>1. /\ conn[c] = Off
          /\ clientSubs' = [clientSubs EXCEPT ![n] = @ \cup {c}]
          /\ conn' = [conn EXCEPT ![c] = [pc |-> "serving", node |-> n, done |-> FALSE]]
          /\ dispatcher' = dispatcher
      BY <1>3 DEF addClient
    <2>2. conn[c].pc = "off" /\ ~conn[c].done
      BY <2>1 DEF Off
    <2>3. /\ conn'[c].pc = "serving" /\ conn'[c].node = n /\ ~conn'[c].done
          /\ \A d \in Client : d # c => conn'[d] = conn[d]
          /\ \A m \in Node : m # n => clientSubs'[m] = clientSubs[m]
          /\ clientSubs'[n] = clientSubs[n] \cup {c}
      BY <2>1 DEF TypeOK, ClientTypes
    <2>4. \A m \in Node : clientSubs[m] \subseteq Client
      BY DEF TypeOK, ClientTypes
    <2>5. ClientsAreConnected'
      BY <2>2, <2>3, <2>4 DEF ClientInv, ClientsAreConnected
    <2>6. DispatcherWaitsForAServedClient'
      BY <2>1, <2>2, <2>3, <2>4 DEF ClientInv, DispatcherWaitsForAServedClient
    <2>7. QED
      BY <2>5, <2>6 DEF ClientInv
  <1>4. ASSUME NEW c \in Client, streamDone(c) \/ Disconnect(c)
        PROVE  ClientInv'
    <2>1. /\ UNCHANGED <<clientSubs, dispatcher>>
          /\ conn[c].pc = "serving"
          /\ \/ conn[c].done /\ conn' = [conn EXCEPT ![c].pc = "removing"]
             \/ conn' = [conn EXCEPT ![c].done = TRUE]
      BY <1>4 DEF streamDone, Disconnect
    <2>2. /\ conn'[c].pc # "off" /\ conn'[c].node = conn[c].node /\ conn'[c].done
          /\ \A d \in Client : d # c => conn'[d] = conn[d]
      BY <2>1 DEF TypeOK, ClientTypes
    <2>3. \A m \in Node : clientSubs[m] \subseteq Client
      BY DEF TypeOK, ClientTypes
    <2>4. ClientsAreConnected'
      BY <2>1, <2>2, <2>3 DEF ClientInv, ClientsAreConnected
    <2>5. DispatcherWaitsForAServedClient'
      BY <2>1, <2>2, <2>3 DEF ClientInv, DispatcherWaitsForAServedClient
    <2>6. QED
      BY <2>4, <2>5 DEF ClientInv
  <1>5. ASSUME NEW c \in Client, RemoveClient(c)
        PROVE  ClientInv'
    <2> DEFINE n == conn[c].node
    <2>1. /\ conn[c].pc = "removing" /\ dispatcher[n].pc = "idle"
          /\ removeClient(n, c)
          /\ conn' = [conn EXCEPT ![c] = Off] /\ dispatcher' = dispatcher
      BY <1>5 DEF RemoveClient
    <2>2. n \in Node
      BY <2>1 DEF TypeOK, ClientTypes
    <2>3. clientSubs'[n] = clientSubs[n] \ {c}
          /\ (\A m \in Node : m # n => clientSubs'[m] = clientSubs[m])
      BY <2>1, <2>2 DEF removeClient, TypeOK, ClientTypes
    <2>4. /\ conn'[c].pc = "off" /\ ~conn'[c].done
          /\ \A d \in Client : d # c => conn'[d] = conn[d]
      BY <2>1 DEF TypeOK, ClientTypes, Off
    <2>5. \A m \in Node : m # n => c \notin clientSubs[m]
      BY DEF ClientInv, ClientsAreConnected
    <2>6. \A m \in Node : clientSubs[m] \subseteq Client
      BY DEF TypeOK, ClientTypes
    <2>7. \A m \in Node : c \notin clientSubs'[m] /\ clientSubs'[m] \subseteq clientSubs[m]
      BY <2>3, <2>5
    <2>8. ClientsAreConnected'
      BY <2>4, <2>6, <2>7 DEF ClientInv, ClientsAreConnected
    <2>9. ASSUME NEW m \in Node, dispatcher'[m].pc = "sending"
          PROVE  LET d == dispatcher'[m].client
                 IN  /\ d \in clientSubs'[m] /\ conn'[d].node = m
                     /\ conn'[d].pc = "serving" \/ conn'[d].done
      <3>1. m # n /\ dispatcher[m].pc = "sending"
        BY <2>1, <2>9
      <3>2. dispatcher[m].client # c /\ dispatcher[m].client \in Client
        BY <2>5, <2>6, <3>1 DEF ClientInv, DispatcherWaitsForAServedClient
      <3>3. QED
        BY <2>1, <2>3, <2>4, <3>1, <3>2 DEF ClientInv, DispatcherWaitsForAServedClient
    <2>10. QED
      BY <2>8, <2>9 DEF ClientInv, DispatcherWaitsForAServedClient
  <1>6. ASSUME NEW n \in Node, sendClientJobs(n)
        PROVE  ClientInv'
    <2>1. dispatcher' = [dispatcher EXCEPT ![n] = Idle] /\ UNCHANGED <<clientSubs, conn>>
      BY <1>6 DEF sendClientJobs
    <2>2. \A m \in Node : dispatcher'[m] = dispatcher[m] \/ dispatcher'[m].pc = "idle"
      BY <2>1 DEF Idle, TypeOK, ClientTypes
    <2>3. QED
      BY <2>1, <2>2 DEF ClientInv, ClientsAreConnected, DispatcherWaitsForAServedClient
  <1>7. ASSUME NEW n \in Node, RestartNode(n)
        PROVE  ClientInv'
    <2>1. /\ clientSubs' = [clientSubs EXCEPT ![n] = {}]
          /\ dispatcher' = [dispatcher EXCEPT ![n] = Idle]
          /\ conn' = [c \in Client |-> IF conn[c].node = n THEN Off ELSE conn[c]]
      BY <1>7 DEF RestartNode
    <2>2. /\ clientSubs'[n] = {} /\ dispatcher'[n].pc = "idle"
          /\ \A m \in Node : m # n => /\ clientSubs'[m] = clientSubs[m]
                                      /\ dispatcher'[m] = dispatcher[m]
      BY <2>1 DEF Idle, TypeOK, ClientTypes
    <2>3. \A c \in Client : \/ conn[c].node # n /\ conn'[c] = conn[c]
                            \/ conn[c].node = n /\ conn'[c].pc = "off" /\ ~conn'[c].done
      BY <2>1 DEF Off
    <2>4. \A m \in Node : clientSubs[m] \subseteq Client
      BY DEF TypeOK, ClientTypes
    <2>5. ClientsAreConnected'
      BY <2>2, <2>3, <2>4 DEF ClientInv, ClientsAreConnected
    <2>6. DispatcherWaitsForAServedClient'
      BY <2>2, <2>3, <2>4 DEF ClientInv, DispatcherWaitsForAServedClient
    <2>7. QED
      BY <2>5, <2>6 DEF ClientInv
  <1>8. CASE Expire \/ Plan \/ Load \/ LoadFails \/ SendJob
    <2>1. Same
      BY <1>8 DEF Expire, Plan, Load, LoadFails, SendJob, clientVars
    <2>2. QED
      BY <1>1, <2>1
  <1>9. CASE \/ \E s \in Stream : removeClientFromServer(s)
             \/ \E c \in Client, j \in Job : Work(c, j)
    <2>1. Same
      BY <1>9 DEF removeClientFromServer, Work, completeJob, failJob, clientVars
    <2>2. QED
      BY <1>1, <2>1
  <1>10. CASE \/ \E s \in Stream :
                    \/ addNodeSubscription(s) \/ removeNode(s) \/ removeNodeSubs(s)
                    \/ subscribeClient(s) \/ unsubscribeClient(s)
                    \/ subscribeNodeToPartition(s) \/ LoseStream(s)
              \/ \E c \in Client : addJobSub(c) \/ removeJobSub(c)
              \/ \E c \in Client, k \in {"subscribe", "unsubscribe"}, t \in Type :
                    recvClientRequest(c, k, t)
              \/ UNCHANGED vars
    <2>1. Same
      BY <1>10 DEF addNodeSubscription, removeNode, removeNodeSubs, subscribeClient,
           unsubscribeClient, subscribeNodeToPartition, LoseStream, addJobSub,
           removeJobSub, Forward, recvClientRequest, vars, clientVars
    <2>2. QED
      BY <1>1, <2>1
  <1> HIDE DEF Same
  <1>11. CASE QuietStep
    BY <1>2, <1>3, <1>4, <1>5, <1>6, <1>7, <1>10, <1>11 DEF QuietStep, Hand
  <1>12. QED
    BY <1>8, <1>9, <1>11, NextCases

-----------------------------------------------------------------------------
(* The locks of the server.                                                *)

ServerInv == ServedNodesAreKnown /\ LocksLeakOnlyAfterFaults

LEMMA NextKeepsServer ==
    ASSUME TypeOK, ServerInv, [Next]_vars
    PROVE  ServerInv'
  <1>1. /\ nodeSubs \in [Node -> Stream \cup {None}] /\ faults \in Nat
        /\ handler \in [Stream -> {"new", "opening", "recv", "subscribing",
                                   "removing", "removingSubs", "gone"}]
        /\ None \notin Stream
    BY JobManagerAssumption DEF TypeOK, ServerTypes, ClientTypes, Stream
  <1>2. CASE faults' = faults + 1
    BY <1>1, <1>2 DEF ServerInv, ServedNodesAreKnown, LocksLeakOnlyAfterFaults
  <1>3. CASE UNCHANGED <<nodeSubs, leaked, clientMu, handler, faults>>
    BY <1>3 DEF ServerInv, ServedNodesAreKnown, LocksLeakOnlyAfterFaults
  <1>4. ASSUME NEW s \in Stream, addNodeSubscription(s)
        PROVE  ServerInv'
    <2>1. StreamNode(s) \in Node
      BY DEF Stream, StreamNode
    <2>2. /\ nodeSubs' = [nodeSubs EXCEPT ![StreamNode(s)] = s]
          /\ handler' = [handler EXCEPT ![s] = "recv"]
          /\ UNCHANGED <<leaked, clientMu, faults>>
      BY <1>4 DEF addNodeSubscription, clientVars
    <2>3. /\ \A r \in Stream : handler'[r] = handler[r] \/ (r = s /\ handler'[r] = "recv")
          /\ \A n \in Node : nodeSubs'[n] = nodeSubs[n] \/ nodeSubs'[n] # None
          /\ nodeSubs'[StreamNode(s)] # None
      BY <1>1, <2>1, <2>2
    <2>4. \A r \in Stream : StreamNode(r) \in Node
      BY DEF Stream, StreamNode
    <2>5. QED
      BY <2>2, <2>3, <2>4 DEF ServerInv, ServedNodesAreKnown, LocksLeakOnlyAfterFaults
  <1>5. ASSUME NEW s \in Stream, removeNode(s) \/ removeNodeSubs(s)
        PROVE  ServerInv'
    <2>1. handler[s] \in {"removing", "removingSubs"} /\ faults' = faults
      BY <1>5 DEF removeNode, removeNodeSubs
    <2>2. faults # 0
      BY <2>1 DEF ServerInv, ServedNodesAreKnown
    <2>3. QED
      BY <2>1, <2>2 DEF ServerInv, ServedNodesAreKnown, LocksLeakOnlyAfterFaults
  <1>6. ASSUME NEW s \in Stream, subscribeClient(s)
        PROVE  ServerInv'
    <2>1. /\ handler[s] = "recv" /\ UNCHANGED <<nodeSubs, faults>>
          /\ \/ leaked > 0
             \/ nodeSubs[StreamNode(s)] = None
             \/ UNCHANGED <<leaked, clientMu, handler>>
      BY <1>6 DEF subscribeClient, Receives
    <2>2. CASE faults = 0
      <3>1. leaked = 0 /\ nodeSubs[StreamNode(s)] # None
        BY <2>1, <2>2 DEF ServerInv, ServedNodesAreKnown, LocksLeakOnlyAfterFaults
      <3>2. QED
        BY <1>3, <2>1, <3>1
    <2>3. CASE faults # 0
      BY <2>1, <2>3 DEF ServerInv, ServedNodesAreKnown, LocksLeakOnlyAfterFaults
    <2>4. QED
      BY <2>2, <2>3
  <1>7. ASSUME NEW s \in Stream, subscribeNodeToPartition(s)
        PROVE  ServerInv'
    <2>1. /\ handler' = [handler EXCEPT ![s] = "opening"]
          /\ UNCHANGED <<nodeSubs, leaked, clientMu, faults>>
      BY <1>7 DEF subscribeNodeToPartition, serverVars
    <2>2. \A r \in Stream : handler'[r] = handler[r] \/ handler'[r] = "opening"
      BY <1>1, <2>1
    <2>3. QED
      BY <2>1, <2>2 DEF ServerInv, ServedNodesAreKnown, LocksLeakOnlyAfterFaults
  <1>8. CASE Expire \/ Plan \/ Load \/ LoadFails \/ SendJob
    BY <1>3, <1>8 DEF Expire, Plan, Load, LoadFails, SendJob, serverVars
  <1>9. CASE \/ \E s \in Stream : removeClientFromServer(s)
             \/ \E c \in Client, j \in Job : Work(c, j)
    BY <1>3, <1>9 DEF removeClientFromServer, Work, completeJob, failJob, serverVars
  <1>10. CASE \/ \E s \in Stream : LoseStream(s)
              \/ \E c \in Client : Disconnect(c)
              \/ \E n \in Node : RestartNode(n)
    BY <1>2, <1>10 DEF LoseStream, Disconnect, RestartNode
  <1>11. CASE \/ \E s \in Stream : unsubscribeClient(s) \/ sendJobToClient(s)
              \/ \E c \in Client : Hand(c)
              \/ \E c \in Client, n \in Node : addClient(c, n)
              \/ \E c \in Client, k \in {"subscribe", "unsubscribe"}, t \in Type :
                    recvClientRequest(c, k, t)
              \/ \E n \in Node : sendClientJobs(n)
              \/ UNCHANGED vars
    BY <1>3, <1>11 DEF unsubscribeClient, sendJobToClient, Hand, addJobSub, removeJobSub,
         Forward, streamDone, RemoveClient, addClient, recvClientRequest, sendClientJobs,
         vars, serverVars
  <1>12. CASE QuietStep
    BY <1>4, <1>5, <1>6, <1>7, <1>10, <1>11, <1>12 DEF QuietStep
  <1>13. QED
    BY <1>8, <1>9, <1>12, NextCases

-----------------------------------------------------------------------------
(* The theorems.                                                           *)

LEMMA InitJobInv == Init => JobInv
  <1> SUFFICES ASSUME Init
               PROVE  JobInv
    OBVIOUS
  <1>1. TypeOK
    BY InitTypes
  <1>2. LocksAreDistinct /\ BatchIsUnlocked /\ LockedJobsTravelAlone
    BY DEF Init, LocksAreDistinct, BatchIsUnlocked, LockedJobsTravelAlone, TravelsAlone,
           LockedJobs, OnStream, InDispatcher, NoLoop, Idle
  <1>3. ClientsAreConnected /\ DispatcherWaitsForAServedClient
    BY DEF Init, ClientsAreConnected, DispatcherWaitsForAServedClient, Off, Idle
  <1>4. ServedNodesAreKnown /\ LocksLeakOnlyAfterFaults
    BY DEF Init, ServedNodesAreKnown, LocksLeakOnlyAfterFaults
  <1>5. QED
    BY <1>1, <1>2, <1>3, <1>4 DEF JobInv

\* The inductive invariant of the job manager: a job is locked once, no job of the batch
\* is locked, and a job whose lock lives is at one place at most.
THEOREM JobInvariance == Spec => []JobInv
  <1>1. Init => JobInv
    BY InitJobInv
  <1>2. JobInv /\ [Next]_vars => JobInv'
    <2> SUFFICES ASSUME JobInv, [Next]_vars
                 PROVE  JobInv'
      OBVIOUS
    <2>1. TypeOK /\ ListInv /\ LockedJobsTravelAlone /\ ClientInv /\ ServerInv
      BY DEF JobInv, ListInv, ClientInv, ServerInv
    <2>2. TypeOK' /\ ListInv' /\ LockedJobsTravelAlone' /\ ClientInv' /\ ServerInv'
      BY <2>1, NextTypes, NextKeepsLists, NextTravels, NextKeepsClients, NextKeepsServer
    <2>3. QED
      BY <2>2 DEF JobInv, ListInv, ClientInv, ServerInv
  <1>3. QED
    BY <1>1, <1>2, PTL DEF Spec

\* The variables of the job manager keep their types.
THEOREM JobTypesAreKept == Spec => []TypeOK
  BY JobInvariance, PTL DEF JobInv

RoundRobinInRange ==
    \A t \in Type : jobTypes[t].clients # <<>> =>
       PickIndex(jobTypes[t], loop.slots) \in 0 .. (Len(jobTypes[t].clients) - 1)

\* distributeJobs keeps the index of a job type while unsubscribeClient and removeClient
\* shorten its list of clients; the client it picks is always one of the list.
THEOREM RoundRobinStaysInRange == Spec => []RoundRobinInRange
  <1>1. TypeOK => RoundRobinInRange
    BY PickIndexInRange DEF TypeOK, ServerTypes, JobTypeData, RoundRobinInRange
  <1>2. QED
    BY <1>1, JobTypesAreKept, PTL

\* distributeJobs never gives a job to a second worker while its lock lives: for any
\* number of nodes, streams, clients and jobs, with disconnects, lost streams and
\* restarts.
THEOREM LockedJobsAreExclusive == Spec => []LockedJobsAreNotShared
  <1>1. JobInv => LockedJobsAreNotShared
    BY DEF JobInv, LockedJobsTravelAlone, TravelsAlone, LockedJobsAreNotShared
  <1>2. QED
    BY <1>1, JobInvariance, PTL

\* As long as no stream broke, subscribeClient finds the node of its stream, so that it
\* never returns with s.nodeMu locked.
THEOREM LocksAreGivenBack == Spec => []LocksLeakOnlyAfterFaults
  BY JobInvariance, PTL DEF JobInv

\* sendJobToClient, which keeps c.clientMu while it waits, waits for a client that is
\* registered at its node and whose goroutine still takes jobs, or that has left.
THEOREM DispatchersWaitForServedClients == Spec => []DispatcherWaitsForAServedClient
  BY JobInvariance, PTL DEF JobInv
=============================================================================
