-------------------------- MODULE RunnerPoolProofs --------------------------
(***************************************************************************)
(* Proofs about the pool of runners, for any callers and any sizes of the  *)
(* pool.  That the count stays above minVmPoolSize is not inductive: the   *)
(* cleaner decides before it locks.  What it has seen stays true of the    *)
(* count, though not of the channel (CleaningIsSafe).                      *)
(***************************************************************************)
EXTENDS RunnerPool, FiniteSetTheorems, FunctionTheorems, TLAPS

\* A cleaner that has decided to throw a runner away still may: taking runners
\* out of the channel does not change the count, and nobody else lowers it.
CleaningIsSafe ==
    cleaner \in {"locking", "taking"} => minVmPoolSize < activeRunnersCount

PoolInv ==
    /\ PoolTypeOK
    /\ RunnersAreExclusive
    /\ RunnersAreCounted
    /\ CleaningIsSafe

-----------------------------------------------------------------------------
\* The runners that exist are finitely many.
LEMMA AliveFinite ==
    ASSUME PoolTypeOK
    PROVE  /\ Alive \subseteq Runner
           /\ IsFiniteSet(Alive)
           /\ IsFiniteSet(pool)
           /\ pool \subseteq Alive
  <1>1. Alive \subseteq Runner /\ pool \subseteq Alive /\ pool \subseteq Runner
    BY DEF PoolTypeOK, Alive
  <1>2. IsFiniteSet(Runner)
    BY PoolAssumption
  <1>3. QED
    BY <1>1, <1>2, FS_Subset

\* The channel holds at most as many runners as exist.
LEMMA PoolIsCounted ==
    ASSUME PoolTypeOK
    PROVE  /\ Cardinality(pool) \in Nat
           /\ Cardinality(Alive) \in Nat
           /\ Cardinality(pool) <= Cardinality(Alive)
  BY AliveFinite, FS_Subset, FS_CardinalityType

\* While there are fewer runners than allowed, one more can be made.
LEMMA RunnerLeft ==
    ASSUME PoolTypeOK, Cardinality(Alive) < maxVmPoolSize
    PROVE  \E r \in Runner : r \notin Alive
  <1>1. SUFFICES ASSUME Runner \subseteq Alive
                 PROVE  FALSE
    OBVIOUS
  <1>2. Cardinality(Runner) <= Cardinality(Alive)
    BY <1>1, AliveFinite, FS_Subset
  <1>3. Cardinality(Runner) \in Nat /\ Cardinality(Alive) \in Nat
    BY AliveFinite, FS_CardinalityType, PoolAssumption
  <1>4. QED
    BY <1>2, <1>3, PoolAssumption

-----------------------------------------------------------------------------
\* NewRunnerPool fills the channel with minVmPoolSize runners.
LEMMA PoolStarts == NewRunnerPool => PoolInv
  <1> SUFFICES ASSUME NewRunnerPool
               PROVE  PoolInv
    OBVIOUS
  <1>1. \E first \in SUBSET Runner : Cardinality(first) = minVmPoolSize
    <2>1. IsFiniteSet(Runner) /\ minVmPoolSize \in Nat
          /\ minVmPoolSize <= Cardinality(Runner)
      BY PoolAssumption, FS_CardinalityType
    <2>2. PICK f \in Bijection(1..Cardinality(Runner), Runner) : TRUE
      BY <2>1, FS_CardinalityType, Fun_ExistsBij
    <2> DEFINE S == 1..minVmPoolSize
               g == Restrict(f, S)
    <2>3. S \in SUBSET (1..Cardinality(Runner))
      BY <2>1, FS_CardinalityType
    <2>4. g \in Bijection(S, Range(g))
      BY <2>2, <2>3, Fun_BijRestrict
    <2>5. IsFiniteSet(S) /\ Cardinality(S) = minVmPoolSize
      BY <2>1, FS_Interval
    <2>6. Cardinality(Range(g)) = minVmPoolSize
      BY <2>4, <2>5, Fun_ExistsBij, FS_Bijection
    <2>7. Range(g) \in SUBSET Runner
      BY <2>2, <2>3 DEF Range, Restrict, Bijection, Injection
    <2>8. QED
      BY <2>6, <2>7
  <1>2. pool \in SUBSET Runner /\ Cardinality(pool) = minVmPoolSize
    BY <1>1 DEF NewRunnerPool
  <1>3. PoolTypeOK
    BY <1>2, PoolAssumption DEF NewRunnerPool, PoolTypeOK
  <1>4. RunnersAreExclusive
    BY DEF NewRunnerPool, RunnersAreExclusive
  <1>5. Alive = pool
    BY DEF NewRunnerPool, Alive
  <1>6. RunnersAreCounted /\ CleaningIsSafe
    BY <1>2, <1>5, PoolAssumption DEF NewRunnerPool, RunnersAreCounted, CleaningIsSafe
  <1>7. QED
    BY <1>3, <1>4, <1>6 DEF PoolInv

-----------------------------------------------------------------------------
\* Receiving from the channel moves a runner: none is made and none is lost.
LEMMA ReceivePreserves ==
    ASSUME PoolInv, NEW c \in Caller, at[c] \in {"out", "waiting"}, Receive(c)
    PROVE  PoolInv'
  <1>1. PICK r \in pool :
           /\ pool' = pool \ {r}
           /\ using' = [using EXCEPT ![c] = {r}]
           /\ at' = [at EXCEPT ![c] = "using"]
           /\ UNCHANGED <<activeRunnersCount, muHeld, cleaner>>
    BY DEF Receive
  <1>2. PoolTypeOK'
    BY <1>1 DEF PoolInv, PoolTypeOK
  <1>3. using[c] = {}
    BY DEF PoolInv, RunnersAreExclusive
  <1>4. RunnersAreExclusive'
    BY <1>1, <1>3 DEF PoolInv, PoolTypeOK, RunnersAreExclusive
  <1>5. Alive' = Alive
    <2>1. \A d \in Caller : using'[d] = IF d = c THEN {r} ELSE using[d]
      BY <1>1 DEF PoolInv, PoolTypeOK
    <2>2. UNION {using'[d] : d \in Caller} = {r} \cup UNION {using[d] : d \in Caller}
      BY <2>1, <1>3
    <2>3. QED
      BY <1>1, <2>2 DEF Alive
  <1>6. RunnersAreCounted' /\ CleaningIsSafe'
    BY <1>1, <1>5 DEF PoolInv, RunnersAreCounted, CleaningIsSafe
  <1>7. QED
    BY <1>2, <1>4, <1>6 DEF PoolInv

\* A caller that found no idle runner makes one while it may, and nobody has that one.
LEMMA CreatePreserves ==
    ASSUME PoolInv, NEW c \in Caller, CreateOrWait(c)
    PROVE  PoolInv'
  <1>1. using[c] = {} /\ at[c] = "locking"
    BY DEF PoolInv, RunnersAreExclusive, CreateOrWait
  <1>2. CASE activeRunnersCount < maxVmPoolSize /\ NewRunner(c)
    <2> DEFINE r == CHOOSE x \in Runner : x \notin Alive
    <2>1. r \in Runner /\ r \notin Alive
      BY <1>2, RunnerLeft DEF PoolInv, RunnersAreCounted
    <2>2. /\ using' = [using EXCEPT ![c] = {r}]
          /\ activeRunnersCount' = activeRunnersCount + 1
          /\ at' = [at EXCEPT ![c] = "using"]
          /\ UNCHANGED <<pool, muHeld, cleaner>>
      BY <1>2 DEF NewRunner, CreateOrWait
    <2> HIDE DEF r
    <2>3. PoolTypeOK'
      BY <2>1, <2>2 DEF PoolInv, PoolTypeOK
    <2>4. \A d \in Caller : using'[d] = IF d = c THEN {r} ELSE using[d]
      BY <2>2 DEF PoolInv, PoolTypeOK
    <2>5. r \notin pool /\ \A d \in Caller : r \notin using[d]
      BY <2>1 DEF Alive
    <2>6. RunnersAreExclusive'
      BY <2>2, <2>4, <2>5 DEF PoolInv, PoolTypeOK, RunnersAreExclusive
    <2>7. Alive' = Alive \cup {r}
      <3>1. UNION {using'[d] : d \in Caller} = {r} \cup UNION {using[d] : d \in Caller}
        BY <2>4, <1>1
      <3>2. QED
        BY <3>1, <2>2 DEF Alive
    <2>8. Cardinality(Alive') = Cardinality(Alive) + 1
      BY <2>1, <2>7, AliveFinite, FS_AddElement DEF PoolInv
    <2>9. RunnersAreCounted' /\ CleaningIsSafe'
      BY <1>2, <2>2, <2>8, PoolAssumption
         DEF PoolInv, PoolTypeOK, RunnersAreCounted, CleaningIsSafe
    <2>10. QED
      BY <2>3, <2>6, <2>9 DEF PoolInv
  <1>3. CASE /\ activeRunnersCount >= maxVmPoolSize
             /\ at' = [at EXCEPT ![c] = "waiting"]
             /\ UNCHANGED <<activeRunnersCount, using>>
    <2>1. UNCHANGED <<pool, activeRunnersCount, muHeld, using, cleaner>>
      BY <1>3 DEF CreateOrWait
    <2>2. PoolTypeOK'
      BY <1>3, <2>1 DEF PoolInv, PoolTypeOK
    <2>3. RunnersAreExclusive'
      BY <1>1, <1>3, <2>1 DEF PoolInv, PoolTypeOK, RunnersAreExclusive
    <2>4. RunnersAreCounted' /\ CleaningIsSafe'
      BY <2>1 DEF PoolInv, RunnersAreCounted, CleaningIsSafe, Alive
    <2>5. QED
      BY <2>2, <2>3, <2>4 DEF PoolInv
  <1>4. QED
    BY <1>2, <1>3 DEF CreateOrWait

\* A runner that is put back moves into the channel.
LEMMA ReturnPreserves ==
    ASSUME PoolInv, NEW c \in Caller, ReturnRunnerToPool(c)
    PROVE  PoolInv'
  <1>1. /\ pool' = pool \cup using[c]
        /\ using' = [using EXCEPT ![c] = {}]
        /\ at' = [at EXCEPT ![c] = "out"]
        /\ UNCHANGED <<activeRunnersCount, muHeld, cleaner>>
    BY DEF ReturnRunnerToPool
  <1>2. PoolTypeOK'
    BY <1>1 DEF PoolInv, PoolTypeOK
  <1>3. \A d \in Caller : using'[d] = IF d = c THEN {} ELSE using[d]
    BY <1>1 DEF PoolInv, PoolTypeOK
  <1>4. RunnersAreExclusive'
    BY <1>1, <1>3 DEF PoolInv, PoolTypeOK, RunnersAreExclusive
  <1>5. Alive' = Alive
    <2>1. using[c] \cup UNION {using'[d] : d \in Caller} = UNION {using[d] : d \in Caller}
      BY <1>3
    <2>2. QED
      BY <1>1, <2>1 DEF Alive
  <1>6. RunnersAreCounted' /\ CleaningIsSafe'
    BY <1>1, <1>5 DEF PoolInv, RunnersAreCounted, CleaningIsSafe
  <1>7. QED
    BY <1>2, <1>4, <1>6 DEF PoolInv

\* The cleaner throws away an idle runner, which nobody uses, and goes on only if
\* there are more idle ones than have to stay.
LEMMA TakePreserves ==
    ASSUME PoolInv, CleanerTakes
    PROVE  PoolInv'
  <1>1. PICK r \in pool :
           /\ pool' = pool \ {r}
           /\ activeRunnersCount' = activeRunnersCount - 1
           /\ muHeld' = FALSE
           /\ cleaner' = IF MoreToClean(pool \ {r}) THEN "locking" ELSE "idle"
           /\ UNCHANGED <<at, using>>
    BY DEF CleanerTakes
  <1>2. minVmPoolSize < activeRunnersCount
    BY DEF PoolInv, CleaningIsSafe, CleanerTakes
  <1>3. PoolTypeOK'
    <2>1. activeRunnersCount' \in Nat
      BY <1>1, <1>2, PoolAssumption DEF PoolInv, PoolTypeOK
    <2>2. cleaner' \in {"idle", "locking", "taking", "stopped"}
      BY <1>1
    <2>3. muHeld' \in BOOLEAN /\ pool' \in SUBSET Runner
      BY <1>1 DEF PoolInv, PoolTypeOK
    <2>4. QED
      BY <1>1, <2>1, <2>2, <2>3 DEF PoolInv, PoolTypeOK
  <1>4. RunnersAreExclusive'
    BY <1>1 DEF PoolInv, RunnersAreExclusive
  <1>5. Alive' = Alive \ {r}
    BY <1>1 DEF PoolInv, RunnersAreExclusive, Alive
  <1>6. r \in Alive
    BY <1>1 DEF Alive
  <1>7. Cardinality(Alive') = Cardinality(Alive) - 1
    BY <1>5, <1>6, AliveFinite, FS_RemoveElement DEF PoolInv
  <1>8. RunnersAreCounted'
    BY <1>1, <1>2, <1>7, PoolAssumption DEF PoolInv, PoolTypeOK, RunnersAreCounted
  <1>9. CleaningIsSafe'
    <2>1. SUFFICES ASSUME MoreToClean(pool')
                   PROVE  minVmPoolSize < activeRunnersCount'
      BY <1>1 DEF CleaningIsSafe
    <2>2. Cardinality(pool') <= Cardinality(Alive')
      <3>1. pool' \subseteq Alive'
        BY DEF Alive
      <3>2. IsFiniteSet(Alive')
        BY <1>5, AliveFinite, FS_RemoveElement DEF PoolInv
      <3>3. QED
        BY <3>1, <3>2, FS_Subset
    <2>3. Cardinality(pool') \in Nat /\ Cardinality(Alive') \in Nat
      <3>1. IsFiniteSet(pool') /\ IsFiniteSet(Alive')
        BY <1>1, <1>5, AliveFinite, FS_RemoveElement DEF PoolInv
      <3>2. QED
        BY <3>1, FS_CardinalityType
    <2>4. QED
      BY <2>1, <2>2, <2>3, <1>8, PoolAssumption DEF MoreToClean, RunnersAreCounted
  <1>10. QED
    BY <1>3, <1>4, <1>8, <1>9 DEF PoolInv

\* The steps that only change where somebody is.
LEMMA MovePreserves ==
    ASSUME PoolInv,
           \/ \E c \in Caller : FindsNoIdleRunner(c)
           \/ CleanerTicks \/ CleanerLocks \/ Stop
           \/ UNCHANGED poolVars
    PROVE  PoolInv'
  <1>1. UNCHANGED <<pool, activeRunnersCount, using>>
    BY DEF FindsNoIdleRunner, CleanerTicks, CleanerLocks, Stop, poolVars
  <1>2. PoolTypeOK'
    BY <1>1 DEF PoolInv, PoolTypeOK, FindsNoIdleRunner, CleanerTicks, CleanerLocks, Stop, poolVars
  <1>3. RunnersAreExclusive'
    BY <1>1 DEF PoolInv, PoolTypeOK, RunnersAreExclusive,
                FindsNoIdleRunner, CleanerTicks, CleanerLocks, Stop, poolVars
  <1>4. RunnersAreCounted'
    BY <1>1 DEF PoolInv, RunnersAreCounted, Alive
  <1>5. CleaningIsSafe'
    <2>1. CASE CleanerTicks
      BY <2>1, PoolIsCounted, PoolAssumption
         DEF PoolInv, PoolTypeOK, CleaningIsSafe, CleanerTicks, MoreToClean, RunnersAreCounted
    <2>2. CASE CleanerLocks \/ Stop
      BY <2>2 DEF PoolInv, CleaningIsSafe, CleanerLocks, Stop
    <2>3. CASE (\E c \in Caller : FindsNoIdleRunner(c)) \/ UNCHANGED poolVars
      BY <2>3 DEF PoolInv, CleaningIsSafe, FindsNoIdleRunner, poolVars
    <2>4. QED
      BY <2>1, <2>2, <2>3
  <1>6. QED
    BY <1>2, <1>3, <1>4, <1>5 DEF PoolInv

LEMMA PoolStep == PoolInv /\ [PoolNext]_poolVars => PoolInv'
  <1> SUFFICES ASSUME PoolInv, [PoolNext]_poolVars
               PROVE  PoolInv'
    OBVIOUS
  <1>1. ASSUME NEW c \in Caller, GetIdleRunner(c) \/ WaitForRunner(c)
        PROVE  PoolInv'
    BY <1>1, ReceivePreserves DEF GetIdleRunner, WaitForRunner
  <1>2. ASSUME NEW c \in Caller, CreateOrWait(c)
        PROVE  PoolInv'
    BY <1>2, CreatePreserves
  <1>3. ASSUME NEW c \in Caller, ReturnRunnerToPool(c)
        PROVE  PoolInv'
    BY <1>3, ReturnPreserves
  <1>4. CASE CleanerTakes
    BY <1>4, TakePreserves
  <1>5. CASE \/ \E c \in Caller : FindsNoIdleRunner(c)
             \/ CleanerTicks \/ CleanerLocks \/ Stop
             \/ UNCHANGED poolVars
    BY <1>5, MovePreserves
  <1>6. QED
    BY <1>1, <1>2, <1>3, <1>4, <1>5 DEF PoolNext, Get, Clean

\* A runner in use was taken out of a channel that had room for it.
LEMMA RoomForRunners == PoolInv => ReturnsAreAccepted
  <1> SUFFICES ASSUME PoolInv, NEW c \in Caller, at[c] = "using"
               PROVE  Cardinality(pool) < maxVmPoolSize
    BY DEF ReturnsAreAccepted
  <1>1. using[c] # {} /\ using[c] \cap pool = {} /\ using[c] \subseteq Alive
    BY DEF PoolInv, RunnersAreExclusive, Alive
  <1>2. pool # Alive
    BY <1>1
  <1>3. Cardinality(pool) # Cardinality(Alive)
    BY <1>2, AliveFinite, FS_Subset DEF PoolInv
  <1>4. QED
    BY <1>3, PoolIsCounted, PoolAssumption DEF PoolInv, PoolTypeOK, RunnersAreCounted

-----------------------------------------------------------------------------
\* The pool keeps its inductive invariant, whatever callers and the cleaner do.
THEOREM PoolInvariance == PoolSpec => []PoolInv
  BY PoolStarts, PoolStep, PTL DEF PoolSpec

\* activeRunnersCount is the number of runners that exist, between the two sizes of
\* the pool (pool.go: GetRunnerFromPool, startCleaner), for any callers and sizes.
THEOREM CountIsKept == PoolSpec => []RunnersAreCounted
  <1>1. PoolInv => RunnersAreCounted
    BY DEF PoolInv
  <1>2. QED
    BY <1>1, PoolInvariance, PTL

\* No runner is used by two callers, or idle and used.
THEOREM RunnersAreNotShared == PoolSpec => []RunnersAreExclusive
  <1>1. PoolInv => RunnersAreExclusive
    BY DEF PoolInv
  <1>2. QED
    BY <1>1, PoolInvariance, PTL

\* The send of ReturnRunnerToPool never finds the channel full.
THEOREM ReturnsFindRoom == PoolSpec => []ReturnsAreAccepted
  BY RoomForRunners, PoolInvariance, PTL

=============================================================================
