----------------------------- MODULE RunnerPool -----------------------------
(***************************************************************************)
(* RunnerPool (pkg/script/pool.go): the virtual machines that evaluate     *)
(* FEEL expressions and scripts.  A caller takes an idle runner from the   *)
(* channel, makes one while there are fewer than maxVmPoolSize, or waits;  *)
(* it puts the runner back when the expression is evaluated.  Every ten    *)
(* minutes a goroutine throws away the idle runners above minVmPoolSize.   *)
(*                                                                         *)
(* The channel is the set of idle runners.  A critical section that does   *)
(* not block is one step, taken while activeRunnersMu is free; the cleaner *)
(* blocks inside its section, so the mutex is a variable.                  *)
(***************************************************************************)
EXTENDS Naturals, FiniteSets

CONSTANTS Caller,          \* goroutines that evaluate expressions
          Runner,          \* identities of runners
          maxVmPoolSize,
          minVmPoolSize

ASSUME PoolAssumption ==
    /\ maxVmPoolSize \in Nat /\ minVmPoolSize \in Nat
    /\ minVmPoolSize <= maxVmPoolSize
    /\ IsFiniteSet(Runner) /\ Cardinality(Runner) >= maxVmPoolSize

VARIABLES pool,                \* the idle runners in the channel
          activeRunnersCount,
          muHeld,              \* the cleaner holds activeRunnersMu
          at,                  \* where each caller is
          using,               \* the runner each caller holds, as a set
          cleaner              \* where the cleaner is

poolVars == <<pool, activeRunnersCount, muHeld, at, using, cleaner>>

Alive == pool \cup UNION {using[c] : c \in Caller}

NewRunnerPool ==
    /\ pool = CHOOSE first \in SUBSET Runner : Cardinality(first) = minVmPoolSize
    /\ activeRunnersCount = minVmPoolSize
    /\ muHeld = FALSE
    /\ at = [c \in Caller |-> "out"]
    /\ using = [c \in Caller |-> {}]
    /\ cleaner = "idle"

-----------------------------------------------------------------------------
(* GetRunnerFromPool *)

Receive(c) ==
    \E r \in pool :
       /\ pool' = pool \ {r}
       /\ using' = [using EXCEPT ![c] = {r}]
       /\ at' = [at EXCEPT ![c] = "using"]
       /\ UNCHANGED <<activeRunnersCount, muHeld, cleaner>>

GetIdleRunner(c) == at[c] = "out" /\ Receive(c)

FindsNoIdleRunner(c) ==
    /\ at[c] = "out"
    /\ pool = {}
    /\ at' = [at EXCEPT ![c] = "locking"]
    /\ UNCHANGED <<pool, activeRunnersCount, muHeld, using, cleaner>>

\* Runners are alike: any identity that is not in use will do.
NewRunner(c) ==
    /\ using' = [using EXCEPT ![c] = {CHOOSE r \in Runner : r \notin Alive}]
    /\ activeRunnersCount' = activeRunnersCount + 1
    /\ at' = [at EXCEPT ![c] = "using"]

\* Whoever found the pool empty makes a runner, whatever the count is by now.
CreatesUnchecked(c) ==
    /\ at[c] = "locking"
    /\ ~muHeld
    /\ NewRunner(c)
    /\ UNCHANGED <<pool, muHeld, cleaner>>

CreateOrWait(c) ==
    /\ at[c] = "locking"
    /\ ~muHeld
    /\ \/ activeRunnersCount < maxVmPoolSize /\ NewRunner(c)
       \/ /\ activeRunnersCount >= maxVmPoolSize
          /\ at' = [at EXCEPT ![c] = "waiting"]
          /\ UNCHANGED <<activeRunnersCount, using>>
    /\ UNCHANGED <<pool, muHeld, cleaner>>

WaitForRunner(c) == at[c] = "waiting" /\ Receive(c)

-----------------------------------------------------------------------------
(* ReturnRunnerToPool.  Its branch for a full channel is never taken       *)
(* (ReturnsAreAccepted), so that a return is the send alone.               *)

ReturnRunnerToPool(c) ==
    /\ at[c] = "using"
    /\ Cardinality(pool) < maxVmPoolSize
    /\ pool' = pool \cup using[c]
    /\ using' = [using EXCEPT ![c] = {}]
    /\ at' = [at EXCEPT ![c] = "out"]
    /\ UNCHANGED <<activeRunnersCount, muHeld, cleaner>>

-----------------------------------------------------------------------------
(* The cleaner: it looks at the number of idle runners before it takes the *)
(* mutex, and receives from the channel while it holds it.                 *)

CleansTheLast(idle) == idle # {}

MoreToClean(idle) == Cardinality(idle) > minVmPoolSize

CleanerTicks ==
    /\ cleaner = "idle"
    /\ MoreToClean(pool)
    /\ cleaner' = "locking"
    /\ UNCHANGED <<pool, activeRunnersCount, muHeld, at, using>>

CleanerLocks ==
    /\ cleaner = "locking"
    /\ ~muHeld
    /\ muHeld' = TRUE
    /\ cleaner' = "taking"
    /\ UNCHANGED <<pool, activeRunnersCount, at, using>>

CleanerTakes ==
    /\ cleaner = "taking"
    /\ \E r \in pool :
          /\ pool' = pool \ {r}
          /\ activeRunnersCount' = activeRunnersCount - 1
          /\ muHeld' = FALSE
          /\ cleaner' = IF MoreToClean(pool \ {r}) THEN "locking" ELSE "idle"
    /\ UNCHANGED <<at, using>>

\* Stop cancels the context the cleaner selects on: it ends between two rounds.
Stop ==
    /\ cleaner = "idle"
    /\ cleaner' = "stopped"
    /\ UNCHANGED <<pool, activeRunnersCount, muHeld, at, using>>

-----------------------------------------------------------------------------
\* The steps of the pool that are not the caller's own choice.
Get(c) ==
    \/ GetIdleRunner(c)
    \/ FindsNoIdleRunner(c)
    \/ CreateOrWait(c)
    \/ WaitForRunner(c)

Clean == CleanerTicks \/ CleanerLocks \/ CleanerTakes \/ Stop

PoolNext ==
    \/ \E c \in Caller : Get(c) \/ ReturnRunnerToPool(c)
    \/ Clean

PoolSpec == NewRunnerPool /\ [][PoolNext]_poolVars

-----------------------------------------------------------------------------
\* Every variable has its type.
PoolTypeOK ==
    /\ pool \in SUBSET Runner
    /\ activeRunnersCount \in Nat
    /\ muHeld \in BOOLEAN
    /\ at \in [Caller -> {"out", "locking", "waiting", "using"}]
    /\ using \in [Caller -> SUBSET Runner]
    /\ cleaner \in {"idle", "locking", "taking", "stopped"}

\* A runner is in the channel or with one caller, never with two: the machines behind
\* the runners are not safe for concurrent use (pool.go, GetRunnerFromPool).
RunnersAreExclusive ==
    /\ \A c \in Caller : using[c] \cap pool = {}
    /\ \A c, d \in Caller : c # d => using[c] \cap using[d] = {}
    /\ \A c \in Caller : at[c] = "using" <=> using[c] # {}

\* activeRunnersCount is the number of runners that exist, and stays between the two
\* sizes although the cleaner looks at the channel before it locks, and a caller at the
\* channel before it counts.
RunnersAreCounted ==
    /\ activeRunnersCount = Cardinality(Alive)
    /\ minVmPoolSize <= activeRunnersCount
    /\ activeRunnersCount <= maxVmPoolSize

\* There is room in the channel for every runner in use: the branch of
\* ReturnRunnerToPool that throws a runner away is dead.
ReturnsAreAccepted ==
    \A c \in Caller : at[c] = "using" => Cardinality(pool) < maxVmPoolSize

=============================================================================
