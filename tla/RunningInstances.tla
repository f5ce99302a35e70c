-------------------------- MODULE RunningInstances --------------------------
(***************************************************************************)
(* RunningInstancesCache, the lock table of the BPMN engine                *)
(* (pkg/bpmn/running_instances_cache.go): a map from process instance keys *)
(* to heap-allocated entries, each a mutex and a count of the goroutines   *)
(* that registered on it.  Entries are made on demand and removed from the *)
(* map when the count drops to zero, so that two goroutines that lock the  *)
(* same key at different times may meet different mutexes.                 *)
(*                                                                         *)
(* The code between c.mu.Lock and c.mu.Unlock never blocks, so each such   *)
(* section is one step; waiting for an entry's own mutex happens outside   *)
(* of it and is a step of its own.                                         *)
(***************************************************************************)
EXTENDS Naturals, FiniteSets

CONSTANTS Goroutine,     \* goroutines that call into the engine
          Key,           \* process instance keys
          Entry,         \* addresses of RunningInstance values
          NoGoroutine,   \* an unlocked mutex
          NoEntry,       \* a key that is absent from the map
          MaxTries,      \* 5 in tryLockInstance
          MaxAbandoned   \* bound of the model: failed tryLockInstance calls

ASSUME RunningInstancesAssumption ==
    /\ IsFiniteSet(Goroutine)
    /\ NoGoroutine \notin Goroutine
    /\ NoEntry \notin Entry
    /\ MaxTries \in Nat
    /\ MaxAbandoned \in Nat

VARIABLES
    processInstances,  \* the map: key -> entry
    owner,             \* entry.mu: the goroutine inside, if any
    waiters,           \* entry.waiters
    call,              \* the lock call each goroutine is in, if any
    held,              \* the keys each goroutine has locked and not unlocked
    abandoned          \* per entry, the failed tries still counted in waiters

cacheVars == <<processInstances, owner, waiters, call, held, abandoned>>

\* A goroutine inside tryLockInstance or lockInstance has registered on an
\* entry and remembers its address (the local variable ri).
Idle == [op |-> "none"]
InCall(op, k, e, n) == [op |-> op, key |-> k, ri |-> e, tried |-> n]

Locking(g) == call[g].op \in {"lock", "try"}

Init ==
    /\ processInstances = [k \in Key |-> NoEntry]
    /\ owner     = [e \in Entry |-> NoGoroutine]
    /\ waiters   = [e \in Entry |-> 0]
    /\ call      = [g \in Goroutine |-> Idle]
    /\ held      = [g \in Goroutine |-> {}]
    /\ abandoned = [e \in Entry |-> 0]

-----------------------------------------------------------------------------
\* An address is free when neither the map nor a goroutine's local variable
\* refers to it: that is when Go may hand it out for a new RunningInstance.
Referenced(e) ==
    \/ \E k \in Key : processInstances[k] = e
    \/ \E g \in Goroutine : Locking(g) /\ call[g].ri = e

\* Mutant of Register: a caller that finds an entry does not count itself.
RegisterUncounted(g, k, op) ==
    /\ call[g].op = "none"
    /\ k \notin held[g]
    /\ \/ /\ processInstances[k] # NoEntry
          /\ call' = [call EXCEPT ![g] = InCall(op, k, processInstances[k], 0)]
          /\ UNCHANGED <<processInstances, owner, waiters, abandoned>>
       \/ /\ processInstances[k] = NoEntry
          /\ \E ri \in Entry :
                /\ ~Referenced(ri)
                /\ processInstances' = [processInstances EXCEPT ![k] = ri]
                /\ owner'     = [owner EXCEPT ![ri] = NoGoroutine]
                /\ waiters'   = [waiters EXCEPT ![ri] = 1]
                /\ abandoned' = [abandoned EXCEPT ![ri] = 0]
                /\ call' = [call EXCEPT ![g] = InCall(op, k, ri, 0)]
    /\ UNCHANGED held

\* The first critical section, shared by both lock methods: find the entry of
\* the key or make one, and count the caller as a waiter.
Register(g, k, op) ==
    /\ call[g].op = "none"
    /\ k \notin held[g]
    /\ \/ /\ processInstances[k] # NoEntry
          /\ LET ri == processInstances[k]
             IN  /\ waiters' = [waiters EXCEPT ![ri] = @ + 1]
                 /\ call' = [call EXCEPT ![g] = InCall(op, k, ri, 0)]
          /\ UNCHANGED <<processInstances, owner, abandoned>>
       \/ /\ processInstances[k] = NoEntry
          /\ \E ri \in Entry :
                /\ ~Referenced(ri)
                /\ processInstances' = [processInstances EXCEPT ![k] = ri]
                /\ owner'     = [owner EXCEPT ![ri] = NoGoroutine]
                /\ waiters'   = [waiters EXCEPT ![ri] = 1]
                /\ abandoned' = [abandoned EXCEPT ![ri] = 0]
                /\ call' = [call EXCEPT ![g] = InCall(op, k, ri, 0)]
    /\ UNCHANGED held

LockInstance(g, k) == Register(g, k, "lock")

\* The bound keeps waiters finite: at most MaxAbandoned tries have failed or
\* may still fail on the entry.
TryLockInstance(g, k) ==
    /\ LET ri     == processInstances[k]
           trying == {h \in Goroutine : call[h].op = "try" /\ call[h].ri = ri}
           lost   == IF ri = NoEntry THEN 0 ELSE abandoned[ri]
       IN  lost + Cardinality(trying) < MaxAbandoned
    /\ Register(g, k, "try")

\* Mutant of Acquire: the result of TryLock is ignored.
AcquireUnchecked(g) ==
    /\ Locking(g)
    /\ owner' = [owner EXCEPT ![call[g].ri] = g]
    /\ held'  = [held EXCEPT ![g] = @ \union {call[g].key}]
    /\ call'  = [call EXCEPT ![g] = Idle]
    /\ UNCHANGED <<processInstances, waiters, abandoned>>

\* ri.mu.Lock() returns, or ri.mu.TryLock() succeeds.
Acquire(g) ==
    /\ Locking(g)
    /\ owner[call[g].ri] = NoGoroutine
    /\ owner' = [owner EXCEPT ![call[g].ri] = g]
    /\ held'  = [held EXCEPT ![g] = @ \union {call[g].key}]
    /\ call'  = [call EXCEPT ![g] = Idle]
    /\ UNCHANGED <<processInstances, waiters, abandoned>>

\* tryLockInstance returns an error.  The caller stays counted in waiters.
Abandon(g) ==
    /\ abandoned' = [abandoned EXCEPT ![call[g].ri] = @ + 1]
    /\ call' = [call EXCEPT ![g] = Idle]
    /\ UNCHANGED <<processInstances, owner, waiters, held>>

\* One unsuccessful round of the retry loop; after the sixth it gives up.
TryLockFails(g) ==
    /\ call[g].op = "try"
    /\ owner[call[g].ri] # NoGoroutine
    /\ \/ /\ call[g].tried + 1 > MaxTries
          /\ Abandon(g)
       \/ /\ call[g].tried + 1 <= MaxTries
          /\ call' = [call EXCEPT ![g].tried = @ + 1]
          /\ UNCHANGED <<processInstances, owner, waiters, held, abandoned>>

\* The context of the call is done before the mutex is free.
ContextDone(g) ==
    /\ call[g].op = "try"
    /\ Abandon(g)

\* unlockInstance looks the entry up again by key.  A key without an entry
\* would be a nil dereference and an unlocked mutex a fatal error of the Go
\* runtime; UnlockFindsItsMutex says that neither happens.
UnlockInstance(g, k) ==
    /\ call[g].op = "none"
    /\ k \in held[g]
    /\ LET ri == processInstances[k]
       IN  /\ ri # NoEntry
           /\ owner[ri] # NoGoroutine
           /\ owner'   = [owner EXCEPT ![ri] = NoGoroutine]
           /\ waiters' = [waiters EXCEPT ![ri] = @ - 1]
           /\ processInstances' =
                IF waiters[ri] = 1
                THEN [processInstances EXCEPT ![k] = NoEntry]
                ELSE processInstances
    /\ held' = [held EXCEPT ![g] = @ \ {k}]
    /\ UNCHANGED <<call, abandoned>>

Next ==
    \E g \in Goroutine :
        \/ \E k \in Key : LockInstance(g, k)
        \/ \E k \in Key : TryLockInstance(g, k)
        \/ Acquire(g)
        \/ TryLockFails(g)
        \/ ContextDone(g)
        \/ \E k \in Key : UnlockInstance(g, k)

Spec == Init /\ [][Next]_cacheVars

-----------------------------------------------------------------------------
Call == {Idle}
        \union [op : {"lock", "try"}, key : Key, ri : Entry, tried : 0..MaxTries]

\* Every variable has its type; waiters never goes below zero.
TypeOK ==
    /\ processInstances \in [Key -> Entry \union {NoEntry}]
    /\ owner     \in [Entry -> Goroutine \union {NoGoroutine}]
    /\ waiters   \in [Entry -> Nat]
    /\ call      \in [Goroutine -> Call]
    /\ held      \in [Goroutine -> SUBSET Key]
    /\ abandoned \in [Entry -> Nat]

\* An instance is processed by one goroutine at a time: no two goroutines are
\* past lockInstance or tryLockInstance of the same key, although the mutex
\* they went through is looked up, removed and made again along the way.
MutualExclusion ==
    \A g, h \in Goroutine : g # h => held[g] \intersect held[h] = {}

\* unlockInstance looks the mutex up by key, not by address: what it finds is
\* the mutex its caller locked, still in the map and still locked by it.
UnlockFindsItsMutex ==
    \A g \in Goroutine : \A k \in held[g] :
        /\ processInstances[k] # NoEntry
        /\ owner[processInstances[k]] = g

\* Nobody waits on a mutex that unlockInstance has dropped from the map: a
\* goroutine between its two steps of a lock call remembers the entry that
\* the next caller of the same key will find.
WaitersStayOnTheMap ==
    \A g \in Goroutine :
        Locking(g) => processInstances[call[g].key] = call[g].ri

Registered(e) ==
    {g \in Goroutine : Locking(g) /\ call[g].ri = e}

Inside(e) ==
    {g \in Goroutine : \E k \in held[g] : processInstances[k] = e}

\* The count that decides when an entry is removed: the goroutines waiting,
\* the one inside, and every tryLockInstance that failed on this entry, which
\* returns without taking its own increment back.
WaitersCount ==
    \A k \in Key : LET e == processInstances[k]
                   IN  e # NoEntry =>
                         waiters[e] = Cardinality(Registered(e))
                                      + Cardinality(Inside(e)) + abandoned[e]

-----------------------------------------------------------------------------
\* The refinement: the owner of the mutex that the map shows for a key is the
\* holder of the key, and registered goroutines wait.
HolderOf(k) == IF processInstances[k] = NoEntry
               THEN NoGoroutine
               ELSE owner[processInstances[k]]
WaitingFor(k) == {g \in Goroutine : Locking(g) /\ call[g].key = k}

Lock == INSTANCE InstanceLock
            WITH holder  <- [k \in Key |-> HolderOf(k)],
                 waiting <- [k \in Key |-> WaitingFor(k)]

\* The cache implements one mutex per process instance key.
ImplementsInstanceLock == Lock!LockSpec
=============================================================================
