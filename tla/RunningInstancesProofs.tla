----------------------- MODULE RunningInstancesProofs -----------------------
(***************************************************************************)
(* Proofs about the lock cache, for any number of goroutines, keys and     *)
(* addresses.  Mutual exclusion is not inductive: a step that removes an   *)
(* entry is only safe because the entry's count covers every goroutine     *)
(* that still remembers its address.  IInv says so.                        *)
(***************************************************************************)
EXTENDS RunningInstances, FiniteSetTheorems, TLAPS

\* Two keys never share an entry.
EntriesDistinct ==
    \A k, l \in Key : processInstances[k] = processInstances[l]
                      /\ processInstances[k] # NoEntry => k = l

\* Whoever owns the mutex shown for a key has that key among those it locked.
OwnersHold ==
    \A k \in Key : \A g \in Goroutine :
        processInstances[k] # NoEntry /\ owner[processInstances[k]] = g
            => k \in held[g]

\* A goroutine waits only for a key it does not hold.
WaitsForOthers ==
    \A g \in Goroutine : Locking(g) => call[g].key \notin held[g]

\* The count of an entry in the map, with the mutex's owner as the one inside.
Busy(e) == IF owner[e] = NoGoroutine THEN 0 ELSE 1

CountsCover ==
    \A k \in Key, e \in Entry :
        processInstances[k] = e =>
            waiters[e] = Cardinality(Registered(e)) + Busy(e) + abandoned[e]

IInv ==
    /\ TypeOK
    /\ UnlockFindsItsMutex
    /\ WaitersStayOnTheMap
    /\ EntriesDistinct
    /\ OwnersHold
    /\ WaitsForOthers
    /\ CountsCover

\* What a goroutine in a lock call remembers.
LEMMA CallCases ==
    ASSUME TypeOK, NEW g \in Goroutine
    PROVE  /\ call[g].op \in {"none", "lock", "try"}
           /\ Locking(g) => /\ call[g] \in [op : {"lock", "try"}, key : Key,
                                            ri : Entry, tried : 0..MaxTries]
                            /\ call[g].key \in Key
                            /\ call[g].ri \in Entry
                            /\ call[g].tried \in 0..MaxTries
  BY DEF TypeOK, Call, Idle, Locking

\* The record of a lock call has its type.
LEMMA InCallType ==
    ASSUME NEW op \in {"lock", "try"}, NEW k \in Key, NEW e \in Entry,
           NEW n \in 0..MaxTries
    PROVE  /\ InCall(op, k, e, n) \in Call
           /\ InCall(op, k, e, n).op = op
           /\ InCall(op, k, e, n).key = k
           /\ InCall(op, k, e, n).ri = e
           /\ InCall(op, k, e, n).tried = n
  BY DEF InCall, Call

\* A try starts with no round done.
LEMMA ZeroTries == 0 \in 0..MaxTries
  BY RunningInstancesAssumption

\* The record of a goroutine in no lock call has its type.
LEMMA IdleType == Idle \in Call /\ Idle.op = "none"
  BY DEF Idle, Call

\* Registering on an entry keeps the types.
LEMMA RegisterType ==
    ASSUME TypeOK, NEW g \in Goroutine, NEW k \in Key, NEW op \in {"lock", "try"},
           Register(g, k, op)
    PROVE  TypeOK'
  <1>1. CASE processInstances[k] # NoEntry
    <2>1. processInstances[k] \in Entry
      BY <1>1 DEF TypeOK
    <2>2. InCall(op, k, processInstances[k], 0) \in Call
      BY <2>1, InCallType, ZeroTries
    <2> QED
      BY <1>1, <2>1, <2>2 DEF TypeOK, Register
  <1>2. CASE processInstances[k] = NoEntry
    <2>1. PICK ri \in Entry :
             /\ processInstances' = [processInstances EXCEPT ![k] = ri]
             /\ owner'     = [owner EXCEPT ![ri] = NoGoroutine]
             /\ waiters'   = [waiters EXCEPT ![ri] = 1]
             /\ abandoned' = [abandoned EXCEPT ![ri] = 0]
             /\ call' = [call EXCEPT ![g] = InCall(op, k, ri, 0)]
      BY <1>2 DEF Register
    <2>2. InCall(op, k, ri, 0) \in Call
      BY InCallType, ZeroTries
    <2> QED
      BY <2>1, <2>2 DEF TypeOK, Register
  <1> QED
    BY <1>1, <1>2

-----------------------------------------------------------------------------
\* The goroutines registered on an entry can be counted.
LEMMA RegisteredFinite ==
    ASSUME NEW e
    PROVE  /\ IsFiniteSet(Registered(e))
           /\ Cardinality(Registered(e)) \in Nat
           /\ IsFiniteSet(Registered(e)')
           /\ Cardinality(Registered(e)') \in Nat
  <1>1. Registered(e) \subseteq Goroutine /\ Registered(e)' \subseteq Goroutine
    BY DEF Registered
  <1> QED
    BY <1>1, FS_Subset, FS_CardinalityType, RunningInstancesAssumption

\* The empty cache satisfies the invariant.
LEMMA InitIInv == Init => IInv
  <1> SUFFICES ASSUME Init PROVE IInv
    OBVIOUS
  <1>1. TypeOK
    BY IdleType DEF Init, TypeOK
  <1> QED
    BY <1>1, IdleType, RunningInstancesAssumption
    DEF Init, IInv, UnlockFindsItsMutex, WaitersStayOnTheMap,
       EntriesDistinct, OwnersHold, WaitsForOthers, CountsCover, Locking

\* A goroutine that finds an entry in the map registers on it.
LEMMA RegisterFound ==
    ASSUME IInv, NEW g \in Goroutine, NEW k \in Key, NEW op \in {"lock", "try"},
           Register(g, k, op), processInstances[k] # NoEntry
    PROVE  IInv'
  <1> DEFINE ri == processInstances[k]
  <1>1. ri \in Entry /\ TypeOK
    BY DEF IInv, TypeOK
  <1>2. /\ waiters' = [waiters EXCEPT ![ri] = @ + 1]
        /\ call' = [call EXCEPT ![g] = InCall(op, k, ri, 0)]
        /\ UNCHANGED <<processInstances, owner, abandoned, held>>
        /\ call[g].op = "none" /\ k \notin held[g]
    BY DEF Register
  <1>3. TypeOK'
    BY RegisterType DEF IInv
  <1>4. /\ call'[g].op = op /\ call'[g].key = k /\ call'[g].ri = ri
        /\ \A h \in Goroutine \ {g} : call'[h] = call[h]
    BY <1>1, <1>2, InCallType, ZeroTries DEF TypeOK
  <1>5. UnlockFindsItsMutex'
    BY <1>2 DEF IInv, UnlockFindsItsMutex
  <1>6. WaitersStayOnTheMap' /\ WaitsForOthers'
    BY <1>2, <1>4 DEF IInv, WaitersStayOnTheMap, WaitsForOthers, Locking
  <1>7. EntriesDistinct' /\ OwnersHold'
    BY <1>2 DEF IInv, EntriesDistinct, OwnersHold
  <1>8. CountsCover'
    <2>1. SUFFICES ASSUME NEW l \in Key, NEW e \in Entry,
                          processInstances'[l] = e
                   PROVE  waiters'[e] = Cardinality(Registered(e)') + Busy(e)'
                                        + abandoned'[e]
      BY DEF CountsCover
    <2>2. processInstances[l] = e
      BY <2>1, <1>2
    <2>3. waiters[e] = Cardinality(Registered(e)) + Busy(e) + abandoned[e]
      BY <2>2 DEF IInv, CountsCover
    <2>4. Busy(e)' = Busy(e) /\ abandoned'[e] = abandoned[e]
      BY <1>2 DEF Busy
    <2>5. CASE l = k
      <3>1. Registered(e)' = Registered(e) \union {g} /\ g \notin Registered(e)
        BY <1>2, <1>4, <2>2, <2>5 DEF Registered, Locking
      <3>2. Cardinality(Registered(e)') = Cardinality(Registered(e)) + 1
        BY <3>1, FS_AddElement, RegisteredFinite
      <3>3. waiters'[e] = waiters[e] + 1 /\ waiters[e] \in Nat /\ abandoned[e] \in Nat
        BY <1>1, <1>2, <2>2, <2>5 DEF TypeOK
      <3> QED
        BY <2>2, <2>3, <2>4, <3>2, <3>3, RegisteredFinite DEF Busy
    <2>6. CASE l # k
      <3>1. e # ri
        BY <2>2, <2>6, RunningInstancesAssumption DEF IInv, EntriesDistinct
      <3>2. Registered(e)' = Registered(e)
        BY <1>2, <1>4, <3>1 DEF Registered, Locking
      <3>3. waiters'[e] = waiters[e]
        BY <1>1, <1>2, <2>2, <3>1 DEF TypeOK
      <3> QED
        BY <2>2, <2>3, <2>4, <3>2, <3>3
    <2> QED
      BY <2>5, <2>6
  <1> QED
    BY <1>3, <1>5, <1>6, <1>7, <1>8 DEF IInv

\* A goroutine that finds none makes an entry at a free address.
LEMMA RegisterNew ==
    ASSUME IInv, NEW g \in Goroutine, NEW k \in Key, NEW op \in {"lock", "try"},
           Register(g, k, op), processInstances[k] = NoEntry
    PROVE  IInv'
  <1>1. PICK ri \in Entry :
           /\ ~Referenced(ri)
           /\ processInstances' = [processInstances EXCEPT ![k] = ri]
           /\ owner'     = [owner EXCEPT ![ri] = NoGoroutine]
           /\ waiters'   = [waiters EXCEPT ![ri] = 1]
           /\ abandoned' = [abandoned EXCEPT ![ri] = 0]
           /\ call' = [call EXCEPT ![g] = InCall(op, k, ri, 0)]
    BY DEF Register
  <1>2. TypeOK /\ held' = held /\ call[g].op = "none" /\ k \notin held[g]
    BY DEF Register, IInv
  <1>3. TypeOK'
    BY RegisterType DEF IInv
  <1>4. /\ call'[g].op = op /\ call'[g].key = k /\ call'[g].ri = ri
        /\ \A h \in Goroutine \ {g} : call'[h] = call[h]
    BY <1>1, <1>2, InCallType, ZeroTries DEF TypeOK
  <1>5. /\ processInstances'[k] = ri
        /\ \A l \in Key \ {k} : processInstances'[l] = processInstances[l]
        /\ \A l \in Key : processInstances[l] # ri
        /\ ri # NoEntry
    BY <1>1, <1>2, RunningInstancesAssumption DEF TypeOK, Referenced
  <1>6. /\ owner'[ri] = NoGoroutine /\ waiters'[ri] = 1 /\ abandoned'[ri] = 0
        /\ \A e \in Entry \ {ri} : /\ owner'[e] = owner[e]
                                   /\ waiters'[e] = waiters[e]
                                   /\ abandoned'[e] = abandoned[e]
    BY <1>1, <1>2 DEF TypeOK
  <1>7. UnlockFindsItsMutex'
    <2> SUFFICES ASSUME NEW h \in Goroutine, NEW l \in held'[h]
                 PROVE  /\ processInstances'[l] # NoEntry
                        /\ owner'[processInstances'[l]] = h
      BY DEF UnlockFindsItsMutex
    <2>1. l \in Key /\ l \in held[h]
      BY <1>2 DEF TypeOK
    <2>2. processInstances[l] # NoEntry /\ owner[processInstances[l]] = h
      BY <2>1 DEF IInv, UnlockFindsItsMutex
    <2>3. l # k
      BY <2>2
    <2> QED
      BY <1>5, <1>6, <2>1, <2>2, <2>3, <1>2 DEF TypeOK
  <1>8. WaitersStayOnTheMap'
    <2> SUFFICES ASSUME NEW h \in Goroutine, Locking(h)'
                 PROVE  processInstances'[call'[h].key] = call'[h].ri
      BY DEF WaitersStayOnTheMap
    <2>1. CASE h = g
      BY <2>1, <1>4, <1>5
    <2>2. CASE h # g
      <3>1. Locking(h) /\ call'[h] = call[h]
        BY <2>2, <1>4 DEF Locking
      <3>2. call[h].key \in Key /\ call[h].ri \in Entry
        BY <3>1, <1>2, CallCases
      <3>3. processInstances[call[h].key] = call[h].ri
        BY <3>1 DEF IInv, WaitersStayOnTheMap
      <3>4. call[h].key # k
        BY <3>2, <3>3, RunningInstancesAssumption
      <3> QED
        BY <3>1, <3>2, <3>3, <3>4, <1>5
    <2> QED
      BY <2>1, <2>2
  <1>9. EntriesDistinct'
    BY <1>5 DEF IInv, EntriesDistinct
  <1>10. OwnersHold'
    <2> SUFFICES ASSUME NEW l \in Key, NEW h \in Goroutine,
                        processInstances'[l] # NoEntry,
                        owner'[processInstances'[l]] = h
                 PROVE  l \in held'[h]
      BY DEF OwnersHold
    <2>1. l # k
      BY <1>5, <1>6, RunningInstancesAssumption
    <2>2. /\ processInstances'[l] = processInstances[l]
          /\ processInstances[l] \in Entry \ {ri}
      BY <2>1, <1>5, <1>2 DEF TypeOK
    <2> QED
      BY <2>2, <1>6, <1>2 DEF IInv, OwnersHold
  <1>11. WaitsForOthers'
    BY <1>2, <1>4 DEF IInv, WaitsForOthers, Locking
  <1>12. CountsCover'
    <2>1. SUFFICES ASSUME NEW l \in Key, NEW e \in Entry,
                          processInstances'[l] = e
                   PROVE  waiters'[e] = Cardinality(Registered(e)') + Busy(e)'
                                        + abandoned'[e]
      BY DEF CountsCover
    <2>2. CASE l = k
      <3>1. Registered(ri)' = {g}
        BY <1>1, <1>2, <1>4 DEF Registered, Referenced, Locking
      <3>2. Cardinality(Registered(ri)') = 1
        BY <3>1, FS_Singleton
      <3> QED
        BY <2>1, <2>2, <1>5, <1>6, <3>2 DEF Busy
    <2>3. CASE l # k
      <3>1. processInstances[l] = e /\ e # ri
        BY <2>1, <2>3, <1>5
      <3>2. Registered(e)' = Registered(e)
        BY <3>1, <1>2, <1>4 DEF Registered, Locking
      <3>3. waiters[e] = Cardinality(Registered(e)) + Busy(e) + abandoned[e]
        BY <3>1 DEF IInv, CountsCover
      <3> QED
        BY <3>1, <3>2, <3>3, <1>6 DEF Busy
    <2> QED
      BY <2>2, <2>3
  <1> QED
    BY <1>3, <1>7, <1>8, <1>9, <1>10, <1>11, <1>12 DEF IInv

\* The owner's mutex is free: the caller moves from the waiters to the inside.
LEMMA AcquireStep ==
    ASSUME IInv, NEW g \in Goroutine, Acquire(g)
    PROVE  IInv'
  <1> DEFINE ri == call[g].ri
             k  == call[g].key
  <1>1. /\ ri \in Entry /\ k \in Key /\ TypeOK /\ ri # NoEntry
        /\ processInstances[k] = ri
        /\ k \notin held[g]
    BY CallCases, RunningInstancesAssumption
    DEF IInv, Acquire, WaitersStayOnTheMap, WaitsForOthers
  <1>2. /\ owner[ri] = NoGoroutine
        /\ owner' = [owner EXCEPT ![ri] = g]
        /\ held'  = [held EXCEPT ![g] = @ \union {k}]
        /\ call'  = [call EXCEPT ![g] = Idle]
        /\ UNCHANGED <<processInstances, waiters, abandoned>>
    BY DEF Acquire
  <1>3. TypeOK'
    BY <1>1, <1>2, IdleType DEF TypeOK
  <1>4. ~Locking(g)' /\ \A h \in Goroutine \ {g} : call'[h] = call[h]
    BY <1>1, <1>2, IdleType DEF TypeOK, Locking
  <1>5. /\ owner'[ri] = g
        /\ \A e \in Entry \ {ri} : owner'[e] = owner[e]
        /\ held'[g] = held[g] \union {k}
        /\ \A h \in Goroutine \ {g} : held'[h] = held[h]
    BY <1>1, <1>2 DEF TypeOK
  <1>6. UnlockFindsItsMutex'
    <2> SUFFICES ASSUME NEW h \in Goroutine, NEW l \in held'[h]
                 PROVE  /\ processInstances'[l] # NoEntry
                        /\ owner'[processInstances'[l]] = h
      BY DEF UnlockFindsItsMutex
    <2>1. CASE h = g /\ l = k
      BY <2>1, <1>1, <1>2, <1>5
    <2>2. CASE ~(h = g /\ l = k)
      <3>1. l \in held[h] /\ l \in Key
        BY <2>2, <1>5, <1>1 DEF TypeOK
      <3>2. processInstances[l] # NoEntry /\ owner[processInstances[l]] = h
        BY <3>1 DEF IInv, UnlockFindsItsMutex
      <3>3. processInstances[l] \in Entry \ {ri}
        BY <3>1, <3>2, <1>1, <1>2, RunningInstancesAssumption DEF TypeOK
      <3> QED
        BY <3>2, <3>3, <1>2, <1>5
    <2> QED
      BY <2>1, <2>2
  <1>7. WaitersStayOnTheMap'
    BY <1>2, <1>4 DEF IInv, WaitersStayOnTheMap, Locking
  <1>8. EntriesDistinct'
    BY <1>2 DEF IInv, EntriesDistinct
  <1>9. OwnersHold'
    <2> SUFFICES ASSUME NEW l \in Key, NEW h \in Goroutine,
                        processInstances'[l] # NoEntry,
                        owner'[processInstances'[l]] = h
                 PROVE  l \in held'[h]
      BY DEF OwnersHold
    <2>1. processInstances[l] \in Entry /\ processInstances'[l] = processInstances[l]
      BY <1>1, <1>2 DEF TypeOK
    <2>2. CASE processInstances[l] = ri
      <3>1. l = k
        BY <2>1, <2>2, <1>1, RunningInstancesAssumption DEF IInv, EntriesDistinct
      <3> QED
        BY <3>1, <2>1, <2>2, <1>5
    <2>3. CASE processInstances[l] # ri
      <3>1. l \in held[h]
        BY <2>1, <2>3, <1>2, <1>5 DEF IInv, OwnersHold
      <3> QED
        BY <3>1, <1>5
    <2> QED
      BY <2>2, <2>3
  <1>10. WaitsForOthers'
    BY <1>4, <1>5 DEF IInv, WaitsForOthers, Locking
  <1>11. CountsCover'
    <2>1. SUFFICES ASSUME NEW l \in Key, NEW e \in Entry,
                          processInstances'[l] = e
                   PROVE  waiters'[e] = Cardinality(Registered(e)') + Busy(e)'
                                        + abandoned'[e]
      BY DEF CountsCover
    <2>2. processInstances[l] = e /\ waiters'[e] = waiters[e]
          /\ abandoned'[e] = abandoned[e]
      BY <2>1, <1>2
    <2>3. waiters[e] = Cardinality(Registered(e)) + Busy(e) + abandoned[e]
      BY <2>2 DEF IInv, CountsCover
    <2>4. CASE e = ri
      <3>1. Registered(e)' = Registered(e) \ {g} /\ g \in Registered(e)
        BY <2>4, <1>4 DEF Registered, Locking, Acquire
      <3>2. Cardinality(Registered(e)') = Cardinality(Registered(e)) - 1
        BY <3>1, FS_RemoveElement, RegisteredFinite
      <3>3. Busy(e) = 0 /\ Busy(e)' = 1 /\ abandoned[e] \in Nat
        BY <2>4, <1>1, <1>2, <1>5, RunningInstancesAssumption DEF Busy, TypeOK
      <3> QED
        BY <2>2, <2>3, <3>2, <3>3, RegisteredFinite
    <2>5. CASE e # ri
      <3>1. Registered(e)' = Registered(e)
        BY <2>5, <1>4 DEF Registered, Locking
      <3>2. Busy(e)' = Busy(e)
        BY <2>5, <1>5 DEF Busy
      <3> QED
        BY <2>2, <2>3, <3>1, <3>2
    <2> QED
      BY <2>4, <2>5
  <1> QED
    BY <1>3, <1>6, <1>7, <1>8, <1>9, <1>10, <1>11 DEF IInv

\* A try that fails: one waiter less, one abandoned count more.
LEMMA AbandonStep ==
    ASSUME IInv, NEW g \in Goroutine, call[g].op = "try", Abandon(g)
    PROVE  IInv'
  <1> DEFINE ri == call[g].ri
  <1>1. ri \in Entry /\ TypeOK /\ Locking(g)
    BY CallCases DEF IInv, Locking
  <1>2. /\ abandoned' = [abandoned EXCEPT ![ri] = @ + 1]
        /\ call' = [call EXCEPT ![g] = Idle]
        /\ UNCHANGED <<processInstances, owner, waiters, held>>
    BY DEF Abandon
  <1>3. TypeOK'
    BY <1>1, <1>2, IdleType DEF TypeOK
  <1>4. ~Locking(g)' /\ \A h \in Goroutine \ {g} : call'[h] = call[h]
    BY <1>1, <1>2, IdleType DEF TypeOK, Locking
  <1>5. UnlockFindsItsMutex' /\ EntriesDistinct' /\ OwnersHold'
    BY <1>2 DEF IInv, UnlockFindsItsMutex, EntriesDistinct, OwnersHold
  <1>6. WaitersStayOnTheMap' /\ WaitsForOthers'
    BY <1>2, <1>4 DEF IInv, WaitersStayOnTheMap, WaitsForOthers, Locking
  <1>7. CountsCover'
    <2>1. SUFFICES ASSUME NEW l \in Key, NEW e \in Entry,
                          processInstances'[l] = e
                   PROVE  waiters'[e] = Cardinality(Registered(e)') + Busy(e)'
                                        + abandoned'[e]
      BY DEF CountsCover
    <2>2. processInstances[l] = e /\ waiters'[e] = waiters[e] /\ Busy(e)' = Busy(e)
      BY <2>1, <1>2 DEF Busy
    <2>3. waiters[e] = Cardinality(Registered(e)) + Busy(e) + abandoned[e]
      BY <2>2 DEF IInv, CountsCover
    <2>4. CASE e = ri
      <3>1. Registered(e)' = Registered(e) \ {g} /\ g \in Registered(e)
        BY <2>4, <1>1, <1>4 DEF Registered, Locking
      <3>2. Cardinality(Registered(e)') = Cardinality(Registered(e)) - 1
        BY <3>1, FS_RemoveElement, RegisteredFinite
      <3>3. abandoned'[e] = abandoned[e] + 1 /\ abandoned[e] \in Nat
            /\ Busy(e) \in Nat
        BY <2>4, <1>1, <1>2 DEF TypeOK, Busy
      <3> QED
        BY <2>2, <2>3, <3>2, <3>3, RegisteredFinite
    <2>5. CASE e # ri
      <3>1. Registered(e)' = Registered(e) /\ abandoned'[e] = abandoned[e]
        BY <2>5, <1>1, <1>2, <1>4 DEF Registered, Locking, TypeOK
      <3> QED
        BY <2>2, <2>3, <3>1
    <2> QED
      BY <2>4, <2>5
  <1> QED
    BY <1>3, <1>5, <1>6, <1>7 DEF IInv

\* One more round of the retry loop changes nothing but its counter.
LEMMA RetryStep ==
    ASSUME IInv, NEW g \in Goroutine, call[g].op = "try",
           call[g].tried + 1 <= MaxTries,
           call' = [call EXCEPT ![g].tried = @ + 1],
           UNCHANGED <<processInstances, owner, waiters, held, abandoned>>
    PROVE  IInv'
  <1>1. TypeOK /\ Locking(g)
    BY DEF IInv, Locking
  <1>2. call[g] \in [op : {"lock", "try"}, key : Key, ri : Entry,
                     tried : 0..MaxTries]
    BY <1>1, CallCases
  <1>3. /\ [call[g] EXCEPT !.tried = @ + 1] \in Call
        /\ [call[g] EXCEPT !.tried = @ + 1].op = call[g].op
        /\ [call[g] EXCEPT !.tried = @ + 1].key = call[g].key
        /\ [call[g] EXCEPT !.tried = @ + 1].ri = call[g].ri
    BY <1>2, RunningInstancesAssumption DEF Call
  <1>4. call'[g] = [call[g] EXCEPT !.tried = @ + 1]
        /\ \A h \in Goroutine \ {g} : call'[h] = call[h]
    BY <1>1 DEF TypeOK
  <1>5. \A h \in Goroutine : /\ call'[h].op = call[h].op
                             /\ call'[h].key = call[h].key
                             /\ call'[h].ri = call[h].ri
    BY <1>3, <1>4
  <1>6. TypeOK'
    BY <1>1, <1>3 DEF TypeOK
  <1>7. UnlockFindsItsMutex' /\ EntriesDistinct' /\ OwnersHold'
    BY DEF IInv, UnlockFindsItsMutex, EntriesDistinct, OwnersHold
  <1>8. WaitersStayOnTheMap' /\ WaitsForOthers'
    BY <1>5 DEF IInv, WaitersStayOnTheMap, WaitsForOthers, Locking
  <1>9. \A e \in Entry : Registered(e)' = Registered(e) /\ Busy(e)' = Busy(e)
    BY <1>5 DEF Registered, Locking, Busy
  <1>10. CountsCover'
    BY <1>9 DEF IInv, CountsCover
  <1> QED
    BY <1>6, <1>7, <1>8, <1>10 DEF IInv

\* The one inside leaves.  When the count says that it was the last one, no
\* other goroutine remembers the entry, so the map may drop it.
LEMMA UnlockStep ==
    ASSUME IInv, NEW g \in Goroutine, NEW k \in Key, UnlockInstance(g, k)
    PROVE  IInv'
  <1> DEFINE ri == processInstances[k]
  <1>1. /\ TypeOK /\ ri \in Entry /\ ri # NoEntry /\ owner[ri] = g
        /\ k \in held[g]
    BY DEF IInv, TypeOK, UnlockInstance, UnlockFindsItsMutex
  <1>2. /\ owner'   = [owner EXCEPT ![ri] = NoGoroutine]
        /\ waiters' = [waiters EXCEPT ![ri] = @ - 1]
        /\ processInstances' =
              IF waiters[ri] = 1
              THEN [processInstances EXCEPT ![k] = NoEntry]
              ELSE processInstances
        /\ held' = [held EXCEPT ![g] = @ \ {k}]
        /\ UNCHANGED <<call, abandoned>>
    BY DEF UnlockInstance
  <1>3. waiters[ri] = Cardinality(Registered(ri)) + 1 + abandoned[ri]
    BY <1>1, RunningInstancesAssumption DEF IInv, CountsCover, Busy
  <1>4. waiters[ri] - 1 \in Nat /\ waiters[ri] \in Nat /\ abandoned[ri] \in Nat
    BY <1>1, <1>3, RegisteredFinite DEF TypeOK
  <1>5. TypeOK'
    BY <1>1, <1>2, <1>4 DEF TypeOK
  <1>6. /\ owner'[ri] = NoGoroutine
        /\ \A e \in Entry \ {ri} : owner'[e] = owner[e] /\ waiters'[e] = waiters[e]
        /\ waiters'[ri] = waiters[ri] - 1
        /\ held'[g] = held[g] \ {k}
        /\ \A h \in Goroutine \ {g} : held'[h] = held[h]
    BY <1>1, <1>2 DEF TypeOK
  <1>7. \A l \in Key : \/ processInstances'[l] = processInstances[l]
                       \/ l = k /\ waiters[ri] = 1 /\ processInstances'[l] = NoEntry
    BY <1>1, <1>2 DEF TypeOK
  <1>8. UnlockFindsItsMutex'
    <2> SUFFICES ASSUME NEW h \in Goroutine, NEW l \in held'[h]
                 PROVE  /\ processInstances'[l] # NoEntry
                        /\ owner'[processInstances'[l]] = h
      BY DEF UnlockFindsItsMutex
    <2>1. l \in held[h] /\ l \in Key /\ ~(h = g /\ l = k)
      BY <1>1, <1>6 DEF TypeOK
    <2>2. processInstances[l] # NoEntry /\ owner[processInstances[l]] = h
      BY <2>1 DEF IInv, UnlockFindsItsMutex
    <2>3. l # k
      BY <2>1, <2>2, <1>1
    <2>4. processInstances[l] # ri
      BY <2>1, <2>2, <2>3 DEF IInv, EntriesDistinct
    <2>5. processInstances[l] \in Entry
      BY <2>1, <2>2, <1>1 DEF TypeOK
    <2> QED
      BY <2>1, <2>2, <2>3, <2>4, <2>5, <1>6, <1>7
  <1>9. WaitersStayOnTheMap'
    <2> SUFFICES ASSUME NEW h \in Goroutine, Locking(h)'
                 PROVE  processInstances'[call'[h].key] = call'[h].ri
      BY DEF WaitersStayOnTheMap
    <2>1. Locking(h) /\ call'[h] = call[h]
      BY <1>2 DEF Locking
    <2>2. call[h].key \in Key /\ processInstances[call[h].key] = call[h].ri
      BY <2>1, <1>1, CallCases DEF IInv, WaitersStayOnTheMap
    <2>3. CASE call[h].key = k /\ waiters[ri] = 1
      <3>1. h \in Registered(ri)
        BY <2>1, <2>2, <2>3 DEF Registered
      <3>2. Cardinality(Registered(ri)) = 0
        BY <2>3, <1>3, <1>4, RegisteredFinite
      <3>3. Registered(ri) = {}
        BY <3>2, FS_EmptySet, RegisteredFinite
      <3> QED
        BY <3>1, <3>3
    <2>4. CASE ~(call[h].key = k /\ waiters[ri] = 1)
      BY <2>1, <2>2, <2>4, <1>7
    <2> QED
      BY <2>3, <2>4
  <1>10. EntriesDistinct'
    BY <1>7 DEF IInv, EntriesDistinct
  <1>11. OwnersHold'
    <2> SUFFICES ASSUME NEW l \in Key, NEW h \in Goroutine,
                        processInstances'[l] # NoEntry,
                        owner'[processInstances'[l]] = h
                 PROVE  l \in held'[h]
      BY DEF OwnersHold
    <2>1. processInstances'[l] = processInstances[l] /\ processInstances[l] \in Entry
      BY <1>1, <1>7 DEF TypeOK
    <2>2. processInstances[l] # ri
      BY <2>1, <1>6, RunningInstancesAssumption
    <2>3. l \in held[h] /\ l # k
      BY <2>1, <2>2, <1>6 DEF IInv, OwnersHold
    <2> QED
      BY <2>3, <1>6
  <1>12. WaitsForOthers'
    BY <1>2, <1>6 DEF IInv, WaitsForOthers, Locking
  <1>13. CountsCover'
    <2>1. SUFFICES ASSUME NEW l \in Key, NEW e \in Entry,
                          processInstances'[l] = e
                   PROVE  waiters'[e] = Cardinality(Registered(e)') + Busy(e)'
                                        + abandoned'[e]
      BY DEF CountsCover
    <2>2. processInstances[l] = e
      BY <2>1, <1>7, RunningInstancesAssumption
    <2>3. waiters[e] = Cardinality(Registered(e)) + Busy(e) + abandoned[e]
      BY <2>2 DEF IInv, CountsCover
    <2>4. Registered(e)' = Registered(e) /\ abandoned'[e] = abandoned[e]
      BY <1>2 DEF Registered, Locking
    <2>5. CASE e = ri
      <3>1. Busy(e)' = 0
        BY <2>5, <1>6 DEF Busy
      <3> QED
        BY <2>4, <2>5, <3>1, <1>3, <1>4, <1>6, RegisteredFinite
    <2>6. CASE e # ri
      BY <2>3, <2>4, <2>6, <1>6 DEF Busy
    <2> QED
      BY <2>5, <2>6
  <1> QED
    BY <1>5, <1>8, <1>9, <1>10, <1>11, <1>12, <1>13 DEF IInv

\* Every step of lockInstance, tryLockInstance and unlockInstance keeps it.
LEMMA NextIInv == IInv /\ [Next]_cacheVars => IInv'
  <1> SUFFICES ASSUME IInv, [Next]_cacheVars PROVE IInv'
    OBVIOUS
  <1>1. ASSUME NEW g \in Goroutine, NEW k \in Key, NEW op \in {"lock", "try"},
               Register(g, k, op)
        PROVE  IInv'
    BY <1>1, RegisterFound, RegisterNew
  <1>2. ASSUME NEW g \in Goroutine, NEW k \in Key, LockInstance(g, k)
        PROVE  IInv'
    BY <1>1, <1>2 DEF LockInstance
  <1>3. ASSUME NEW g \in Goroutine, NEW k \in Key, TryLockInstance(g, k)
        PROVE  IInv'
    BY <1>1, <1>3 DEF TryLockInstance
  <1>4. ASSUME NEW g \in Goroutine, Acquire(g) PROVE IInv'
    BY <1>4, AcquireStep
  <1>5. ASSUME NEW g \in Goroutine, TryLockFails(g) PROVE IInv'
    BY <1>5, AbandonStep, RetryStep DEF TryLockFails
  <1>6. ASSUME NEW g \in Goroutine, ContextDone(g) PROVE IInv'
    BY <1>6, AbandonStep DEF ContextDone
  <1>7. ASSUME NEW g \in Goroutine, NEW k \in Key, UnlockInstance(g, k)
        PROVE  IInv'
    BY <1>7, UnlockStep
  <1>8. CASE UNCHANGED cacheVars
    BY <1>8 DEF cacheVars, IInv, TypeOK, UnlockFindsItsMutex, WaitersStayOnTheMap,
       EntriesDistinct, OwnersHold, WaitsForOthers, CountsCover, Locking, Busy,
       Registered
  <1> QED
    BY <1>2, <1>3, <1>4, <1>5, <1>6, <1>7, <1>8 DEF Next

\* The inductive invariant: every goroutine in or past a lock call refers to the
\* entry that the map has for its key, and an entry's count covers all of them.
THEOREM Invariance == Spec => []IInv
  BY InitIInv, NextIInv, PTL DEF Spec

-----------------------------------------------------------------------------
\* Two holders of a key would both own the mutex that the map has for it.
LEMMA IInvExclusion == IInv => MutualExclusion
  <1> SUFFICES ASSUME IInv, NEW g \in Goroutine, NEW h \in Goroutine,
                      NEW k \in held[g], k \in held[h]
               PROVE  g = h
    BY DEF MutualExclusion
  <1> QED
    BY DEF IInv, UnlockFindsItsMutex

\* The goroutine inside an entry is the owner of its mutex, and the only one.
LEMMA InsideIsOwner ==
    ASSUME IInv, NEW k \in Key, NEW e \in Entry, processInstances[k] = e
    PROVE  Inside(e) = IF owner[e] = NoGoroutine THEN {} ELSE {owner[e]}
  <1>1. \A g \in Goroutine : g \in Inside(e) <=> owner[e] = g
    BY RunningInstancesAssumption
    DEF IInv, TypeOK, Inside, UnlockFindsItsMutex, OwnersHold, EntriesDistinct
  <1>2. owner[e] \in Goroutine \union {NoGoroutine} /\ Inside(e) \subseteq Goroutine
    BY DEF IInv, TypeOK, Inside
  <1> QED
    BY <1>1, <1>2, RunningInstancesAssumption

\* The count of an entry is what the invariant says of it.
LEMMA IInvCount == IInv => WaitersCount
  <1> SUFFICES ASSUME IInv, NEW k \in Key, NEW e \in Entry,
                      processInstances[k] = e
               PROVE  waiters[e] = Cardinality(Registered(e))
                                   + Cardinality(Inside(e)) + abandoned[e]
    BY DEF WaitersCount, IInv, TypeOK
  <1>1. Cardinality(Inside(e)) = Busy(e)
    <2>1. CASE owner[e] = NoGoroutine
      BY <2>1, InsideIsOwner, FS_EmptySet DEF Busy
    <2>2. CASE owner[e] # NoGoroutine
      BY <2>2, InsideIsOwner, FS_Singleton DEF Busy
    <2> QED
      BY <2>1, <2>2
  <1> QED
    BY <1>1 DEF IInv, CountsCover

\* Type correctness of the lock cache, in particular that no count is negative.
THEOREM TypeCorrect == Spec => []TypeOK
  <1>1. IInv => TypeOK
    BY DEF IInv
  <1> QED
    BY <1>1, Invariance, PTL

\* No two goroutines process the same instance, however many entries come and
\* go while they lock, try and unlock.
THEOREM ExclusionHolds == Spec => []MutualExclusion
  BY IInvExclusion, Invariance, PTL

\* unlockInstance never dereferences a missing entry and never unlocks
\* somebody else's mutex.
THEOREM UnlockIsSafe == Spec => []UnlockFindsItsMutex
  <1>1. IInv => UnlockFindsItsMutex
    BY DEF IInv
  <1> QED
    BY <1>1, Invariance, PTL

\* No goroutine waits on a mutex that is no longer in the map.
THEOREM WaitersAreReachable == Spec => []WaitersStayOnTheMap
  <1>1. IInv => WaitersStayOnTheMap
    BY DEF IInv
  <1> QED
    BY <1>1, Invariance, PTL

\* The count of an entry is exact up to the failed tries that stay in it.
THEOREM CountIsExact == Spec => []WaitersCount
  BY IInvCount, Invariance, PTL
-----------------------------------------------------------------------------
(* The refinement: every step of the cache is a step of one mutex per key.   *)
HolderMap  == [k \in Key |-> HolderOf(k)]
WaitingMap == [k \in Key |-> WaitingFor(k)]

\* Registering changes nobody's holding and adds the caller to the waiters.
LEMMA RegisterRefines ==
    ASSUME IInv, NEW g \in Goroutine, NEW k \in Key, NEW op \in {"lock", "try"},
           Register(g, k, op)
    PROVE  Lock!Ask(g, k)
  <1>1. TypeOK /\ ~Locking(g) /\ held' = held /\ k \notin held[g]
    BY DEF IInv, Register, Locking
  <1>2. PICK ri \in Entry : call' = [call EXCEPT ![g] = InCall(op, k, ri, 0)]
    BY <1>1 DEF Register, TypeOK
  <1>3. /\ Locking(g)' /\ call'[g].key = k
        /\ \A h \in Goroutine \ {g} : call'[h] = call[h]
    BY <1>1, <1>2, InCallType, ZeroTries DEF TypeOK, Locking
  <1>4. \A l \in Key : HolderOf(l)' = HolderOf(l)
    <2> SUFFICES ASSUME NEW l \in Key PROVE HolderOf(l)' = HolderOf(l)
      OBVIOUS
    <2>1. CASE processInstances[k] # NoEntry
      BY <2>1 DEF Register, HolderOf
    <2>2. CASE processInstances[k] = NoEntry
      <3>1. PICK e \in Entry :
               /\ ~Referenced(e)
               /\ processInstances' = [processInstances EXCEPT ![k] = e]
               /\ owner' = [owner EXCEPT ![e] = NoGoroutine]
        BY <2>2 DEF Register
      <3>2. CASE l = k
        BY <3>1, <3>2, <2>2, <1>1 DEF HolderOf, TypeOK
      <3>3. CASE l # k
        BY <3>1, <3>3, <1>1 DEF HolderOf, TypeOK, Referenced
      <3> QED
        BY <3>2, <3>3
    <2> QED
      BY <2>1, <2>2
  <1>5. /\ WaitingFor(k)' = WaitingFor(k) \union {g}
        /\ \A l \in Key \ {k} : WaitingFor(l)' = WaitingFor(l)
    BY <1>1, <1>3 DEF WaitingFor, Locking
  <1>6. HolderMap' = HolderMap
    BY <1>4 DEF HolderMap
  <1>7. WaitingMap' = [WaitingMap EXCEPT ![k] = WaitingMap[k] \union {g}]
    BY <1>5 DEF WaitingMap
  <1>8. \A l \in Key : g \notin WaitingMap[l]
    BY <1>1 DEF WaitingMap, WaitingFor
  <1>9. HolderMap[k] # g
    BY <1>1, RunningInstancesAssumption DEF HolderMap, HolderOf, IInv, OwnersHold
  <1> QED
    BY <1>6, <1>7, <1>8, <1>9 DEF Lock!Ask, HolderMap, WaitingMap

\* Getting the mutex of the entry is getting the key.
LEMMA AcquireRefines ==
    ASSUME IInv, NEW g \in Goroutine, Acquire(g),
           NEW k \in Key, k = call[g].key
    PROVE  Lock!Get(g, k)
  <1> DEFINE ri == call[g].ri
  <1>1. /\ TypeOK /\ Locking(g) /\ k \in Key /\ ri \in Entry
        /\ processInstances[k] = ri
    BY CallCases DEF IInv, Acquire, WaitersStayOnTheMap
  <1>2. /\ owner[ri] = NoGoroutine
        /\ owner' = [owner EXCEPT ![ri] = g]
        /\ processInstances' = processInstances
    BY DEF Acquire
  <1>3. ~Locking(g)' /\ \A h \in Goroutine \ {g} : call'[h] = call[h]
    BY <1>1, IdleType DEF Acquire, TypeOK, Locking
  <1>4. HolderOf(k) = NoGoroutine /\ HolderOf(k)' = g
    BY <1>1, <1>2, RunningInstancesAssumption DEF HolderOf, TypeOK
  <1>5. \A l \in Key \ {k} : HolderOf(l)' = HolderOf(l)
    <2> SUFFICES ASSUME NEW l \in Key \ {k} PROVE HolderOf(l)' = HolderOf(l)
      OBVIOUS
    <2>1. processInstances[l] # ri
      BY <1>1, RunningInstancesAssumption DEF IInv, EntriesDistinct
    <2> QED
      BY <2>1, <1>1, <1>2 DEF HolderOf, TypeOK
  <1>6. /\ WaitingFor(k)' = WaitingFor(k) \ {g}
        /\ \A l \in Key \ {k} : WaitingFor(l)' = WaitingFor(l)
        /\ g \in WaitingFor(k)
    BY <1>1, <1>3 DEF WaitingFor, Locking
  <1>7. /\ HolderMap' = [HolderMap EXCEPT ![k] = g]
        /\ WaitingMap' = [WaitingMap EXCEPT ![k] = WaitingMap[k] \ {g}]
    BY <1>1, <1>4, <1>5, <1>6 DEF HolderMap, WaitingMap
  <1>8. g \in WaitingMap[k] /\ HolderMap[k] = NoGoroutine
    BY <1>1, <1>4, <1>6 DEF HolderMap, WaitingMap
  <1> QED
    BY <1>7, <1>8 DEF Lock!Get, HolderMap, WaitingMap

\* A try that fails goes away.
LEMMA AbandonRefines ==
    ASSUME IInv, NEW g \in Goroutine, call[g].op = "try", Abandon(g),
           NEW k \in Key, k = call[g].key
    PROVE  Lock!GoAway(g, k)
  <1>1. TypeOK /\ Locking(g) /\ k \in Key
    BY CallCases DEF IInv, Locking
  <1>2. ~Locking(g)' /\ \A h \in Goroutine \ {g} : call'[h] = call[h]
    BY <1>1, IdleType DEF Abandon, TypeOK, Locking
  <1>3. HolderMap' = HolderMap
    BY DEF Abandon, HolderMap, HolderOf
  <1>4. /\ WaitingFor(k)' = WaitingFor(k) \ {g}
        /\ \A l \in Key \ {k} : WaitingFor(l)' = WaitingFor(l)
        /\ g \in WaitingFor(k)
    BY <1>1, <1>2 DEF WaitingFor, Locking
  <1>5. WaitingMap' = [WaitingMap EXCEPT ![k] = WaitingMap[k] \ {g}]
        /\ g \in WaitingMap[k]
    BY <1>1, <1>4 DEF WaitingMap
  <1> QED
    BY <1>3, <1>5 DEF Lock!GoAway, HolderMap, WaitingMap

\* A round of the retry loop is not visible.
LEMMA RetryRefines ==
    ASSUME IInv, NEW g \in Goroutine, call[g].op = "try",
           call' = [call EXCEPT ![g].tried = @ + 1],
           UNCHANGED <<processInstances, owner, waiters, held, abandoned>>
    PROVE  UNCHANGED Lock!lockVars
  <1>1. TypeOK /\ Locking(g)
    BY DEF IInv, Locking
  <1>2. call[g] \in [op : {"lock", "try"}, key : Key, ri : Entry,
                     tried : 0..MaxTries]
    BY <1>1, CallCases
  <1>3. \A h \in Goroutine : call'[h].op = call[h].op /\ call'[h].key = call[h].key
    BY <1>1, <1>2 DEF TypeOK
  <1>4. HolderMap' = HolderMap /\ WaitingMap' = WaitingMap
    BY <1>3 DEF HolderMap, HolderOf, WaitingMap, WaitingFor, Locking
  <1> QED
    BY <1>4 DEF Lock!lockVars, HolderMap, WaitingMap

\* Unlocking gives the key back, whether or not the entry stays in the map.
LEMMA UnlockRefines ==
    ASSUME IInv, NEW g \in Goroutine, NEW k \in Key, UnlockInstance(g, k)
    PROVE  Lock!GiveBack(g, k)
  <1> DEFINE ri == processInstances[k]
  <1>1. /\ TypeOK /\ ri \in Entry /\ ri # NoEntry /\ owner[ri] = g
        /\ k \in held[g]
    BY DEF IInv, TypeOK, UnlockInstance, UnlockFindsItsMutex
  <1>2. /\ owner' = [owner EXCEPT ![ri] = NoGoroutine]
        /\ \/ processInstances' = [processInstances EXCEPT ![k] = NoEntry]
           \/ processInstances' = processInstances
        /\ call' = call
    BY DEF UnlockInstance
  <1>3. HolderOf(k) = g /\ HolderOf(k)' = NoGoroutine
    BY <1>1, <1>2 DEF HolderOf, TypeOK
  <1>4. \A l \in Key \ {k} : HolderOf(l)' = HolderOf(l)
    <2> SUFFICES ASSUME NEW l \in Key \ {k} PROVE HolderOf(l)' = HolderOf(l)
      OBVIOUS
    <2>1. processInstances[l] # ri
      BY <1>1 DEF IInv, EntriesDistinct
    <2> QED
      BY <2>1, <1>1, <1>2 DEF HolderOf, TypeOK
  <1>5. /\ HolderMap' = [HolderMap EXCEPT ![k] = NoGoroutine]
        /\ HolderMap[k] = g
    BY <1>3, <1>4 DEF HolderMap
  <1>6. WaitingMap' = WaitingMap
    BY <1>2 DEF WaitingMap, WaitingFor, Locking
  <1> QED
    BY <1>5, <1>6 DEF Lock!GiveBack, HolderMap, WaitingMap

\* The lock cache implements one mutex per process instance key, for every
\* number of goroutines and keys.
THEOREM Refinement == Spec => ImplementsInstanceLock
  <1>1. Init => Lock!LockInit
    BY IdleType DEF Init, Lock!LockInit, HolderOf, WaitingFor, Locking
  <1>2. IInv /\ [Next]_cacheVars => [Lock!LockNext]_(Lock!lockVars)
    <2> SUFFICES ASSUME IInv, [Next]_cacheVars
                 PROVE  Lock!LockNext \/ UNCHANGED Lock!lockVars
      OBVIOUS
    <2>1. ASSUME NEW g \in Goroutine, NEW k \in Key,
                 LockInstance(g, k) \/ TryLockInstance(g, k)
          PROVE  Lock!LockNext
      BY <2>1, RegisterRefines DEF LockInstance, TryLockInstance, Lock!LockNext
    <2>2. ASSUME NEW g \in Goroutine, Acquire(g)
          PROVE  Lock!LockNext
      <3>1. call[g].key \in Key
        BY <2>2, CallCases DEF IInv, Acquire
      <3> QED
        BY <2>2, <3>1, AcquireRefines DEF Lock!LockNext
    <2>3. ASSUME NEW g \in Goroutine, call[g].op = "try", Abandon(g)
          PROVE  Lock!LockNext
      <3>1. call[g].key \in Key
        BY <2>3, CallCases DEF IInv, Locking
      <3> QED
        BY <2>3, <3>1, AbandonRefines DEF Lock!LockNext
    <2>4. ASSUME NEW g \in Goroutine, TryLockFails(g)
          PROVE  Lock!LockNext \/ UNCHANGED Lock!lockVars
      BY <2>3, <2>4, RetryRefines DEF TryLockFails
    <2>5. ASSUME NEW g \in Goroutine, ContextDone(g)
          PROVE  Lock!LockNext
      BY <2>3, <2>5 DEF ContextDone
    <2>6. ASSUME NEW g \in Goroutine, NEW k \in Key, UnlockInstance(g, k)
          PROVE  Lock!LockNext
      BY <2>6, UnlockRefines DEF Lock!LockNext
    <2>7. CASE UNCHANGED cacheVars
      BY <2>7 DEF cacheVars, Lock!lockVars, HolderOf, WaitingFor, Locking
    <2> QED
      BY <2>1, <2>2, <2>4, <2>5, <2>6, <2>7 DEF Next
  <1> QED
    BY <1>1, <1>2, Invariance, PTL DEF Spec, ImplementsInstanceLock, Lock!LockSpec
=============================================================================
