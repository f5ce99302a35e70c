---------------------------- MODULE InstanceLock ----------------------------
(***************************************************************************)
(* What the engine expects of its running-instances cache: one mutex per   *)
(* process instance key.  A goroutine that asks for a key waits until      *)
(* nobody holds it, gets it, and gives it back; a goroutine that only      *)
(* tries may go away without it.  Nothing is said about how the mutexes    *)
(* are created, found or thrown away.                                      *)
(***************************************************************************)
EXTENDS Naturals

CONSTANTS Goroutine,  \* callers of the cache
          Key,        \* process instance keys
          NoGoroutine

VARIABLES holder,     \* holder[k]: who is inside the critical section of k
          waiting     \* waiting[k]: who asked for k and has no answer yet

lockVars == <<holder, waiting>>

LockInit ==
    /\ holder  = [k \in Key |-> NoGoroutine]
    /\ waiting = [k \in Key |-> {}]

Ask(g, k) ==
    /\ \A l \in Key : g \notin waiting[l]
    /\ holder[k] # g
    /\ waiting' = [waiting EXCEPT ![k] = @ \union {g}]
    /\ UNCHANGED holder

Get(g, k) ==
    /\ g \in waiting[k]
    /\ holder[k] = NoGoroutine
    /\ holder'  = [holder EXCEPT ![k] = g]
    /\ waiting' = [waiting EXCEPT ![k] = @ \ {g}]

GoAway(g, k) ==
    /\ g \in waiting[k]
    /\ waiting' = [waiting EXCEPT ![k] = @ \ {g}]
    /\ UNCHANGED holder

GiveBack(g, k) ==
    /\ holder[k] = g
    /\ holder' = [holder EXCEPT ![k] = NoGoroutine]
    /\ UNCHANGED waiting

LockNext ==
    \E g \in Goroutine, k \in Key :
        Ask(g, k) \/ Get(g, k) \/ GoAway(g, k) \/ GiveBack(g, k)

LockSpec == LockInit /\ [][LockNext]_lockVars
=============================================================================
