------------------------- MODULE TimerManagerProofs -------------------------
(***************************************************************************)
(* Proofs about the timer manager, for any timers, callers and bounds.     *)
(* That a timer is listed once is not inductive: addWaitingTimer looks at  *)
(* the list in one critical section and appends in another.  What keeps a  *)
(* second goroutine from appending the same timer in between is the row of *)
(* the timer: who registers a new timer has it in its open batch, and a    *)
(* poll returns only timers whose batch was flushed (Claims).              *)
(***************************************************************************)
EXTENDS TimerManager, TLAPS

\* The row of the timer is in the database.
Stored(t) == timerState[t] \in {"created", "triggered", "cancelled"}

\* Which timers the goroutines are busy with: a caller that registers a timer has
\* it in its own batch, everybody else works on stored timers.
Claims ==
    /\ \A c \in Caller : call[c].op \in {"add", "flush"} =>
          call[c].timer \in Timer /\ timerState[call[c].timer] = "batch"
    /\ \A c, d \in Caller :
          /\ call[c].op \in {"add", "flush"} /\ call[d].op \in {"add", "flush"}
          /\ call[c].timer = call[d].timer
          => c = d
    /\ \A p \in Proc : call[p].op \in {"delete", "cancel"} =>
          call[p].timer \in Timer /\ Stored(call[p].timer)
    /\ call[Loop].op # "flush"
    /\ call[Loop].op = "add" =>
          loop.at = "poll" /\ call[Loop].timer \in Timer /\ Stored(call[Loop].timer)
    /\ call[Loop].op \in {"delete", "cancel"} =>
          loop.at = "process" /\ loop.timer \in Timer /\ Stored(loop.timer)
    /\ \A t \in loop.todo : Stored(t)

\* What is in the list: timers that were created at some time, and not the ones
\* that somebody is about to append.
ListedTimers ==
    /\ \A w \in waitingTimers :
          waiter[w].timer \in Timer /\ timerState[waiter[w].timer] # "none"
    /\ \A p \in Proc : call[p].op = "add" =>
          \A w \in waitingTimers : waiter[w].timer # call[p].timer

\* A goroutine that sleeps or sends has a timer, and so has the loop while it
\* processes one.
Sleepers ==
    /\ \A w \in Waiter : waiter[w].at # "done" => waiter[w].timer \in Timer
    /\ loop.at = "process" => loop.timer \in Timer

\* A poll ends at a time after the first tick.
PollEnds == loop.at = "poll" => loop.end >= 1

TimerInv ==
    /\ TypeOK
    /\ PollEnds
    /\ Sleepers
    /\ Claims
    /\ ListedTimers
    /\ NoDuplicateWaiters
    /\ OnlyRemovalStrands
    /\ OnlyLateSenders

-----------------------------------------------------------------------------
\* Forget changes no entry of the list, and leaves the others finished.
LEMMA ForgetKeeps ==
    ASSUME NEW ws, NEW list, NEW w \in Waiter
    PROVE  Forget(ws, list)[w] = IF w \notin list /\ ws[w].at = "done" THEN NoWaiter
                                                                       ELSE ws[w]
  BY DEF Forget

LEMMA InitTimerInv == Init => TimerInv
  <1> SUFFICES ASSUME Init
               PROVE  TimerInv
    OBVIOUS
  <1> USE DEF Init
  <1>1. TypeOK
    BY TimerManagerAssumption
       DEF TypeOK, NoTick, Waiter, Proc, Idle, AtSelect, NoWaiter
  <1>2. PollEnds /\ Sleepers /\ Claims /\ ListedTimers
    BY DEF PollEnds, Sleepers, NoWaiter, Claims, ListedTimers, Idle, AtSelect, Proc
  <1>3. NoDuplicateWaiters /\ OnlyRemovalStrands /\ OnlyLateSenders
    BY DEF NoDuplicateWaiters, OnlyRemovalStrands, OnlyLateSenders
  <1>4. QED
    BY <1>1, <1>2, <1>3 DEF TimerInv

-----------------------------------------------------------------------------
\* The types of the entries, for the steps that change them.
WaiterType == [timer : Timer \union {NoTimer}, cancelled : BOOLEAN,
               at : {"sleep", "send", "done"}, late : BOOLEAN]
CallType == [op : {"none", "add", "flush", "delete", "cancel"},
             timer : Timer \union {NoTimer}]

LEMMA ForgetType ==
    ASSUME NEW ws \in [Waiter -> WaiterType], NEW list
    PROVE  Forget(ws, list) \in [Waiter -> WaiterType]
  <1>1. NoWaiter \in WaiterType
    BY DEF NoWaiter, WaiterType
  <1>2. QED
    BY <1>1 DEF Forget

\* addWaitingTimer, second half: the new entry is one that nobody uses.
LEMMA AddsFreeWaiter ==
    ASSUME TypeOK, NEW p \in Proc, NEW then, AddWaitingTimer(p, then)
    PROVE  \E w \in Waiter :
             /\ w \notin waitingTimers
             /\ waiter[w].at = "done"
             /\ waitingTimers' = waitingTimers \union {w}
             /\ waiter' = [waiter EXCEPT ![w] =
                   [timer |-> call[p].timer, cancelled |-> FALSE, at |-> "sleep",
                    late |-> stopped = "closed"]]
             /\ call' = [call EXCEPT ![p] = then]
             /\ call[p].op = "add"
  <1> DEFINE w == CHOOSE v \in FreeWaiters : TRUE
  <1>1. w \in FreeWaiters
    BY DEF AddWaitingTimer
  <1>2. w \in Waiter /\ w \notin waitingTimers /\ waiter[w].at = "done"
    BY <1>1 DEF FreeWaiters
  <1>3. QED
    BY <1>2 DEF AddWaitingTimer

LEMMA TypeStep == TypeOK /\ PollEnds /\ [Next]_timerVars => TypeOK' /\ PollEnds'
  <1> SUFFICES ASSUME TypeOK, PollEnds, [Next]_timerVars
               PROVE  TypeOK' /\ PollEnds'
    OBVIOUS
  <1>a. /\ now \in 0..MaxTime
        /\ tick \in 0..NoTick
        /\ nextPoll \in 1..(MaxTime + 1)
        /\ timerState \in [Timer -> {"none", "batch", "lost", "created", "triggered",
                                      "cancelled"}]
        /\ dueAt \in [Timer -> 0..(MaxTime + 1)]
        /\ waitingTimers \subseteq Waiter
        /\ waiter \in [Waiter -> WaiterType]
        /\ call \in [Proc -> CallType]
        /\ stopped \in {"no", "waiting", "closed"}
        /\ failures \in 0..MaxFailures
    BY DEF TypeOK, WaiterType, CallType
  <1>b. /\ loop \in [at : {"select", "process", "drop", "poll", "returned"},
                     timer : Timer \union {NoTimer}, todo : SUBSET Timer,
                     end : 0..(MaxTime + 1)]
        /\ loop.at = "poll" => loop.end >= 1
    BY DEF TypeOK, PollEnds
  <1>c. MaxTime \in Nat /\ MaxFailures \in Nat /\ NoTick = MaxTime + 1
    BY TimerManagerAssumption DEF NoTick
  <1>d. Idle \in CallType /\ \A op \in {"add", "flush", "delete", "cancel"}, t \in Timer \union {NoTimer} :
                                Doing(op, t) \in CallType
    BY DEF Idle, Doing, CallType
  <1>e. Loop \in Proc /\ Caller \subseteq Proc
    BY DEF Proc
  <1>g. SUFFICES /\ TypeOK'
                 /\ loop' = loop \/ PollEnds'
    BY <1>b DEF PollEnds
  <1>1. CASE Tick
    BY <1>1, <1>a, <1>b, <1>c DEF Tick, TypeOK, WaiterType, CallType
  <1>2. ASSUME NEW c \in Caller, NEW t \in Timer, NEW d \in now..(MaxTime + 1),
               CreateTimer(c, t, d)
        PROVE  TypeOK' /\ loop' = loop
    <2>1. dueAt' \in [Timer -> 0..(MaxTime + 1)]
      BY <1>2, <1>a, <1>c DEF CreateTimer
    <2>2. call' \in [Proc -> CallType]
      BY <1>2, <1>a, <1>d DEF CreateTimer
    <2>3. QED
      BY <1>2, <2>1, <2>2, <1>a, <1>b DEF CreateTimer, TypeOK, WaiterType, CallType
  <1>3. ASSUME NEW p \in Proc, NEW then \in CallType, AddWaitingTimer(p, then),
               UNCHANGED <<now, tick, nextPoll, timerState, dueAt, loop, stopped, failures>>
        PROVE  TypeOK' /\ loop' = loop
    <2>1. PICK w \in Waiter :
             /\ waitingTimers' = waitingTimers \union {w}
             /\ waiter' = [waiter EXCEPT ![w] =
                   [timer |-> call[p].timer, cancelled |-> FALSE, at |-> "sleep",
                    late |-> stopped = "closed"]]
             /\ call' = [call EXCEPT ![p] = then]
      BY <1>3, AddsFreeWaiter
    <2>2. [timer |-> call[p].timer, cancelled |-> FALSE, at |-> "sleep",
           late |-> stopped = "closed"] \in WaiterType
      BY <1>a, <1>3 DEF WaiterType, CallType
    <2>3. waiter' \in [Waiter -> WaiterType]
      BY <2>1, <2>2, <1>a
    <2>4. call' \in [Proc -> CallType] /\ waitingTimers' \subseteq Waiter
      BY <2>1, <1>3, <1>a
    <2>5. QED
      BY <1>3, <2>3, <2>4, <1>a, <1>b DEF TypeOK, WaiterType, CallType
  <1>4. ASSUME NEW c \in Caller, RegisterTimer(c)
        PROVE  TypeOK' /\ loop' = loop
    <2>1. Doing("flush", call[c].timer) \in CallType
      BY <1>a, <1>d, <1>e DEF CallType
    <2>2. QED
      BY <1>4, <2>1, <1>3, <1>e DEF RegisterTimer
  <1>5. ASSUME NEW c \in Caller, FlushTimer(c)
        PROVE  TypeOK' /\ loop' = loop
    <2>1. timerState' \in [Timer -> {"none", "batch", "lost", "created", "triggered",
                                     "cancelled"}]
      BY <1>5, <1>a DEF FlushTimer
    <2>2. call' \in [Proc -> CallType]
      BY <1>5, <1>a, <1>d, <1>e DEF FlushTimer
    <2>3. QED
      BY <1>5, <2>1, <2>2, <1>a, <1>b DEF FlushTimer, TypeOK, WaiterType, CallType
  <1>6. ASSUME NEW c \in Caller, NEW t \in Timer, CancelTimer(c, t)
        PROVE  TypeOK' /\ loop' = loop
    BY <1>6, <1>a, <1>b DEF CancelTimer, TypeOK, WaiterType, CallType
  <1>7. ASSUME NEW p \in Proc, NEW t \in Timer, RemoveTimer(p, t)
        PROVE  TypeOK' /\ loop' = loop
    BY <1>7, <1>a, <1>b, <1>d DEF RemoveTimer, TypeOK, WaiterType, CallType
  <1>8. ASSUME NEW p \in Proc, DeleteTimer(p)
        PROVE  TypeOK' /\ loop' = loop
    <2> DEFINE marked == [w \in Waiter |->
             IF w \in waitingTimers THEN [waiter[w] EXCEPT !.cancelled = TRUE]
                                    ELSE waiter[w]]
    <2>1. marked \in [Waiter -> WaiterType]
      BY <1>a DEF WaiterType
    <2>2. waiter' = Forget(marked, waitingTimers')
      BY <1>8 DEF DeleteTimer, DeleteWaitingTimer
    <2>3. waiter' \in [Waiter -> WaiterType]
      BY <2>1, <2>2, ForgetType
    <2>4. call' \in [Proc -> CallType]
      BY <1>8, <1>a, <1>d DEF DeleteTimer, DeleteWaitingTimer, CallType
    <2>5. waitingTimers' \subseteq Waiter
      BY <1>8, <1>a DEF DeleteTimer, DeleteWaitingTimer
    <2>6. QED
      BY <1>8, <2>3, <2>4, <2>5, <1>a, <1>b DEF DeleteTimer, TypeOK, WaiterType, CallType
  <1>9. ASSUME NEW p \in Proc, FlushCancel(p)
        PROVE  TypeOK' /\ (loop' = loop \/ PollEnds')
    <2>1. timerState' \in [Timer -> {"none", "batch", "lost", "created", "triggered",
                                     "cancelled"}]
      BY <1>9, <1>a DEF FlushCancel
    <2>2. failures' \in 0..MaxFailures
      BY <1>9, <1>a, <1>c DEF FlushCancel
    <2>3. call' \in [Proc -> CallType]
      BY <1>9, <1>a, <1>d DEF FlushCancel
    <2>4. QED
      BY <1>9, <2>1, <2>2, <2>3, <1>a, <1>b
         DEF FlushCancel, TypeOK, WaiterType, CallType, PollEnds
  <1>10. ASSUME NEW w \in Waiter, FallDue(w)
         PROVE  TypeOK' /\ loop' = loop
    <2>1. waiter' \in [Waiter -> WaiterType]
      BY <1>10, <1>a DEF FallDue, WaiterType
    <2>2. QED
      BY <1>10, <2>1, <1>a, <1>b DEF FallDue, TypeOK, WaiterType, CallType
  <1>11. ASSUME NEW w \in Waiter
         PROVE  Forget([waiter EXCEPT ![w].at = "done"], waitingTimers) \in [Waiter -> WaiterType]
    <2>1. [waiter EXCEPT ![w].at = "done"] \in [Waiter -> WaiterType]
      BY <1>11, <1>a DEF WaiterType
    <2>2. QED
      BY <2>1, ForgetType
  <1>12. ASSUME NEW w \in Waiter, GiveUp(w)
         PROVE  TypeOK' /\ loop' = loop
    BY <1>12, <1>11, <1>a, <1>b DEF GiveUp, TypeOK, WaiterType, CallType
  <1>13. ASSUME NEW w \in Waiter, Receive(w)
         PROVE  TypeOK' /\ PollEnds'
    <2>1. waiter[w].timer \in Timer \union {NoTimer}
      BY <1>13, <1>a DEF WaiterType
    <2>2. QED
      BY <1>13, <2>1, <1>11, <1>a, <1>b DEF Receive, TypeOK, WaiterType, CallType, PollEnds
  <1>14. CASE ProcessTimer
    BY <1>14, <1>a, <1>b DEF ProcessTimer, TypeOK, WaiterType, CallType, PollEnds
  <1>15. CASE DropProcessed
    <2>1. waiter' \in [Waiter -> WaiterType]
      BY <1>15, <1>a, ForgetType DEF DropProcessed
    <2>2. waitingTimers' \subseteq Waiter
      BY <1>15, <1>a DEF DropProcessed
    <2>3. loop' \in [at : {"select"}, timer : {NoTimer}, todo : {{}}, end : {0}]
      BY <1>15 DEF DropProcessed, AtSelect
    <2>4. QED
      BY <1>15, <2>1, <2>2, <2>3, <1>a, <1>c
         DEF DropProcessed, TypeOK, WaiterType, CallType, PollEnds
  <1>16. CASE Poll
    <2>1. tick \in 0..MaxTime
      BY <1>16, <1>a, <1>c DEF Poll
    <2> DEFINE found == {t \in Timer : timerState[t] = "created" /\ dueAt[t] < tick + 1}
    <2>2. CASE loop' = [loop EXCEPT !.at = "poll", !.end = tick + 1, !.todo = found]
      <3>1. tick + 1 \in 1..(MaxTime + 1) /\ found \in SUBSET Timer
        BY <2>1, <1>c
      <3>2. loop' \in [at : {"poll"}, timer : Timer \union {NoTimer}, todo : SUBSET Timer,
                       end : 1..(MaxTime + 1)]
        BY <2>2, <3>1, <1>b
      <3>3. QED
        BY <1>16, <3>2, <1>a, <1>c DEF Poll, TypeOK, WaiterType, CallType, PollEnds
    <2>3. CASE UNCHANGED loop
      BY <1>16, <2>3, <1>a, <1>b, <1>c DEF Poll, TypeOK, WaiterType, CallType
    <2>4. QED
      BY <1>16, <2>2, <2>3 DEF Poll
  <1>17. CASE PollScan
    <2>1. call' \in [Proc -> CallType]
      BY <1>17, <1>a, <1>b, <1>d, <1>e DEF PollScan
    <2>2. QED
      BY <1>17, <2>1, <1>a, <1>b DEF PollScan, TypeOK, WaiterType, CallType, PollEnds
  <1>18. CASE PollAdd
    BY <1>18, <1>3, <1>d, <1>e DEF PollAdd
  <1>19. CASE PollEnd
    <2>1. loop' \in [at : {"select"}, timer : {NoTimer}, todo : {{}}, end : {0}]
      BY <1>19 DEF PollEnd, AtSelect
    <2>2. nextPoll' \in 1..(MaxTime + 1)
      BY <1>19, <1>b, <1>c DEF PollEnd
    <2>3. QED
      BY <1>19, <2>1, <2>2, <1>a, <1>c DEF PollEnd, TypeOK, WaiterType, CallType, PollEnds
  <1>20. CASE Stop \/ StopReturns
    BY <1>20, <1>a, <1>b DEF Stop, StopReturns, TypeOK, WaiterType, CallType
  <1>21. CASE LoopReturns
    BY <1>21, <1>a, <1>b DEF LoopReturns, TypeOK, WaiterType, CallType, PollEnds
  <1>22. CASE UNCHANGED timerVars
    BY <1>22, <1>a, <1>b DEF timerVars, TypeOK, WaiterType, CallType
  <1>23. QED
    BY <1>1, <1>2, <1>4, <1>5, <1>6, <1>7, <1>8, <1>9, <1>10, <1>12, <1>13, <1>14, <1>15,
       <1>16, <1>17, <1>18, <1>19, <1>20, <1>21, <1>22 DEF Next, Engine, Manager

-----------------------------------------------------------------------------
\* A stored timer stays stored: no step of the manager or of the engine takes
\* the row of a timer out of the database.
LEMMA StoredStays ==
    ASSUME TypeOK, Claims, [Next]_timerVars, NEW t \in Timer, Stored(t)
    PROVE  Stored(t)'
  <1>a. timerState \in [Timer -> {"none", "batch", "lost", "created", "triggered",
                                  "cancelled"}]
    BY DEF TypeOK
  <1>1. ASSUME NEW c \in Caller, FlushTimer(c)
        PROVE  Stored(t)'
    <2>1. timerState[call[c].timer] = "batch"
      BY <1>1 DEF FlushTimer, Claims
    <2>2. QED
      BY <1>1, <2>1, <1>a DEF FlushTimer, Stored
  <1>2. ASSUME NEW c \in Caller, NEW u \in Timer, NEW d \in now..(MaxTime + 1),
               CreateTimer(c, u, d)
        PROVE  Stored(t)'
    BY <1>2, <1>a DEF CreateTimer, Stored
  <1>3. ASSUME NEW c \in Caller, NEW u \in Timer, CancelTimer(c, u)
        PROVE  Stored(t)'
    BY <1>3, <1>a DEF CancelTimer, Stored
  <1>4. ASSUME NEW p \in Proc, FlushCancel(p)
        PROVE  Stored(t)'
    BY <1>4, <1>a DEF FlushCancel, Stored
  <1>5. CASE ProcessTimer
    BY <1>5, <1>a DEF ProcessTimer, Stored
  <1>6. CASE UNCHANGED timerState
    BY <1>6 DEF Stored
  <1>7. QED
    BY <1>1, <1>2, <1>3, <1>4, <1>5, <1>6
       DEF Next, Engine, Manager, Tick, RegisterTimer, RemoveTimer, DeleteTimer, FallDue,
           GiveUp, Receive, DropProcessed, Poll, PollScan, PollAdd, PollEnd, Stop,
           StopReturns, LoopReturns, timerVars

\* A timer in somebody's batch stays there until that batch is flushed.
LEMMA BatchStays ==
    ASSUME TypeOK, Claims, [Next]_timerVars, NEW c \in Caller,
           call[c].op \in {"add", "flush"}, ~FlushTimer(c)
    PROVE  timerState'[call[c].timer] = "batch"
  <1> DEFINE t == call[c].timer
  <1>a. timerState \in [Timer -> {"none", "batch", "lost", "created", "triggered",
                                  "cancelled"}]
    BY DEF TypeOK
  <1>b. t \in Timer /\ timerState[t] = "batch"
    BY DEF Claims
  <1>1. ASSUME NEW d \in Caller, FlushTimer(d)
        PROVE  timerState'[t] = "batch"
    <2>1. d # c
      BY <1>1
    <2>2. call[d].timer # t
      BY <1>1, <2>1 DEF FlushTimer, Claims
    <2>3. QED
      BY <1>1, <2>2, <1>a, <1>b DEF FlushTimer
  <1>2. ASSUME NEW d \in Caller, NEW u \in Timer, NEW at \in now..(MaxTime + 1),
               CreateTimer(d, u, at)
        PROVE  timerState'[t] = "batch"
    BY <1>2, <1>a, <1>b DEF CreateTimer
  <1>3. ASSUME NEW d \in Caller, NEW u \in Timer, CancelTimer(d, u)
        PROVE  timerState'[t] = "batch"
    BY <1>3, <1>a, <1>b DEF CancelTimer, Unclaimed
  <1>4. ASSUME NEW p \in Proc, FlushCancel(p)
        PROVE  timerState'[t] = "batch"
    <2>1. call[p].timer # t
      BY <1>4, <1>b DEF FlushCancel, Claims, Stored
    <2>2. p = Loop => loop.timer # t
      BY <1>4, <1>b DEF FlushCancel, Claims, Stored
    <2>3. QED
      BY <1>4, <2>1, <2>2, <1>a, <1>b DEF FlushCancel
  <1>5. CASE ProcessTimer
    BY <1>5, <1>a, <1>b DEF ProcessTimer, Unclaimed
  <1>6. CASE UNCHANGED timerState
    BY <1>6, <1>b
  <1>7. QED
    BY <1>1, <1>2, <1>3, <1>4, <1>5, <1>6
       DEF Next, Engine, Manager, Tick, RegisterTimer, RemoveTimer, DeleteTimer, FallDue,
           GiveUp, Receive, DropProcessed, Poll, PollScan, PollAdd, PollEnd, Stop,
           StopReturns, LoopReturns, timerVars

LEMMA ClaimsStep == TypeOK /\ Sleepers /\ Claims /\ [Next]_timerVars => Claims'
  <1> SUFFICES ASSUME TypeOK, Sleepers, Claims, [Next]_timerVars
               PROVE  Claims'
    OBVIOUS
  <1>a. /\ call \in [Proc -> CallType]
        /\ loop.todo \subseteq Timer
        /\ loop \in [at : {"select", "process", "drop", "poll", "returned"},
                     timer : Timer \union {NoTimer}, todo : SUBSET Timer,
                     end : 0..(MaxTime + 1)]
    BY DEF TypeOK, CallType
  <1>e. Loop \in Proc /\ Caller \subseteq Proc /\ Loop \notin Caller
        /\ \A p \in Proc : p \in Caller \/ p = Loop
    BY TimerManagerAssumption DEF Proc
  <1>s. \A t \in Timer : Stored(t) => Stored(t)'
    BY StoredStays
  <1>b. \A c \in Caller :
           call[c].op \in {"add", "flush"} /\ call'[c].op # "none" =>
               call[c].timer \in Timer /\ timerState'[call[c].timer] = "batch"
    <2>1. ASSUME NEW c \in Caller, FlushTimer(c)
          PROVE  call'[c].op = "none"
      BY <2>1, <1>a, <1>e DEF FlushTimer, Idle
    <2>2. QED
      BY <2>1, BatchStays DEF Claims
  \* A step that leaves the goroutines where they are.
  <1>u. CASE UNCHANGED <<call, loop>>
    BY <1>u, <1>s, <1>b, <1>a DEF Claims
  \* A step of one goroutine that ends or continues what it does to its timer.
  <1>c. ASSUME NEW p \in Proc, UNCHANGED loop,
               \/ call' = [call EXCEPT ![p] = Idle]
               \/ /\ call[p].op = "add" /\ p \in Caller
                  /\ call' = [call EXCEPT ![p] = Doing("flush", call[p].timer)]
               \/ /\ call[p].op = "delete"
                  /\ call' = [call EXCEPT ![p] = Doing("cancel", call[p].timer)]
        PROVE  Claims'
    <2>1. \A q \in Proc : q # p => call'[q] = call[q]
      BY <1>c, <1>a
    <2>2. CASE call' = [call EXCEPT ![p] = Idle]
      <3>1. call'[p].op = "none"
        BY <2>2, <1>a DEF Idle
      <3>2. QED
        BY <3>1, <2>1, <1>c, <1>s, <1>b, <1>a, <1>e DEF Claims
    <2>3. CASE /\ call[p].op = "add" /\ p \in Caller
               /\ call' = [call EXCEPT ![p] = Doing("flush", call[p].timer)]
      <3>1. call'[p].op = "flush" /\ call'[p].timer = call[p].timer
        BY <2>3, <1>a DEF Doing
      <3>2. QED
        BY <3>1, <2>3, <2>1, <1>c, <1>s, <1>b, <1>a, <1>e DEF Claims
    <2>4. CASE /\ call[p].op = "delete"
               /\ call' = [call EXCEPT ![p] = Doing("cancel", call[p].timer)]
      <3>1. call'[p].op = "cancel" /\ call'[p].timer = call[p].timer
        BY <2>4, <1>a DEF Doing
      <3>2. QED
        BY <3>1, <2>4, <2>1, <1>c, <1>s, <1>b, <1>a, <1>e DEF Claims
    <2>5. QED
      BY <1>c, <2>2, <2>3, <2>4
  \* A step of the loop while it does nothing to the list.
  <1>l. ASSUME UNCHANGED call, call[Loop].op = "none",
               loop'.todo \subseteq {t \in Timer : Stored(t)}
        PROVE  Claims'
    BY <1>l, <1>s, <1>b, <1>a, <1>e DEF Claims
  <1>2. ASSUME NEW c \in Caller, NEW t \in Timer, NEW d \in now..(MaxTime + 1),
               CreateTimer(c, t, d)
        PROVE  Claims'
    <2>1. \A q \in Proc : q # c => call'[q] = call[q]
      BY <1>2, <1>a DEF CreateTimer
    <2>2. call'[c].op \in {"add", "flush"} /\ call'[c].timer = t
      BY <1>2, <1>a, <1>e DEF CreateTimer, Doing
    <2>3. timerState'[t] = "batch" /\ UNCHANGED loop /\ call[c].op = "none"
      BY <1>2 DEF CreateTimer, TypeOK
    <2>4. \A q \in Caller : call[q].op \in {"add", "flush"} => call[q].timer # t
      BY <1>2 DEF CreateTimer, Claims
    <2>5. QED
      BY <2>1, <2>2, <2>3, <2>4, <1>s, <1>b, <1>a, <1>e DEF Claims
  <1>4. ASSUME NEW c \in Caller, RegisterTimer(c)
        PROVE  Claims'
    BY <1>4, <1>c, <1>e DEF RegisterTimer, AddWaitingTimer
  <1>5. ASSUME NEW c \in Caller, FlushTimer(c)
        PROVE  Claims'
    BY <1>5, <1>c, <1>e DEF FlushTimer
  <1>7. ASSUME NEW p \in Proc, NEW t \in Timer, RemoveTimer(p, t)
        PROVE  Claims'
    <2>1. \A q \in Proc : q # p => call'[q] = call[q]
      BY <1>7, <1>a DEF RemoveTimer
    <2>2. call'[p].op \in {"delete", "cancel"} /\ call'[p].timer = t
      BY <1>7, <1>a DEF RemoveTimer, Doing
    <2>3. Stored(t) /\ UNCHANGED loop
      BY <1>7 DEF RemoveTimer, Unclaimed, Stored
    <2>4. p = Loop => /\ loop.at = "process"
                      /\ timerState[loop.timer] = "created"
      BY <1>7 DEF RemoveTimer, Unclaimed
    <2>5. p = Loop => loop.timer \in Timer /\ Stored(loop.timer)
      BY <2>4 DEF Sleepers, Stored
    <2>6. QED
      BY <2>1, <2>2, <2>3, <2>4, <2>5, <1>s, <1>b, <1>a, <1>e DEF Claims
  <1>8. ASSUME NEW p \in Proc, DeleteTimer(p)
        PROVE  Claims'
    BY <1>8, <1>c, <1>a DEF DeleteTimer, DeleteWaitingTimer
  <1>9. ASSUME NEW p \in Proc, FlushCancel(p)
        PROVE  Claims'
    <2>1. CASE p # Loop
      BY <1>9, <2>1, <1>c DEF FlushCancel
    <2>2. CASE p = Loop
      <3>1. call'[Loop].op = "none" /\ \A q \in Proc : q # Loop => call'[q] = call[q]
        BY <1>9, <2>2, <1>a DEF FlushCancel, Idle
      <3>2. loop'.todo = loop.todo
        BY <1>9, <2>2, <1>a DEF FlushCancel
      <3>3. QED
        BY <3>1, <3>2, <1>s, <1>b, <1>a, <1>e DEF Claims
    <2>3. QED
      BY <2>1, <2>2
  <1>13. ASSUME NEW w \in Waiter, Receive(w)
         PROVE  Claims'
    <2>1. loop.at = "select" /\ UNCHANGED call
      BY <1>13 DEF Receive
    <2>2. call[Loop].op = "none"
      BY <2>1, <1>a, <1>e DEF Claims, CallType
    <2>3. loop'.todo = loop.todo
      BY <1>13, <1>a DEF Receive
    <2>4. QED
      BY <2>1, <2>2, <2>3, <1>l, <1>a DEF Claims
  <1>14. CASE ProcessTimer
    <2>1. loop'.todo = loop.todo
      BY <1>14, <1>a DEF ProcessTimer
    <2>2. QED
      BY <1>14, <2>1, <1>l, <1>a DEF ProcessTimer, Claims
  <1>15. CASE DropProcessed \/ PollEnd
    <2>1. UNCHANGED call /\ loop'.todo = {}
      BY <1>15 DEF DropProcessed, PollEnd, AtSelect
    <2>2. call[Loop].op = "none"
      BY <1>15, <1>a, <1>e DEF DropProcessed, PollEnd, Claims, CallType
    <2>3. QED
      BY <2>1, <2>2, <1>l
  <1>16. CASE Poll
    <2>1. call[Loop].op = "none" /\ UNCHANGED call
      BY <1>16, <1>a, <1>e DEF Poll, Claims, CallType
    <2> DEFINE found == {t \in Timer : timerState[t] = "created" /\ dueAt[t] < tick + 1}
    <2>2. loop'.todo = found \/ loop'.todo = loop.todo
      BY <1>16, <1>a DEF Poll
    <2>3. found \subseteq {t \in Timer : Stored(t)} /\ loop.todo \subseteq {t \in Timer : Stored(t)}
      BY <1>a DEF Stored, Claims
    <2>4. QED
      BY <2>1, <2>2, <2>3, <1>l
  <1>17. CASE PollScan
    <2>1. PICK t \in loop.todo :
             /\ loop' = [loop EXCEPT !.todo = @ \ {t}]
             /\ call' = IF Listed(t) THEN call
                        ELSE [call EXCEPT ![Loop] = Doing("add", t)]
      BY <1>17 DEF PollScan
    <2>2. loop.at = "poll" /\ loop'.at = "poll" /\ call[Loop].op = "none"
          /\ loop'.todo \subseteq loop.todo
      BY <1>17, <2>1, <1>a DEF PollScan
    <2>3. CASE call' = call
      BY <2>2, <2>3, <1>l, <1>a DEF Claims
    <2>4. CASE call' = [call EXCEPT ![Loop] = Doing("add", t)]
      <3>1. call'[Loop].op = "add" /\ call'[Loop].timer = t
            /\ \A q \in Proc : q # Loop => call'[q] = call[q]
        BY <2>4, <1>a, <1>e DEF Doing
      <3>2. t \in Timer /\ Stored(t)
        BY <1>a DEF Claims
      <3>3. QED
        BY <3>1, <3>2, <2>2, <1>s, <1>b, <1>a, <1>e DEF Claims
    <2>5. QED
      BY <2>1, <2>3, <2>4
  <1>18. CASE PollAdd
    BY <1>18, <1>c, <1>e DEF PollAdd, AddWaitingTimer
  <1>21. CASE LoopReturns
    <2>1. call[Loop].op = "none" /\ UNCHANGED call
      BY <1>21, <1>a, <1>e DEF LoopReturns, Claims, CallType
    <2>2. loop'.todo = loop.todo
      BY <1>21, <1>a DEF LoopReturns
    <2>3. QED
      BY <2>1, <2>2, <1>l, <1>a DEF Claims
  <1>23. QED
    BY <1>u, <1>2, <1>4, <1>5, <1>7, <1>8, <1>9, <1>13, <1>14, <1>15, <1>16, <1>17, <1>18,
       <1>21
       DEF Next, Engine, Manager, Tick, CancelTimer, FallDue, GiveUp, Stop, StopReturns,
           timerVars

LEMMA SleepersStep == TypeOK /\ Sleepers /\ Claims /\ [Next]_timerVars => Sleepers'
  <1> SUFFICES ASSUME TypeOK, Sleepers, Claims, [Next]_timerVars
               PROVE  Sleepers'
    OBVIOUS
  <1>a. /\ waiter \in [Waiter -> WaiterType]
        /\ call \in [Proc -> CallType]
        /\ loop \in [at : {"select", "process", "drop", "poll", "returned"},
                     timer : Timer \union {NoTimer}, todo : SUBSET Timer,
                     end : 0..(MaxTime + 1)]
    BY DEF TypeOK, WaiterType, CallType
  <1>e. Loop \in Proc /\ Caller \subseteq Proc
    BY DEF Proc
  <1>u. CASE UNCHANGED waiter /\ (loop' = loop \/ loop'.at # "process")
    BY <1>u DEF Sleepers
  <1>1. ASSUME NEW p \in Proc, NEW then, AddWaitingTimer(p, then), UNCHANGED loop
        PROVE  Sleepers'
    <2>1. PICK w \in Waiter :
             waiter' = [waiter EXCEPT ![w] =
                   [timer |-> call[p].timer, cancelled |-> FALSE, at |-> "sleep",
                    late |-> stopped = "closed"]]
      BY <1>1, AddsFreeWaiter
    <2>2. call[p].timer \in Timer
      BY <1>1 DEF AddWaitingTimer, Claims, Proc
    <2>3. QED
      BY <1>1, <2>1, <2>2, <1>a DEF Sleepers
  <1>f. ASSUME NEW ws \in [Waiter -> WaiterType], NEW list, waiter' = Forget(ws, list),
               \A w \in Waiter : ws[w].timer = waiter[w].timer
                                 /\ (ws[w].at = waiter[w].at \/ ws[w].at = "done")
        PROVE  \A w \in Waiter : waiter'[w].at # "done" => waiter'[w].timer \in Timer
    BY <1>f, ForgetKeeps DEF Sleepers, NoWaiter
  <1>d. ASSUME NEW w \in Waiter, waiter' = Forget([waiter EXCEPT ![w].at = "done"], waitingTimers)
        PROVE  \A v \in Waiter : waiter'[v].at # "done" => waiter'[v].timer \in Timer
    <2> DEFINE ws == [waiter EXCEPT ![w].at = "done"]
    <2>1. ws \in [Waiter -> WaiterType]
      BY <1>a DEF WaiterType
    <2>2. \A v \in Waiter : ws[v].timer = waiter[v].timer
                            /\ (ws[v].at = waiter[v].at \/ ws[v].at = "done")
      BY <1>a DEF WaiterType
    <2> HIDE DEF ws
    <2>3. waiter' = Forget(ws, waitingTimers)
      BY <1>d DEF ws
    <2>4. QED
      BY <2>1, <2>2, <2>3, <1>f
  <1>2. ASSUME NEW p \in Proc, DeleteTimer(p)
        PROVE  Sleepers'
    <2> DEFINE marked == [w \in Waiter |->
             IF w \in waitingTimers THEN [waiter[w] EXCEPT !.cancelled = TRUE]
                                    ELSE waiter[w]]
    <2>1. marked \in [Waiter -> WaiterType]
      BY <1>a DEF WaiterType
    <2>2. \A w \in Waiter : marked[w].timer = waiter[w].timer /\ marked[w].at = waiter[w].at
      BY <1>a DEF WaiterType
    <2>3. waiter' = Forget(marked, waitingTimers') /\ loop' = loop
      BY <1>2 DEF DeleteTimer, DeleteWaitingTimer
    <2>4. \A w \in Waiter : waiter'[w].at # "done" => waiter'[w].timer \in Timer
      BY <2>1, <2>2, <2>3, <1>f
    <2>5. QED
      BY <2>3, <2>4 DEF Sleepers
  <1>3. ASSUME NEW w \in Waiter, FallDue(w)
        PROVE  Sleepers'
    BY <1>3, <1>a DEF FallDue, Sleepers, WaiterType
  <1>4. ASSUME NEW w \in Waiter, GiveUp(w)
        PROVE  Sleepers'
    BY <1>4, <1>d DEF GiveUp, Sleepers
  <1>5. ASSUME NEW w \in Waiter, Receive(w)
        PROVE  Sleepers'
    <2>1. waiter[w].timer \in Timer /\ loop'.timer = waiter[w].timer
      BY <1>5, <1>a DEF Receive, Sleepers
    <2>2. QED
      BY <1>5, <2>1, <1>d DEF Receive, Sleepers
  <1>6. CASE DropProcessed
    <2>1. \A w \in Waiter : waiter'[w].at # "done" => waiter'[w].timer \in Timer
      BY <1>6, <1>a, <1>f DEF DropProcessed
    <2>2. QED
      BY <1>6, <2>1 DEF DropProcessed, Sleepers, AtSelect
  <1>7. ASSUME NEW p \in Proc, FlushCancel(p)
        PROVE  Sleepers'
    BY <1>7, <1>u, <1>a DEF FlushCancel
  <1>8. CASE ProcessTimer \/ Poll \/ PollScan \/ PollEnd \/ LoopReturns
    <2>1. UNCHANGED waiter
      BY <1>8 DEF ProcessTimer, Poll, PollScan, PollEnd, LoopReturns
    <2>2. loop' = loop \/ loop'.at # "process"
      <3>1. CASE Poll
        BY <3>1, <1>a DEF Poll
      <3>2. CASE PollScan
        BY <3>2, <1>a DEF PollScan
      <3>3. QED
        BY <1>8, <3>1, <3>2, <1>a DEF ProcessTimer, PollEnd, LoopReturns, AtSelect
    <2>3. QED
      BY <2>1, <2>2, <1>u
  <1>9. CASE \E c \in Caller : RegisterTimer(c)
    BY <1>9, <1>1, <1>e DEF RegisterTimer
  <1>10. CASE PollAdd
    BY <1>10, <1>1, <1>e DEF PollAdd
  <1>11. QED
    BY <1>u, <1>2, <1>3, <1>4, <1>5, <1>6, <1>7, <1>8, <1>9, <1>10
       DEF Next, Engine, Manager, Tick, CreateTimer, FlushTimer, CancelTimer, RemoveTimer,
           Stop, StopReturns, timerVars

-----------------------------------------------------------------------------
\* The list only grows by the timer that some addWaitingTimer was about to
\* append; otherwise entries leave it, and the ones that stay keep their timer.
ListShrinks ==
    /\ waitingTimers' \subseteq waitingTimers
    /\ \A w \in waitingTimers' : waiter'[w].timer = waiter[w].timer

ListGrows(p, w) ==
    /\ call[p].op = "add" /\ call'[p].op # "add"
    /\ \A q \in Proc \ {p} : call'[q] = call[q]
    /\ w \in Waiter \ waitingTimers
    /\ waitingTimers' = waitingTimers \union {w}
    /\ waiter'[w].timer = call[p].timer
    /\ waiter'[w].at = "sleep"
    /\ waiter'[w].late = (stopped = "closed")
    /\ \A v \in Waiter \ {w} : waiter'[v] = waiter[v]
    /\ UNCHANGED <<timerState, loop, stopped>>

LEMMA ListStep ==
    ASSUME TypeOK, [Next]_timerVars
    PROVE  ListShrinks \/ \E p \in Proc, w \in Waiter : ListGrows(p, w)
  <1>a. /\ waiter \in [Waiter -> WaiterType]
        /\ call \in [Proc -> CallType]
        /\ waitingTimers \subseteq Waiter
    BY DEF TypeOK, WaiterType, CallType
  <1>e. Loop \in Proc /\ Caller \subseteq Proc
    BY DEF Proc
  <1>1. ASSUME NEW p \in Proc, NEW then, then.op # "add", AddWaitingTimer(p, then),
               UNCHANGED <<timerState, loop, stopped>>
        PROVE  \E w \in Waiter : ListGrows(p, w)
    <2>1. PICK w \in Waiter :
             /\ w \notin waitingTimers
             /\ waitingTimers' = waitingTimers \union {w}
             /\ waiter' = [waiter EXCEPT ![w] =
                   [timer |-> call[p].timer, cancelled |-> FALSE, at |-> "sleep",
                    late |-> stopped = "closed"]]
             /\ call' = [call EXCEPT ![p] = then]
             /\ call[p].op = "add"
      BY <1>1, AddsFreeWaiter
    <2>2. waiter'[w] = [timer |-> call[p].timer, cancelled |-> FALSE, at |-> "sleep",
                        late |-> stopped = "closed"]
      BY <2>1, <1>a
    <2>3. \A v \in Waiter \ {w} : waiter'[v] = waiter[v]
      BY <2>1, <1>a
    <2>4. call'[p].op # "add" /\ \A q \in Proc \ {p} : call'[q] = call[q]
      BY <2>1, <1>1, <1>a
    <2>5. QED
      BY <2>1, <2>2, <2>3, <2>4, <1>1 DEF ListGrows
  <1>2. CASE \E c \in Caller : RegisterTimer(c)
    <2>1. PICK c \in Caller : RegisterTimer(c)
      BY <1>2
    <2>2. Doing("flush", call[c].timer).op # "add"
      BY DEF Doing
    <2>3. QED
      BY <2>1, <2>2, <1>1, <1>e DEF RegisterTimer
  <1>3. CASE PollAdd
    <2>1. Idle.op # "add"
      BY DEF Idle
    <2>2. QED
      BY <1>3, <2>1, <1>1, <1>e DEF PollAdd
  <1>4. CASE \E p \in Proc : DeleteTimer(p)
    <2> DEFINE marked == [w \in Waiter |->
             IF w \in waitingTimers THEN [waiter[w] EXCEPT !.cancelled = TRUE]
                                    ELSE waiter[w]]
    <2>1. /\ waitingTimers' \subseteq waitingTimers
          /\ waiter' = Forget(marked, waitingTimers')
      BY <1>4 DEF DeleteTimer, DeleteWaitingTimer
    <2>2. \A w \in Waiter : marked[w].timer = waiter[w].timer
      BY <1>a DEF WaiterType
    <2> HIDE DEF marked
    <2>3. QED
      BY <2>1, <2>2, <1>a, ForgetKeeps DEF ListShrinks
  <1>5. CASE \E w \in Waiter : FallDue(w)
    BY <1>5, <1>a DEF FallDue, ListShrinks, WaiterType
  <1>6. CASE \E w \in Waiter : GiveUp(w) \/ Receive(w)
    <2>1. PICK w \in Waiter : waiter' = Forget([waiter EXCEPT ![w].at = "done"], waitingTimers)
                              /\ waitingTimers' = waitingTimers
      BY <1>6 DEF GiveUp, Receive
    <2>2. \A v \in Waiter : [waiter EXCEPT ![w].at = "done"][v].timer = waiter[v].timer
      BY <1>a DEF WaiterType
    <2> DEFINE ws == [waiter EXCEPT ![w].at = "done"]
    <2>3. waiter' = Forget(ws, waitingTimers) /\ \A v \in Waiter : ws[v].timer = waiter[v].timer
      BY <2>1, <2>2
    <2> HIDE DEF ws
    <2>4. QED
      BY <2>1, <2>3, <1>a, ForgetKeeps DEF ListShrinks
  <1>7. CASE DropProcessed
    <2>1. waitingTimers' \subseteq waitingTimers /\ waiter' = Forget(waiter, waitingTimers')
      BY <1>7 DEF DropProcessed
    <2>2. QED
      BY <2>1, <1>a, ForgetKeeps DEF ListShrinks
  <1>8. CASE UNCHANGED <<waitingTimers, waiter>>
    BY <1>8 DEF ListShrinks
  <1>9. QED
    BY <1>2, <1>3, <1>4, <1>5, <1>6, <1>7, <1>8
       DEF Next, Engine, Manager, Tick, CreateTimer, FlushTimer, CancelTimer, RemoveTimer,
           FlushCancel, ProcessTimer, Poll, PollScan, PollEnd, Stop, StopReturns,
           LoopReturns, timerVars

\* A goroutine decides to append a timer only when the timer is not listed:
\* a poll has looked, and a new timer cannot be.
LEMMA AddDecided ==
    ASSUME TypeOK, ListedTimers, [Next]_timerVars,
           NEW p \in Proc, call'[p].op = "add", call'[p] # call[p]
    PROVE  /\ \A w \in waitingTimers : waiter[w].timer # call'[p].timer
           /\ UNCHANGED <<waitingTimers, waiter>>
  <1>a. call \in [Proc -> CallType] /\ Loop \in Proc /\ Caller \subseteq Proc
    BY DEF TypeOK, CallType, Proc
  <1>1. ASSUME NEW q \in Proc, NEW c, c.op # "add", call' = [call EXCEPT ![q] = c]
        PROVE  FALSE
    BY <1>1, <1>a
  <1>2. ASSUME NEW q \in Proc, NEW op \in {"flush", "delete", "cancel"}, NEW t,
               call' = [call EXCEPT ![q] = Doing(op, t)]
        PROVE  FALSE
    BY <1>2, <1>1 DEF Doing
  <1>3. ASSUME NEW q \in Proc, call' = [call EXCEPT ![q] = Idle]
        PROVE  FALSE
    BY <1>3, <1>1 DEF Idle
  <1>4. ASSUME NEW c \in Caller, NEW t \in Timer, NEW d \in now..(MaxTime + 1),
               CreateTimer(c, t, d)
        PROVE  /\ \A w \in waitingTimers : waiter[w].timer # call'[p].timer
               /\ UNCHANGED <<waitingTimers, waiter>>
    <2>1. call'[p].timer = t
      BY <1>4, <1>a DEF CreateTimer, Doing
    <2>2. \A w \in waitingTimers : waiter[w].timer # t
      BY <1>4 DEF CreateTimer, ListedTimers
    <2>3. QED
      BY <1>4, <2>1, <2>2 DEF CreateTimer
  <1>5. CASE PollScan
    <2>1. PICK t \in loop.todo :
             call' = IF Listed(t) THEN call ELSE [call EXCEPT ![Loop] = Doing("add", t)]
      BY <1>5 DEF PollScan
    <2>2. ~Listed(t) /\ call'[p].timer = t
      BY <2>1, <1>a DEF Doing
    <2>3. QED
      BY <1>5, <2>2 DEF PollScan, Listed
  <1>6. ASSUME NEW c \in Caller, RegisterTimer(c)
        PROVE  FALSE
    BY <1>6, <1>2, <1>a DEF RegisterTimer, AddWaitingTimer
  <1>7. ASSUME NEW c \in Caller, FlushTimer(c)
        PROVE  FALSE
    BY <1>7, <1>3, <1>a DEF FlushTimer
  <1>8. ASSUME NEW q \in Proc, NEW t \in Timer, RemoveTimer(q, t)
        PROVE  FALSE
    BY <1>8, <1>2 DEF RemoveTimer
  <1>9. ASSUME NEW q \in Proc, DeleteTimer(q)
        PROVE  FALSE
    BY <1>9, <1>2, <1>a DEF DeleteTimer, DeleteWaitingTimer
  <1>10. ASSUME NEW q \in Proc, FlushCancel(q)
         PROVE  FALSE
    BY <1>10, <1>3 DEF FlushCancel
  <1>11. CASE PollAdd
    BY <1>11, <1>3, <1>a DEF PollAdd, AddWaitingTimer
  <1>12. CASE UNCHANGED call
    BY <1>12
  <1>13. QED
    BY <1>4, <1>5, <1>6, <1>7, <1>8, <1>9, <1>10, <1>11, <1>12
       DEF Next, Engine, Manager, Tick, CancelTimer, FallDue, GiveUp, Receive, ProcessTimer,
           DropProcessed, Poll, PollEnd, Stop, StopReturns, LoopReturns, timerVars

\* A timer that was created never becomes new again.
LEMMA CreatedStays ==
    ASSUME TypeOK, [Next]_timerVars, NEW t \in Timer, timerState[t] # "none"
    PROVE  timerState'[t] # "none"
  <1>a. timerState \in [Timer -> {"none", "batch", "lost", "created", "triggered",
                                  "cancelled"}]
    BY DEF TypeOK
  <1>1. CASE \E c \in Caller, u \in Timer, d \in now..(MaxTime + 1) : CreateTimer(c, u, d)
    BY <1>1, <1>a DEF CreateTimer
  <1>2. CASE \E c \in Caller : FlushTimer(c)
    BY <1>2, <1>a DEF FlushTimer
  <1>3. CASE \E c \in Caller, u \in Timer : CancelTimer(c, u)
    BY <1>3, <1>a DEF CancelTimer
  <1>4. CASE \E p \in Proc : FlushCancel(p)
    BY <1>4, <1>a DEF FlushCancel
  <1>5. CASE ProcessTimer
    BY <1>5, <1>a DEF ProcessTimer
  <1>6. CASE UNCHANGED timerState
    BY <1>6
  <1>7. QED
    BY <1>1, <1>2, <1>3, <1>4, <1>5, <1>6
       DEF Next, Engine, Manager, Tick, RegisterTimer, RemoveTimer, DeleteTimer, FallDue,
           GiveUp, Receive, DropProcessed, Poll, PollScan, PollAdd, PollEnd, Stop,
           StopReturns, LoopReturns, timerVars

\* Two goroutines are never about to append the same timer.
LEMMA AddsDiffer ==
    ASSUME Claims, NEW p \in Proc, NEW q \in Proc, p # q,
           call[p].op = "add", call[q].op = "add"
    PROVE  call[p].timer # call[q].timer
  BY DEF Claims, Proc, Stored

LEMMA ListedStep ==
    TypeOK /\ Sleepers /\ Claims /\ ListedTimers /\ [Next]_timerVars => ListedTimers'
  <1> SUFFICES ASSUME TypeOK, Sleepers, Claims, ListedTimers, [Next]_timerVars
               PROVE  ListedTimers'
    OBVIOUS
  <1>1. \A t \in Timer : timerState[t] # "none" => timerState'[t] # "none"
    BY CreatedStays
  <1>2. CASE ListShrinks
    <2>1. \A w \in waitingTimers' :
             waiter'[w].timer \in Timer /\ timerState'[waiter'[w].timer] # "none"
      BY <1>1, <1>2 DEF ListShrinks, ListedTimers
    <2>2. ASSUME NEW p \in Proc, call'[p].op = "add", NEW w \in waitingTimers'
          PROVE  waiter'[w].timer # call'[p].timer
      BY <1>2, <2>2, AddDecided DEF ListShrinks, ListedTimers
    <2>3. QED
      BY <2>1, <2>2 DEF ListedTimers
  <1>3. ASSUME NEW p \in Proc, NEW w \in Waiter, ListGrows(p, w)
        PROVE  ListedTimers'
    <2>1. call[p].timer \in Timer /\ timerState[call[p].timer] # "none"
      BY <1>3 DEF ListGrows, Claims, Stored, Proc
    <2>2. waitingTimers \subseteq Waiter
      BY DEF TypeOK
    <2>3. \A v \in waitingTimers' :
             waiter'[v].timer \in Timer /\ timerState'[waiter'[v].timer] # "none"
      BY <1>3, <2>1, <2>2 DEF ListGrows, ListedTimers
    <2>4. ASSUME NEW q \in Proc, call'[q].op = "add", NEW v \in waitingTimers'
          PROVE  waiter'[v].timer # call'[q].timer
      <3>1. q # p /\ call'[q] = call[q]
        BY <1>3, <2>4 DEF ListGrows
      <3>2. CASE v = w
        BY <1>3, <3>1, <3>2, <2>4, AddsDiffer DEF ListGrows
      <3>3. CASE v # w
        BY <1>3, <3>1, <3>3, <2>2, <2>4 DEF ListGrows, ListedTimers
      <3>4. QED
        BY <3>2, <3>3
    <2>5. QED
      BY <2>3, <2>4 DEF ListedTimers
  <1>4. QED
    BY <1>2, <1>3, ListStep

LEMMA NoDuplicateStep ==
    TypeOK /\ ListedTimers /\ NoDuplicateWaiters /\ [Next]_timerVars => NoDuplicateWaiters'
  <1> SUFFICES ASSUME TypeOK, ListedTimers, NoDuplicateWaiters, [Next]_timerVars
               PROVE  NoDuplicateWaiters'
    OBVIOUS
  <1>1. CASE ListShrinks
    BY <1>1 DEF ListShrinks, NoDuplicateWaiters
  <1>2. ASSUME NEW p \in Proc, NEW w \in Waiter, ListGrows(p, w)
        PROVE  NoDuplicateWaiters'
    <2>1. \A v \in waitingTimers : waiter'[v] = waiter[v] /\ waiter[v].timer # call[p].timer
      BY <1>2 DEF ListGrows, ListedTimers, TypeOK
    <2>2. QED
      BY <1>2, <2>1 DEF ListGrows, NoDuplicateWaiters
  <1>3. QED
    BY <1>1, <1>2, ListStep

LEMMA StrandStep ==
    TypeOK /\ Claims /\ NoDuplicateWaiters /\ OnlyRemovalStrands /\ [Next]_timerVars
      => OnlyRemovalStrands'
  <1> SUFFICES ASSUME TypeOK, Claims, NoDuplicateWaiters, OnlyRemovalStrands,
                      [Next]_timerVars, stopped' = "no",
                      NEW w \in waitingTimers', waiter'[w].at = "done"
               PROVE  \/ waiter'[w].cancelled
                      \/ loop'.at \in {"process", "drop"} /\ loop'.timer = waiter'[w].timer
    BY DEF OnlyRemovalStrands
  <1>a. /\ waiter \in [Waiter -> WaiterType]
        /\ waitingTimers \subseteq Waiter
        /\ loop \in [at : {"select", "process", "drop", "poll", "returned"},
                     timer : Timer \union {NoTimer}, todo : SUBSET Timer,
                     end : 0..(MaxTime + 1)]
    BY DEF TypeOK, WaiterType
  \* The entry was stranded before, and the loop is still busy with its timer.
  <1>u. CASE /\ UNCHANGED <<waitingTimers, stopped>>
             /\ waiter'[w] = waiter[w]
             /\ \/ loop' = loop
                \/ loop.at \notin {"process", "drop"}
                \/ loop'.at \in {"process", "drop"} /\ loop'.timer = loop.timer
    BY <1>u DEF OnlyRemovalStrands
  <1>1. ASSUME NEW p \in Proc, NEW v \in Waiter, ListGrows(p, v)
        PROVE  \/ waiter'[w].cancelled
               \/ loop'.at \in {"process", "drop"} /\ loop'.timer = waiter'[w].timer
    <2>1. w # v /\ w \in waitingTimers /\ waiter'[w] = waiter[w]
      BY <1>1, <1>a DEF ListGrows
    <2>2. QED
      BY <1>1, <2>1 DEF ListGrows, OnlyRemovalStrands
  <1>2. CASE \E p \in Proc : DeleteTimer(p)
    <2> DEFINE marked == [v \in Waiter |->
             IF v \in waitingTimers THEN [waiter[v] EXCEPT !.cancelled = TRUE]
                                    ELSE waiter[v]]
    <2>1. w \in waitingTimers /\ waiter' = Forget(marked, waitingTimers')
      BY <1>2 DEF DeleteTimer, DeleteWaitingTimer
    <2>2. marked[w].cancelled
      BY <2>1, <1>a DEF WaiterType
    <2> HIDE DEF marked
    <2>3. waiter'[w] = marked[w]
      BY <2>1, <1>a, ForgetKeeps
    <2>4. QED
      BY <2>2, <2>3
  <1>3. ASSUME NEW v \in Waiter, FallDue(v)
        PROVE  waiter'[w] = waiter[w]
    BY <1>3, <1>a DEF FallDue, WaiterType
  <1>4. ASSUME NEW v \in Waiter, waitingTimers' = waitingTimers,
               waiter' = Forget([waiter EXCEPT ![v].at = "done"], waitingTimers)
        PROVE  /\ w # v => waiter'[w] = waiter[w]
               /\ waiter'[w].cancelled = waiter[w].cancelled
               /\ waiter'[w].timer = waiter[w].timer
    <2> DEFINE ws == [waiter EXCEPT ![v].at = "done"]
    <2>1. /\ w # v => ws[w] = waiter[w]
          /\ ws[w].cancelled = waiter[w].cancelled
          /\ ws[w].timer = waiter[w].timer
      BY <1>4, <1>a DEF WaiterType
    <2> HIDE DEF ws
    <2>2. waiter'[w] = ws[w]
      BY <1>4, <1>a, ForgetKeeps DEF ws
    <2>3. QED
      BY <2>1, <2>2
  <1>5. ASSUME NEW v \in Waiter, GiveUp(v)
        PROVE  \/ waiter'[w].cancelled
               \/ loop'.at \in {"process", "drop"} /\ loop'.timer = waiter'[w].timer
    <2>1. CASE w = v
      BY <1>5, <1>4, <2>1 DEF GiveUp
    <2>2. CASE w # v
      BY <1>5, <1>4, <2>2, <1>u DEF GiveUp
    <2>3. QED
      BY <2>1, <2>2
  <1>6. ASSUME NEW v \in Waiter, Receive(v)
        PROVE  \/ waiter'[w].cancelled
               \/ loop'.at \in {"process", "drop"} /\ loop'.timer = waiter'[w].timer
    <2>1. CASE w = v
      <3>1. waiter'[w].timer = waiter[v].timer
        BY <1>6, <1>4, <2>1 DEF Receive
      <3>2. loop'.at = "process" /\ loop'.timer = waiter[v].timer
        BY <1>6, <1>a DEF Receive
      <3>3. QED
        BY <3>1, <3>2
    <2>2. CASE w # v
      BY <1>6, <1>4, <2>2, <1>u DEF Receive
    <2>3. QED
      BY <2>1, <2>2
  <1>7. CASE ProcessTimer
    <2>1. loop'.at = "drop" /\ loop'.timer = loop.timer
      BY <1>7, <1>a DEF ProcessTimer
    <2>2. QED
      BY <1>7, <2>1, <1>u DEF ProcessTimer
  <1>8. ASSUME NEW p \in Proc, FlushCancel(p)
        PROVE  \/ waiter'[w].cancelled
               \/ loop'.at \in {"process", "drop"} /\ loop'.timer = waiter'[w].timer
    <2>1. loop' = loop \/ (loop'.at = "drop" /\ loop'.timer = loop.timer)
      BY <1>8, <1>a DEF FlushCancel
    <2>2. QED
      BY <1>8, <2>1, <1>u DEF FlushCancel
  <1>9. CASE DropProcessed
    <2>1. /\ w \in waitingTimers
          /\ waiter' = Forget(waiter, waitingTimers')
          /\ UNCHANGED stopped
          /\ waiter[w].timer # loop.timer
      BY <1>9 DEF DropProcessed, Listed, NoDuplicateWaiters
    <2>2. waiter'[w] = waiter[w]
      BY <2>1, <1>a, ForgetKeeps
    <2>3. QED
      BY <2>1, <2>2 DEF OnlyRemovalStrands
  <1>10. CASE Poll \/ PollScan \/ PollEnd \/ LoopReturns
    BY <1>10, <1>u DEF Poll, PollScan, PollEnd, LoopReturns
  <1>11. CASE Stop \/ StopReturns
    BY <1>11 DEF Stop, StopReturns
  <1>12. CASE \E p \in Proc, v \in Waiter : ListGrows(p, v)
    BY <1>1, <1>12
  <1>13. CASE UNCHANGED <<waitingTimers, waiter, loop, stopped>>
    BY <1>13, <1>u
  <1>14. CASE (\E c \in Caller : RegisterTimer(c)) \/ PollAdd
    <2>1. PICK p \in Proc : AddWaitingTimer(p, Idle) \/ AddWaitingTimer(p, Doing("flush", call[p].timer))
      BY <1>14 DEF RegisterTimer, PollAdd, Proc
    <2>2. \E v \in Waiter : v \notin waitingTimers /\ waitingTimers' = waitingTimers \union {v}
      BY <2>1, AddsFreeWaiter
    <2>3. ~ListShrinks
      BY <2>2 DEF ListShrinks
    <2>4. QED
      BY <2>3, <1>12, ListStep
  <1>15. CASE \E v \in Waiter : FallDue(v)
    BY <1>15, <1>3, <1>u DEF FallDue
  <1>16. QED
    BY <1>2, <1>5, <1>6, <1>7, <1>8, <1>9, <1>10, <1>11, <1>13, <1>14, <1>15
       DEF Next, Engine, Manager, Tick, CreateTimer, FlushTimer, CancelTimer, RemoveTimer,
           timerVars

\* A goroutine that appears after the channel is closed was started late; the
\* others only come to their end.
LEMMA LateStep == TypeOK /\ OnlyLateSenders /\ [Next]_timerVars => OnlyLateSenders'
  <1> SUFFICES ASSUME TypeOK, OnlyLateSenders, [Next]_timerVars, stopped' = "closed",
                      NEW w \in Waiter, waiter'[w].at # "done"
               PROVE  waiter'[w].late
    BY DEF OnlyLateSenders
  <1>a. waiter \in [Waiter -> WaiterType] /\ waitingTimers \subseteq Waiter
    BY DEF TypeOK, WaiterType
  <1>u. CASE /\ UNCHANGED stopped
             /\ waiter'[w].late = waiter[w].late
             /\ waiter[w].at # "done"
    BY <1>u DEF OnlyLateSenders
  \* What Forget leaves running was running.
  <1>f. ASSUME NEW ws, NEW list, waiter' = Forget(ws, list), UNCHANGED stopped,
               \A v \in Waiter : ws[v].late = waiter[v].late
                                 /\ (ws[v].at = waiter[v].at \/ ws[v].at = "done")
        PROVE  waiter'[w].late
    <2>1. waiter'[w] = ws[w] /\ ws[w].at # "done"
      BY <1>f, ForgetKeeps DEF NoWaiter
    <2>2. QED
      BY <2>1, <1>f, <1>u
  <1>1. ASSUME NEW p \in Proc, NEW v \in Waiter, ListGrows(p, v)
        PROVE  waiter'[w].late
    <2>1. CASE w = v
      BY <1>1, <2>1 DEF ListGrows
    <2>2. CASE w # v
      BY <1>1, <2>2, <1>u DEF ListGrows
    <2>3. QED
      BY <2>1, <2>2
  <1>2. CASE \E p \in Proc : DeleteTimer(p)
    <2> DEFINE marked == [v \in Waiter |->
             IF v \in waitingTimers THEN [waiter[v] EXCEPT !.cancelled = TRUE]
                                    ELSE waiter[v]]
    <2>1. waiter' = Forget(marked, waitingTimers') /\ UNCHANGED stopped
      BY <1>2 DEF DeleteTimer, DeleteWaitingTimer
    <2>2. \A v \in Waiter : marked[v].late = waiter[v].late /\ marked[v].at = waiter[v].at
      BY <1>a DEF WaiterType
    <2> HIDE DEF marked
    <2>3. QED
      BY <2>1, <2>2, <1>f
  <1>3. CASE \E v \in Waiter : FallDue(v)
    BY <1>3, <1>u, <1>a DEF FallDue, WaiterType
  <1>4. CASE \E v \in Waiter : GiveUp(v) \/ Receive(v)
    <2>1. PICK v \in Waiter : waiter' = Forget([waiter EXCEPT ![v].at = "done"], waitingTimers)
                              /\ UNCHANGED stopped
      BY <1>4 DEF GiveUp, Receive
    <2> DEFINE ws == [waiter EXCEPT ![v].at = "done"]
    <2>2. \A x \in Waiter : ws[x].late = waiter[x].late
                            /\ (ws[x].at = waiter[x].at \/ ws[x].at = "done")
      BY <1>a DEF WaiterType
    <2>3. waiter' = Forget(ws, waitingTimers)
      BY <2>1
    <2> HIDE DEF ws
    <2>4. QED
      BY <2>1, <2>2, <2>3, <1>f
  <1>5. CASE DropProcessed
    <2>1. waiter' = Forget(waiter, waitingTimers') /\ UNCHANGED stopped
      BY <1>5 DEF DropProcessed
    <2>2. QED
      BY <2>1, <1>f
  <1>6. CASE Stop \/ StopReturns
    BY <1>6 DEF Stop, StopReturns
  <1>7. CASE UNCHANGED <<waiter, stopped>>
    BY <1>7, <1>u
  <1>8. CASE (\E c \in Caller : RegisterTimer(c)) \/ PollAdd
    <2>1. PICK p \in Proc : AddWaitingTimer(p, Idle) \/ AddWaitingTimer(p, Doing("flush", call[p].timer))
      BY <1>8 DEF RegisterTimer, PollAdd, Proc
    <2>2. \E v \in Waiter : v \notin waitingTimers /\ waitingTimers' = waitingTimers \union {v}
      BY <2>1, AddsFreeWaiter
    <2>3. ~ListShrinks
      BY <2>2 DEF ListShrinks
    <2>4. QED
      BY <2>3, <1>1, ListStep
  <1>9. QED
    BY <1>2, <1>3, <1>4, <1>5, <1>6, <1>7, <1>8
       DEF Next, Engine, Manager, Tick, CreateTimer, FlushTimer, CancelTimer, RemoveTimer,
           FlushCancel, ProcessTimer, Poll, PollScan, PollEnd, LoopReturns, timerVars

-----------------------------------------------------------------------------
\* The inductive invariant of the timer manager.
THEOREM TimerInvariance == Spec => []TimerInv
  <1>1. TimerInv /\ [Next]_timerVars => TimerInv'
    BY TypeStep, SleepersStep, ClaimsStep, ListedStep, NoDuplicateStep, StrandStep, LateStep
       DEF TimerInv
  <1>2. QED
    BY InitTimerInv, <1>1, PTL DEF Spec

\* The variables keep their types, whatever the timers, the goroutines of the
\* engine and the bounds are.
THEOREM TimerTypes == Spec => []TypeOK
  <1>1. TimerInv => TypeOK
    BY DEF TimerInv
  <1>2. QED
    BY TimerInvariance, <1>1, PTL

\* addWaitingTimer de-duplicates although it takes the lock twice: a timer is
\* in tm.waitingTimers at most once, so that it is handed to the engine by at
\* most one listed goroutine.
THEOREM TimersAreListedOnce == Spec => []NoDuplicateWaiters
  <1>1. TimerInv => NoDuplicateWaiters
    BY DEF TimerInv
  <1>2. QED
    BY TimerInvariance, <1>1, PTL

\* An entry of tm.waitingTimers that no goroutine serves any more, and that thus
\* hides its timer from every poll, is being processed by the loop, or its
\* context was cancelled by a removeTimer.
THEOREM OnlyRemovalsStrandTimers == Spec => []OnlyRemovalStrands
  <1>1. TimerInv => OnlyRemovalStrands
    BY DEF TimerInv
  <1>2. QED
    BY TimerInvariance, <1>1, PTL

\* stop() closes the channel only when every goroutine that was started before
\* has ended: a send on the closed channel needs a registerTimer after stop().
THEOREM OnlyLateGoroutinesSend == Spec => []OnlyLateSenders
  <1>1. TimerInv => OnlyLateSenders
    BY DEF TimerInv
  <1>2. QED
    BY TimerInvariance, <1>1, PTL
=============================================================================
