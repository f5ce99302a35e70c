----------------------------- MODULE TimerManager ---------------------------
(***************************************************************************)
(* timerManager (pkg/bpmn/timer_manager.go): it keeps in memory the timers *)
(* that fall due before its next poll, one goroutine per timer, and hands  *)
(* the ones that fall due to the engine through an unbuffered channel that *)
(* a single loop reads.  The rest of the timers wait in the database until *)
(* a poll finds them.                                                      *)
(*                                                                         *)
(* The engine is the environment here: its goroutines create timers inside *)
(* a batch (createTimer, timer.go), cancel them with and without telling   *)
(* the manager (publishEventOnEventGateway and cancelBoundarySubscriptions,*)
(* events.go) and its ProcessTimer runs inside the manager's loop.  Time   *)
(* is counted in poll periods.                                             *)
(***************************************************************************)
EXTENDS Naturals

CONSTANTS Timer,       \* timer keys
          MaxWaiters,  \* bound of the model: goroutines made by addWaitingTimer
          Caller,      \* engine goroutines that create and cancel timers
          Loop,        \* the goroutine of run()
          NoTimer,
          MaxTime,     \* bound of the model: the clock stops here
          MaxFailures, \* bound of the model: failed flushes of a cancelled timer
          MayRemove,   \* processes have event based gateways (removeTimer is called)
          MayStop      \* the manager may be stopped

ASSUME TimerManagerAssumption ==
    /\ MaxWaiters \in Nat
    /\ Loop \notin Caller
    /\ NoTimer \notin Timer
    /\ MaxTime \in Nat
    /\ MaxFailures \in Nat
    /\ MayRemove \in BOOLEAN
    /\ MayStop \in BOOLEAN

VARIABLES
    now,            \* the clock
    tick,           \* the time in pollTicker.C; NoTick when it is empty
    nextPoll,       \* tm.nextPoll
    timerState,     \* timer rows of the database
    dueAt,          \* Timer.DueAt
    waitingTimers,  \* tm.waitingTimers, a set of waiters
    waiter,         \* per waiter: its timer, its context and its goroutine
    call,           \* what each goroutine is doing to the manager
    loop,           \* where run() is
    stopped,        \* "no", "waiting" in waitingTimersWg.Wait, or "closed"
    failures        \* failed flushes so far

timerVars == <<now, tick, nextPoll, timerState, dueAt, waitingTimers, waiter,
               call, loop, stopped, failures>>

NoTick  == MaxTime + 1
Waiter  == 1..MaxWaiters
Proc    == Caller \union {Loop}
Idle    == [op |-> "none", timer |-> NoTimer]
Doing(op, t) == [op |-> op, timer |-> t]
AtSelect == [at |-> "select", timer |-> NoTimer, todo |-> {}, end |-> 0]
NoWaiter == [timer |-> NoTimer, cancelled |-> FALSE, at |-> "done", late |-> FALSE]

Init ==
    /\ now  = 0
    /\ tick = NoTick
    /\ nextPoll = 1
    /\ timerState = [t \in Timer |-> "none"]
    /\ dueAt = [t \in Timer |-> 0]
    /\ waitingTimers = {}
    /\ waiter = [w \in Waiter |-> NoWaiter]
    /\ call = [p \in Proc |-> Idle]
    /\ loop = AtSelect
    /\ stopped = "no"
    /\ failures = 0

\* time.Ticker keeps one tick and drops the ones nobody is there to read.
Tick ==
    /\ now' = IF now < MaxTime THEN now + 1 ELSE now
    /\ tick' = IF tick = NoTick THEN now' ELSE tick
    /\ UNCHANGED <<nextPoll, timerState, dueAt, waitingTimers, waiter, call,
                   loop, stopped, failures>>

-----------------------------------------------------------------------------
\* addWaitingTimer and removeTimer scan the list under the read lock first.
Listed(t) == \E w \in waitingTimers : waiter[w].timer = t

\* An entry can be reused when its goroutine has ended and the list dropped it.
FreeWaiters == {w \in Waiter \ waitingTimers : waiter[w].at = "done"}

\* Nothing is remembered of an entry that can be reused.
Forget(ws, list) ==
    [w \in Waiter |-> IF w \notin list /\ ws[w].at = "done" THEN NoWaiter ELSE ws[w]]

\* The second half of addWaitingTimer, under the write lock: append the entry
\* and start its goroutine.
AddWaitingTimer(p, then) ==
    /\ call[p].op = "add"
    /\ FreeWaiters # {}
    /\ LET w == CHOOSE w \in FreeWaiters : TRUE
       IN /\ waitingTimers' = waitingTimers \union {w}
          /\ waiter' = [waiter EXCEPT ![w] =
                [timer |-> call[p].timer, cancelled |-> FALSE, at |-> "sleep",
                 late |-> stopped = "closed"]]
    /\ call' = [call EXCEPT ![p] = then]

\* The second half of removeTimer.  The callback of slices.DeleteFunc cancels
\* the context of every entry it is shown, and is shown all of them.
DeleteWaitingTimer(p) ==
    /\ call[p].op = "delete"
    /\ waitingTimers' = {w \in waitingTimers : waiter[w].timer # call[p].timer}
    /\ LET cancelled == [w \in Waiter |->
             IF w \in waitingTimers THEN [waiter[w] EXCEPT !.cancelled = TRUE]
                                    ELSE waiter[w]]
       IN  waiter' = Forget(cancelled, waitingTimers')
    /\ call' = [call EXCEPT ![p] = Doing("cancel", @.timer)]

-----------------------------------------------------------------------------
\* createTimer: the timer goes into the batch and is registered at once, if it
\* falls due in the current poll cycle; its key is new.
CreateTimer(c, t, d) ==
    /\ call[c].op = "none"
    /\ timerState[t] = "none"
    /\ timerState' = [timerState EXCEPT ![t] = "batch"]
    /\ dueAt' = [dueAt EXCEPT ![t] = d]
    /\ call' = [call EXCEPT ![c] =
          Doing(IF d > nextPoll \/ Listed(t) THEN "flush" ELSE "add", t)]
    /\ UNCHANGED <<now, tick, nextPoll, waitingTimers, waiter, loop, stopped, failures>>

RegisterTimer(c) ==
    /\ AddWaitingTimer(c, Doing("flush", call[c].timer))
    /\ UNCHANGED <<now, tick, nextPoll, timerState, dueAt, loop, stopped, failures>>

\* The batch that holds a new timer is flushed, or is thrown away because a
\* later step of the same batch failed.
FlushTimer(c) ==
    /\ call[c].op = "flush"
    /\ \E s \in {"created", "lost"} :
          timerState' = [timerState EXCEPT ![call[c].timer] = s]
    /\ call' = [call EXCEPT ![c] = Idle]
    /\ UNCHANGED <<now, tick, nextPoll, dueAt, waitingTimers, waiter, loop, stopped, failures>>

\* The instance lock: whoever cancels or triggers a timer holds it from the
\* query that found the row in state CREATED to the flush.
Unclaimed(t) ==
    /\ timerState[t] = "created"
    /\ \A p \in Proc : call[p].op \in {"delete", "cancel"} =>
          /\ call[p].timer # t
          /\ p = Loop => loop.timer # t

\* cancelBoundarySubscriptions, terminateExecutionTokens: only the row changes.
CancelTimer(c, t) ==
    /\ call[c].op = "none"
    /\ Unclaimed(t)
    /\ timerState' = [timerState EXCEPT ![t] = "cancelled"]
    /\ UNCHANGED <<now, tick, nextPoll, dueAt, waitingTimers, waiter, call,
                   loop, stopped, failures>>

\* publishEventOnEventGateway found t among the gateway's active timers.  A
\* message arrives on an engine goroutine, a timer inside the loop.  Bound of
\* the model: not again while the goroutine of an earlier removal still sends.
RemoveTimer(p, t) ==
    /\ MayRemove
    /\ call[p].op = "none"
    /\ p = Loop => loop.at = "process" /\ loop.timer # t
                   /\ Unclaimed(loop.timer)
    /\ Unclaimed(t)
    /\ \A w \in Waiter : waiter[w].timer = t => w \in waitingTimers
    /\ call' = [call EXCEPT ![p] = Doing(IF Listed(t) THEN "delete" ELSE "cancel", t)]
    /\ UNCHANGED <<now, tick, nextPoll, timerState, dueAt, waitingTimers, waiter,
                   loop, stopped, failures>>

DeleteTimer(p) ==
    /\ DeleteWaitingTimer(p)
    /\ UNCHANGED <<now, tick, nextPoll, timerState, dueAt, loop, stopped, failures>>

\* The flush of the batch that holds the cancelled row (and, inside the loop,
\* the triggered one), or its failure.
FlushCancel(p) ==
    /\ call[p].op = "cancel"
    /\ \/ /\ timerState' = [t \in Timer |->
             CASE t = call[p].timer             -> "cancelled"
               [] p = Loop /\ t = loop.timer    -> "triggered"
               [] OTHER                         -> timerState[t]]
          /\ UNCHANGED failures
       \/ /\ failures < MaxFailures
          /\ failures' = failures + 1
          /\ UNCHANGED timerState
    /\ call' = [call EXCEPT ![p] = Idle]
    /\ loop' = IF p = Loop THEN [loop EXCEPT !.at = "drop"] ELSE loop
    /\ UNCHANGED <<now, tick, nextPoll, dueAt, waitingTimers, waiter, stopped>>

-----------------------------------------------------------------------------
\* The goroutine of an entry: sleep until due, then send to the loop.
FallDue(w) ==
    /\ waiter[w].at = "sleep"
    /\ now >= dueAt[waiter[w].timer]
    /\ waiter' = [waiter EXCEPT ![w].at = "send"]
    /\ UNCHANGED <<now, tick, nextPoll, timerState, dueAt, waitingTimers, call,
                   loop, stopped, failures>>

\* timerCtx.Done or tm.ctx.Done.
GiveUp(w) ==
    /\ waiter[w].at = "sleep"
    /\ waiter[w].cancelled \/ stopped # "no"
    /\ waiter' = Forget([waiter EXCEPT ![w].at = "done"], waitingTimers)
    /\ UNCHANGED <<now, tick, nextPoll, timerState, dueAt, waitingTimers, call,
                   loop, stopped, failures>>

\* run() receives from tm.ch and enters processTimerFunc.
Receive(w) ==
    /\ loop.at = "select"
    /\ stopped # "closed"
    /\ waiter[w].at = "send"
    /\ waiter' = Forget([waiter EXCEPT ![w].at = "done"], waitingTimers)
    /\ loop' = [loop EXCEPT !.at = "process", !.timer = waiter[w].timer]
    /\ UNCHANGED <<now, tick, nextPoll, timerState, dueAt, waitingTimers, call,
                   stopped, failures>>

\* ProcessTimer without event gateway siblings: the timer is triggered if its
\* row is still in state CREATED and the batch can be flushed; every failure
\* is logged and leaves the row alone.
ProcessTimer ==
    /\ loop.at = "process"
    /\ call[Loop].op = "none"
    /\ \/ /\ Unclaimed(loop.timer)
          /\ timerState' = [timerState EXCEPT ![loop.timer] = "triggered"]
       \/ UNCHANGED timerState
    /\ loop' = [loop EXCEPT !.at = "drop"]
    /\ UNCHANGED <<now, tick, nextPoll, dueAt, waitingTimers, waiter, call, stopped, failures>>

\* Mutant of DropProcessed: a timer that was not triggered stays in the list.
DropTriggered ==
    /\ loop.at = "drop"
    /\ \/ /\ ~Listed(loop.timer) \/ timerState[loop.timer] = "created"
          /\ UNCHANGED waitingTimers
       \/ \E w \in waitingTimers :
             /\ waiter[w].timer = loop.timer
             /\ timerState[loop.timer] # "created"
             /\ waitingTimers' = waitingTimers \ {w}
    /\ waiter' = Forget(waiter, waitingTimers')
    /\ loop' = AtSelect
    /\ UNCHANGED <<now, tick, nextPoll, timerState, dueAt, call, stopped, failures>>

\* The first entry with the key of the processed timer leaves the list.
DropProcessed ==
    /\ loop.at = "drop"
    /\ \/ /\ ~Listed(loop.timer)
          /\ UNCHANGED waitingTimers
       \/ \E w \in waitingTimers :
             /\ waiter[w].timer = loop.timer
             /\ waitingTimers' = waitingTimers \ {w}
    /\ waiter' = Forget(waiter, waitingTimers')
    /\ loop' = AtSelect
    /\ UNCHANGED <<now, tick, nextPoll, timerState, dueAt, call, stopped, failures>>

\* Mutant of Poll: the query looks only for timers of the coming period.
PollComing ==
    /\ loop.at = "select"
    /\ tick # NoTick
    /\ tick' = NoTick
    /\ \/ loop' = [loop EXCEPT !.at = "poll", !.end = tick + 1,
                     !.todo = {t \in Timer : timerState[t] = "created"
                                             /\ dueAt[t] = tick}]
       \/ UNCHANGED loop
    /\ UNCHANGED <<now, nextPoll, timerState, dueAt, waitingTimers, waiter, call,
                   stopped, failures>>

\* A tick: FindTimersTo reads the active timers up to the following tick.
Poll ==
    /\ loop.at = "select"
    /\ tick # NoTick
    /\ tick' = NoTick
    /\ \/ loop' = [loop EXCEPT !.at = "poll", !.end = tick + 1,
                     !.todo = {t \in Timer : timerState[t] = "created"
                                             /\ dueAt[t] < tick + 1}]
       \/ UNCHANGED loop     \* the query failed; the next tick tries again
    /\ UNCHANGED <<now, nextPoll, timerState, dueAt, waitingTimers, waiter, call,
                   stopped, failures>>

\* Mutant of PollScan: no de-duplication.
PollScanBlind ==
    /\ loop.at = "poll"
    /\ call[Loop].op = "none"
    /\ \E t \in loop.todo :
          /\ loop' = [loop EXCEPT !.todo = @ \ {t}]
          /\ call' = [call EXCEPT ![Loop] = Doing("add", t)]
    /\ UNCHANGED <<now, tick, nextPoll, timerState, dueAt, waitingTimers, waiter,
                   stopped, failures>>

\* addWaitingTimer for one of the timers the query returned.
PollScan ==
    /\ loop.at = "poll"
    /\ call[Loop].op = "none"
    /\ \E t \in loop.todo :
          /\ loop' = [loop EXCEPT !.todo = @ \ {t}]
          /\ call' = IF Listed(t) THEN call
                     ELSE [call EXCEPT ![Loop] = Doing("add", t)]
    /\ UNCHANGED <<now, tick, nextPoll, timerState, dueAt, waitingTimers, waiter,
                   stopped, failures>>

PollAdd ==
    /\ loop.at = "poll"
    /\ AddWaitingTimer(Loop, Idle)
    /\ UNCHANGED <<now, tick, nextPoll, timerState, dueAt, loop, stopped, failures>>

PollEnd ==
    /\ loop.at = "poll"
    /\ loop.todo = {} /\ call[Loop].op = "none"
    /\ nextPoll' = loop.end
    /\ loop' = AtSelect
    /\ UNCHANGED <<now, tick, timerState, dueAt, waitingTimers, waiter, call, stopped, failures>>

-----------------------------------------------------------------------------
\* stop(): cancel the context, wait for the goroutines, close the channel.
Stop ==
    /\ MayStop
    /\ stopped = "no"
    /\ stopped' = "waiting"
    /\ UNCHANGED <<now, tick, nextPoll, timerState, dueAt, waitingTimers, waiter,
                   call, loop, failures>>

\* Mutant of StopReturns: the channel is closed without waiting.
StopReturnsAtOnce ==
    /\ stopped = "waiting"
    /\ stopped' = "closed"
    /\ UNCHANGED <<now, tick, nextPoll, timerState, dueAt, waitingTimers, waiter,
                   call, loop, failures>>

StopReturns ==
    /\ stopped = "waiting"
    /\ \A w \in Waiter : waiter[w].at = "done"
    /\ stopped' = "closed"
    /\ UNCHANGED <<now, tick, nextPoll, timerState, dueAt, waitingTimers, waiter,
                   call, loop, failures>>

\* run() returns, on the done context or on the closed channel.
LoopReturns ==
    /\ loop.at = "select"
    /\ stopped # "no"
    /\ loop' = [loop EXCEPT !.at = "returned"]
    /\ UNCHANGED <<now, tick, nextPoll, timerState, dueAt, waitingTimers, waiter,
                   call, stopped, failures>>

Engine ==
    \/ \E c \in Caller :
          \/ \E t \in Timer, d \in now..(MaxTime + 1) : CreateTimer(c, t, d)
          \/ RegisterTimer(c)
          \/ FlushTimer(c)
          \/ \E t \in Timer : CancelTimer(c, t)
    \/ \E p \in Proc :
          \/ \E t \in Timer : RemoveTimer(p, t)
          \/ DeleteTimer(p)
          \/ FlushCancel(p)

Manager ==
    \/ \E w \in Waiter : FallDue(w) \/ GiveUp(w) \/ Receive(w)
    \/ ProcessTimer \/ DropProcessed
    \/ Poll \/ PollScan \/ PollAdd \/ PollEnd
    \/ Stop \/ StopReturns \/ LoopReturns

Next == Tick \/ Engine \/ Manager

Spec == Init /\ [][Next]_timerVars

-----------------------------------------------------------------------------
\* Every variable has its type.
TypeOK ==
    /\ now \in 0..MaxTime
    /\ tick \in 0..NoTick
    /\ nextPoll \in 1..(MaxTime + 1)
    /\ timerState \in [Timer -> {"none", "batch", "lost", "created", "triggered",
                                  "cancelled"}]
    /\ dueAt \in [Timer -> 0..(MaxTime + 1)]
    /\ waitingTimers \subseteq Waiter
    /\ waiter \in [Waiter -> [timer : Timer \union {NoTimer}, cancelled : BOOLEAN,
                               at : {"sleep", "send", "done"}, late : BOOLEAN]]
    /\ call \in [Proc -> [op : {"none", "add", "flush", "delete", "cancel"},
                           timer : Timer \union {NoTimer}]]
    /\ loop \in [at : {"select", "process", "drop", "poll", "returned"},
                  timer : Timer \union {NoTimer}, todo : SUBSET Timer,
                  end : 0..(MaxTime + 1)]
    /\ stopped \in {"no", "waiting", "closed"}
    /\ failures \in 0..MaxFailures

\* "timerManager does the de-duplication of already running timers and timers
\* returned by" the poll (timer_manager.go:18), although the scan and the
\* append of addWaitingTimer are two critical sections: a timer is in the list
\* at most once.
NoDuplicateWaiters ==
    \A v, w \in waitingTimers : waiter[v].timer = waiter[w].timer => v = w

\* An entry that stays in the list hides its timer from every later poll.  The
\* only ones without a goroutine that will still send are the one the loop is
\* busy with and the ones whose context some removeTimer cancelled.
OnlyRemovalStrands ==
    stopped = "no" =>
        \A w \in waitingTimers :
            waiter[w].at = "done" =>
                \/ waiter[w].cancelled
                \/ loop.at \in {"process", "drop"} /\ loop.timer = waiter[w].timer

\* stop() closes the channel only when no goroutine of the manager can send to
\* it any more; a goroutine that may panic on the closed channel was started
\* by a registerTimer that came after stop().
OnlyLateSenders ==
    stopped = "closed" =>
        \A w \in Waiter : waiter[w].at # "done" => waiter[w].late

\* What the Go runtime gives the manager: the clock runs, every goroutine that
\* can move does, and a select serves each of its ready cases now and then.
\* ProcessTimer is assumed to return and the poll query not to fail for ever.
Fairness ==
    /\ WF_timerVars(Tick)
    /\ \A w \in Waiter : /\ WF_timerVars(FallDue(w) \/ GiveUp(w))
                         /\ SF_timerVars(Receive(w))
    /\ WF_timerVars(ProcessTimer) /\ WF_timerVars(DropProcessed)
    /\ \A p \in Proc : WF_timerVars(DeleteTimer(p)) /\ WF_timerVars(FlushCancel(p))
    /\ SF_timerVars(Poll /\ loop'.at = "poll")
    /\ WF_timerVars(PollScan) /\ WF_timerVars(PollAdd) /\ WF_timerVars(PollEnd)
    /\ WF_timerVars(StopReturns) /\ SF_timerVars(LoopReturns)

FairSpec == Spec /\ Fairness

\* A timer that is stored and falls due is handed to the engine, unless the
\* engine cancels it or the manager is stopped: neither the poll horizon nor a
\* failed run of the timer lets it be forgotten.
DueTimersFire ==
    \A t \in Timer :
        timerState[t] = "created" /\ dueAt[t] <= MaxTime
          ~> \/ loop.at = "process" /\ loop.timer = t
             \/ timerState[t] # "created"
             \/ stopped # "no"
=============================================================================
