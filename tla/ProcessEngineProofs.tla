------------------------ MODULE ProcessEngineProofs -------------------------
(***************************************************************************)
(* Proofs about ProcessEngine, for every process definition, every set of  *)
(* clients and every bound: an instance that has ended stays ended, and    *)
(* one path is taken behind an event-based gateway.                        *)
(*                                                                         *)
(* A step of the main loop saves the instance without reading it again, so *)
(* the first property rests on the loop having no token left once the      *)
(* instance has ended, and that on nobody but the owner of the lock being  *)
(* in the loop: these two facts are the invariant EngineInv.               *)
(*                                                                         *)
(* The second is about rows that are written by two batches, one when the  *)
(* gateway is reached and one when an event comes.  In between, the token  *)
(* of the gateway must not be moved by anything else: PathInv says that it *)
(* waits, has no job and no incident, and is carried by no goroutine, and  *)
(* that a call which is about to handle one of its events knows it.        *)
(***************************************************************************)
EXTENDS ProcessEngine, TLAPS, FiniteSetTheorems, SequenceTheorems

DbFields   == {"instance", "token", "job", "sub", "incident"}
ProcFields == {"pc", "op", "arg", "node", "at", "tokens", "failed"}

\* The database and the goroutines have their fields.
Shape ==
    /\ DOMAIN db = DbFields
    /\ DOMAIN proc = Proc
    /\ \A p \in Proc : DOMAIN proc[p] = ProcFields

\* Only the goroutine that holds the lock is in the main loop.
LoopOwnsLock == \A p \in Proc : proc[p].pc = "loop" => lock = p

\* A goroutine in the main loop of an ended instance has nothing left to run.
EndedLoopIsEmpty ==
    Ended => \A p \in Proc : proc[p].pc = "loop" => proc[p].tokens = <<>>

EngineInv == Shape /\ LoopOwnsLock /\ EndedLoopIsEmpty

-----------------------------------------------------------------------------
\* The writes to a batch keep its fields, and all but WriteTokenIncident leave
\* the state of the instance alone.
LEMMA WritesKeepFields ==
    ASSUME NEW b, DOMAIN b = DbFields, NEW x, NEW y, NEW z
    PROVE  /\ DOMAIN SaveTokens(b, x) = DbFields
           /\ SaveTokens(b, x).instance = b.instance
           /\ DOMAIN SaveJob(b, x, y) = DbFields
           /\ DOMAIN Subscribe(b, x, y) = DbFields
           /\ DOMAIN SetSubs(b, x, y) = DbFields
           /\ DOMAIN SetJobs(b, x, y) = DbFields
           /\ SetJobs(b, x, y).instance = b.instance
           /\ DOMAIN ResolveIncidents(b, x) = DbFields
           /\ DOMAIN CancelTokens(b, x) = DbFields
           /\ DOMAIN WriteTokenIncident(b, x) = DbFields
           /\ WriteTokenIncident(b, x).instance = "failed"
BY DEF SaveTokens, SaveJob, Subscribe, SetSubs, SetJobs, ResolveIncidents, CancelTokens,
       WriteTokenIncident, DbFields

\* So do the batches of handleProcessInstanceInnerCancel, cut short or not.
LEMMA CancelsKeepFields ==
    ASSUME DOMAIN db = DbFields
    PROVE  /\ \A i \in 1..5 : DOMAIN CancelledWork[i] = DbFields
           /\ \A omit : DOMAIN InnerCancel(omit) = DbFields
           /\ \A b \in CutShort : DOMAIN b = DbFields
<1> DEFINE messages  == SetSubs(db, ActiveMessages, "terminated")
           timers    == SetSubs(db, ActiveSubs, "terminated")
           jobs      == SetJobs(timers, PendingJobs, "terminated")
           incidents == ResolveIncidents(jobs, DOMAIN db.incident)
<1>1. /\ DOMAIN messages = DbFields
      /\ DOMAIN timers = DbFields
  BY WritesKeepFields
<1>2. DOMAIN jobs = DbFields
  <2> HIDE DEF timers
  <2> QED BY <1>1, WritesKeepFields
<1>3. DOMAIN incidents = DbFields
  <2> HIDE DEF jobs
  <2> QED BY <1>2, WritesKeepFields
<1>4. CancelledWork = <<db, messages, timers, jobs, incidents>>
  BY DEF CancelledWork
<1> HIDE DEF messages, timers, jobs, incidents
<1>5. \A i \in 1..5 : DOMAIN CancelledWork[i] = DbFields
  BY <1>1, <1>2, <1>3, <1>4
<1>6. ASSUME NEW K PROVE DOMAIN CancelTokens(CancelledWork[5], K) = DbFields
  BY <1>5, WritesKeepFields
<1>7. ASSUME NEW omit PROVE DOMAIN InnerCancel(omit) = DbFields
  BY <1>6 DEF InnerCancel
<1>8. ASSUME NEW b \in CutShort PROVE DOMAIN b = DbFields
  <2>1. CASE \E i \in 1..4 : b = CancelledWork[i]
    BY <2>1, <1>5
  <2>2. CASE \E K : b = CancelTokens(CancelledWork[5], K)
    BY <2>2, <1>6
  <2>3. QED BY <2>1, <2>2 DEF CutShort
<1>9. QED BY <1>5, <1>7, <1>8

\* Every outcome of a node is a batch with the fields of the database.
LEMMA OutcomesKeepFields ==
    ASSUME DOMAIN db = DbFields, NEW t, NEW r \in ProcessFlowNode(t)
    PROVE  DOMAIN r.b = DbFields
<1>1. ASSUME NEW b, NEW toks, DOMAIN b = DbFields PROVE DOMAIN Outcome(b, toks).b = DbFields
  BY <1>1 DEF Outcome
<1>2. CASE r \in CreateJob(t)
  <2>1. DOMAIN Subscribe(SaveJob(db, t, "active"), t, Boundary[t.at]) = DbFields
    BY WritesKeepFields
  <2>2. DOMAIN SaveJob(db, t, "completed") = DbFields
    BY WritesKeepFields
  <2>3. QED BY <1>1, <1>2, <2>1, <2>2 DEF CreateJob
<1>3. CASE r \in CatchEvent(t)
  BY <1>1, <1>3, WritesKeepFields DEF CatchEvent
<1>4. CASE r \in HandleEventBasedGateway(t)
  BY <1>1, <1>4, WritesKeepFields DEF HandleEventBasedGateway
<1>5. CASE r \in HandleTerminateEndEvent(t)
  BY <1>5, CancelsKeepFields DEF HandleTerminateEndEvent
<1>6. CASE \E toks : r = Outcome(db, toks)
  BY <1>1, <1>6
<1>7. r \in {Outcome(db, Transition(t.at, t.key))} => \E toks : r = Outcome(db, toks)
  OBVIOUS
<1>8. r \in ThrowLink(t) => \E toks : r = Outcome(db, toks)
  BY DEF ThrowLink
<1>9. r \in HandleExclusiveGateway(t) => \E toks : r = Outcome(db, toks)
  BY DEF HandleExclusiveGateway
<1>10. r \in HandleInclusiveGateway(t) => \E toks : r = Outcome(db, toks)
  BY DEF HandleInclusiveGateway
<1>11. r \in HandleParallelGateway(t) => \E toks : r = Outcome(db, toks)
  BY DEF HandleParallelGateway
<1>12. CASE r \in HandlePlainEndEvent(t)
  BY <1>12 DEF HandlePlainEndEvent
<1>13. QED
  BY <1>2, <1>3, <1>4, <1>5, <1>6, <1>7, <1>8, <1>9, <1>10, <1>11, <1>12 DEF ProcessFlowNode

\* What a message or a timer does to the batch keeps the fields.
LEMMA PublishesKeepFields ==
    ASSUME DOMAIN db = DbFields, NEW n, NEW s
    PROVE  /\ DOMAIN PublishEventOnEventGateway(n, s).b = DbFields
           /\ DOMAIN PublishOnListener(n, s).b = DbFields
           /\ DOMAIN FireBoundaryMessage(n, s).b = DbFields
           /\ DOMAIN FireBoundaryTimer(n, s).b = DbFields
<1> DEFINE done == SetSubs(db, {s}, "completed")
           k    == db.sub[s].token
<1>1. DOMAIN done = DbFields
  BY WritesKeepFields
<1> HIDE DEF done
<1>2. DOMAIN Interrupt(n, s).b = DbFields
  <2>1. DOMAIN CancelJobs(done, k) = DbFields
    BY <1>1, WritesKeepFields DEF CancelJobs
  <2>2. DOMAIN CancelBoundarySubscriptions(CancelJobs(done, k), k) = DbFields
    BY <2>1, WritesKeepFields DEF CancelBoundarySubscriptions
  <2>3. QED BY <2>2 DEF Interrupt, done
<1>3. DOMAIN PublishEventOnEventGateway(n, s).b = DbFields
  <2>1. DOMAIN SetSubs(done, TokenSubs(k) \ {s}, "terminated") = DbFields
    BY <1>1, WritesKeepFields
  <2>2. QED BY <2>1 DEF PublishEventOnEventGateway, done
<1>4. DOMAIN PublishOnListener(n, s).b = DbFields
  BY <1>1 DEF PublishOnListener, done
<1>5. ASSUME NEW t, NEW e PROVE DOMAIN Subscribe(done, t, e) = DbFields
  BY <1>1, WritesKeepFields
<1>6. ASSUME NEW t, NEW e, NEW toks PROVE DOMAIN SaveTokens(Subscribe(done, t, e), toks) = DbFields
  BY <1>5, WritesKeepFields
<1>7. DOMAIN FireBoundaryMessage(n, s).b = DbFields
  BY <1>2, <1>6 DEF FireBoundaryMessage, done
<1>8. DOMAIN FireBoundaryTimer(n, s).b = DbFields
  BY <1>2, <1>5 DEF FireBoundaryTimer, done
<1>9. QED BY <1>3, <1>4, <1>7, <1>8

-----------------------------------------------------------------------------
\* A step that takes one goroutine out of the main loop, or leaves it out of it,
\* keeps the invariant if no other goroutine is in the loop, or if it neither
\* touches the lock nor ends the instance.
LEMMA OutOfLoop ==
    ASSUME EngineInv, NEW p \in Proc, NEW x,
           DOMAIN x = ProcFields, x.pc # "loop",
           proc' = [proc EXCEPT ![p] = x],
           DOMAIN db' = DbFields,
           \/ \A q \in Proc \ {p} : proc[q].pc # "loop"
           \/ lock' = lock /\ (Ended' => Ended)
    PROVE  EngineInv'
<1>1. /\ DOMAIN proc' = Proc
      /\ proc'[p] = x
      /\ \A q \in Proc \ {p} : proc'[q] = proc[q]
  BY DEF EngineInv, Shape
<1>2. Shape'
  BY <1>1 DEF EngineInv, Shape
<1>3. CASE \A q \in Proc \ {p} : proc[q].pc # "loop"
  <2>1. \A q \in Proc : proc'[q].pc # "loop"
    BY <1>1, <1>3
  <2>2. QED BY <1>2, <2>1 DEF EngineInv, LoopOwnsLock, EndedLoopIsEmpty
<1>4. CASE lock' = lock /\ (Ended' => Ended)
  BY <1>1, <1>2, <1>4 DEF EngineInv, LoopOwnsLock, EndedLoopIsEmpty
<1>5. QED BY <1>3, <1>4

\* While the lock is free, or leaked, nobody is in the main loop.
LEMMA FreeMeansNoLoop ==
    ASSUME EngineInv, lock = NoOne
    PROVE  \A p \in Proc : proc[p].pc # "loop"
BY EngineAssumption DEF EngineInv, LoopOwnsLock

\* The two records that a goroutine is given when it leaves a call.
LEMMA Records ==
    /\ DOMAIN Idle = ProcFields
    /\ Idle.pc = "idle"
    /\ \A toks : LET x == [Idle EXCEPT !.pc = "run", !.tokens = toks]
                 IN  DOMAIN x = ProcFields /\ x.pc = "run"
BY DEF Idle, ProcFields

\* A failed flush leaves the instance as it was.
LEMMA LostTimersKeepInstance ==
    ASSUME DOMAIN db = DbFields, NEW b
    PROVE  DOMAIN LostTimers(b) = DbFields /\ LostTimers(b).instance = db.instance
<1>1. ASSUME NEW lost
      PROVE  LET d == [db EXCEPT !.sub = lost] IN DOMAIN d = DbFields /\ d.instance = db.instance
  BY DEF DbFields
<1>2. PICK lost : LostTimers(b) = IF StaleTimers THEN [db EXCEPT !.sub = lost] ELSE db
  BY DEF LostTimers
<1>3. QED BY <1>1, <1>2

\* Returning, and going on to RunProcessInstance, as OutOfLoop wants it.
LEMMA Leaving ==
    ASSUME NEW p \in Proc, NEW toks, Return(p) \/ ThenRun(p, toks)
    PROVE  \E x : DOMAIN x = ProcFields /\ x.pc # "loop" /\ proc' = [proc EXCEPT ![p] = x]
<1>1. CASE Return(p)
  BY <1>1, Records DEF Return
<1>2. CASE ThenRun(p, toks)
  BY <1>2, Records DEF ThenRun
<1>3. QED BY <1>1, <1>2

\* A call that ends with a flush, while the lock is free.
LEMMA FlushKeepsInv ==
    ASSUME EngineInv, lock = NoOne, NEW p \in Proc, NEW b, NEW toks, DOMAIN b = DbFields,
           FlushAndReturn(p, b) \/ FlushAndRun(p, b, toks)
    PROVE  EngineInv'
<1>1. Return(p) \/ ThenRun(p, toks)
  BY DEF FlushAndReturn, FlushAndRun
<1>2. DOMAIN db' = DbFields
  <2>1. db' = b \/ db' = LostTimers(b)
    BY DEF FlushAndReturn, FlushAndRun, FlushFails
  <2>2. QED BY <2>1, LostTimersKeepInstance DEF EngineInv, Shape
<1>3. \A q \in Proc \ {p} : proc[q].pc # "loop"
  BY FreeMeansNoLoop
<1>4. PICK x : DOMAIN x = ProcFields /\ x.pc # "loop" /\ proc' = [proc EXCEPT ![p] = x]
  BY <1>1, Leaving
<1>5. QED BY <1>2, <1>3, <1>4, OutOfLoop

\* A call that returns while the lock is free, whatever it did to the rows or to
\* the lock.
LEMMA RefuseKeepsInv ==
    ASSUME EngineInv, lock = NoOne, NEW p \in Proc, Return(p), DOMAIN db' = DbFields
    PROVE  EngineInv'
<1>1. \A q \in Proc \ {p} : proc[q].pc # "loop"
  BY FreeMeansNoLoop
<1>2. QED BY <1>1, OutOfLoop, Records DEF Return

-----------------------------------------------------------------------------
\* What every step has to do: keep the invariant, and leave an ended instance
\* ended.
Good == EngineInv' /\ (Ended => db'.instance = db.instance)

\* Starting a call, before the lock, moves one goroutine only.
LEMMA CallIsGood ==
    ASSUME EngineInv, NEW p \in Proc, NEW op, NEW arg, NEW n, Call(p, op, arg, n)
    PROVE  Good
<1>1. PICK at : proc' = [proc EXCEPT ![p] = [Idle EXCEPT !.pc = "lock", !.op = op, !.arg = arg,
                                                         !.node = n, !.at = at]]
  BY DEF Call
<1>2. /\ DOMAIN [Idle EXCEPT !.pc = "lock", !.op = op, !.arg = arg, !.node = n, !.at = at]
           = ProcFields
      /\ [Idle EXCEPT !.pc = "lock", !.op = op, !.arg = arg, !.node = n, !.at = at].pc = "lock"
  BY DEF Idle, ProcFields
<1>3. db' = db /\ lock' = lock
  BY DEF Call
<1>4. EngineInv'
  BY <1>1, <1>2, <1>3, OutOfLoop DEF EngineInv, Shape, Ended
<1>5. QED BY <1>3, <1>4 DEF Good

\* So for the calls of the clients ...
LEMMA ClientCallsIsGood ==
    ASSUME EngineInv, NEW c \in Client, ClientCalls(c)
    PROVE  Good
<1>1. PICK op, arg, n : Call(c, op, arg, n)
  BY DEF ClientCalls
<1>2. QED BY <1>1, CallIsGood DEF Proc

\* ... and for the timer loop.
LEMMA TimerFiresIsGood ==
    ASSUME EngineInv, TimerFires
    PROVE  Good
<1>1. PICK s, n : Call(TimerLoop, "timer", s, n)
  BY DEF TimerFires
<1>2. QED BY <1>1, CallIsGood DEF Proc

\* CreateInstance takes no lock, but then there is no instance yet.
LEMMA CreateInstanceIsGood ==
    ASSUME EngineInv, NEW c \in Client, CreateInstance(c)
    PROVE  Good
<1> DEFINE toks == [i \in DOMAIN StartEvents |-> Token(Fresh(i), StartEvents[i], "running")]
           new  == [db EXCEPT !.instance = "ready"]
           b    == SaveTokens(new, toks)
<1>1. /\ FlushAndRun(c, b, toks)
      /\ db.instance = "none"
      /\ lock' = lock
  BY DEF CreateInstance
<1>2. DOMAIN new = DbFields /\ new.instance = "ready"
  BY DEF EngineInv, Shape, DbFields
<1> HIDE DEF toks, new
<1>3. DOMAIN b = DbFields /\ b.instance = "ready"
  BY <1>2, WritesKeepFields
<1>4. /\ db' = b \/ db' = LostTimers(b)
      /\ Return(c) \/ ThenRun(c, toks)
  BY <1>1 DEF FlushAndRun, FlushFails
<1>5. DOMAIN db' = DbFields /\ db'.instance \in {"none", "ready"}
  BY <1>1, <1>3, <1>4, LostTimersKeepInstance DEF EngineInv, Shape
<1>6. PICK x : DOMAIN x = ProcFields /\ x.pc # "loop" /\ proc' = [proc EXCEPT ![c] = x]
  BY <1>4, Leaving DEF Proc
<1>7. ~Ended' /\ ~Ended
  BY <1>1, <1>5 DEF Ended
<1>8. EngineInv'
  BY <1>1, <1>5, <1>6, <1>7, OutOfLoop DEF Proc
<1>9. QED BY <1>7, <1>8 DEF Good

\* The calls that hold the lock look at the instance first: one that has ended
\* makes them return.
LEMMA RefuseIsGood ==
    ASSUME EngineInv, NEW p \in Proc, lock = NoOne, Refuse(p)
    PROVE  Good
BY RefuseKeepsInv DEF Refuse, Good, EngineInv, Shape

\* A call that has found the instance not ended may flush what it likes.
LEMMA FlushIsGood ==
    ASSUME EngineInv, NEW p \in Proc, lock = NoOne, ~Ended, NEW b, NEW toks, DOMAIN b = DbFields,
           FlushAndReturn(p, b) \/ FlushAndRun(p, b, toks)
    PROVE  Good
BY FlushKeepsInv DEF Good

\* JobCompleteByKey reads the instance under the lock before it writes.
LEMMA JobCompleteIsGood ==
    ASSUME EngineInv, NEW c \in Client, JobCompleteByKey(c)
    PROVE  Good
<1> DEFINE j == proc[c].arg
           k == db.job[j].token
           toks == Transition(At(k), k)
           subs == CancelBoundarySubscriptions(db, k)
           moved == SaveTokens(subs, toks)
           b == SetJobs(moved, {j}, "completed")
<1>1. c \in Proc /\ lock = NoOne
  BY DEF JobCompleteByKey, Handles, Proc
<1>2. DOMAIN subs = DbFields
  BY WritesKeepFields DEF CancelBoundarySubscriptions, EngineInv, Shape
<1>3. DOMAIN moved = DbFields
  <2> HIDE DEF subs
  <2> QED BY <1>2, WritesKeepFields
<1>4. DOMAIN b = DbFields
  <2> HIDE DEF moved
  <2> QED BY <1>3, WritesKeepFields
<1>5. DOMAIN [b EXCEPT !.instance = "completed"] = DbFields
  <2> HIDE DEF b
  <2> QED BY <1>4
<1>6. \/ Refuse(c)
      \/ ~Ended /\ FlushAndRun(c, b, toks)
      \/ ~Ended /\ FlushAndReturn(c, IF Drained(TRUE) THEN [b EXCEPT !.instance = "completed"] ELSE b)
  BY DEF JobCompleteByKey
<1> HIDE DEF b, toks
<1>7. QED BY <1>1, <1>4, <1>5, <1>6, RefuseIsGood, FlushIsGood

\* So does JobFailByKey.
LEMMA JobFailIsGood ==
    ASSUME EngineInv, NEW c \in Client, JobFailByKey(c)
    PROVE  Good
<1> DEFINE j == proc[c].arg
           k == db.job[j].token
           failed == SetJobs(db, {j}, "failed")
           b == WriteTokenIncident(failed, Token(k, At(k), "failed"))
<1>1. c \in Proc /\ lock = NoOne
  BY DEF JobFailByKey, Handles, Proc
<1>2. DOMAIN failed = DbFields
  BY WritesKeepFields DEF EngineInv, Shape
<1>3. DOMAIN b = DbFields
  <2> HIDE DEF failed
  <2> QED BY <1>2, WritesKeepFields
<1>4. Refuse(c) \/ (~Ended /\ FlushAndReturn(c, b))
  BY DEF JobFailByKey
<1> HIDE DEF b
<1>5. QED BY <1>1, <1>3, <1>4, RefuseIsGood, FlushIsGood

\* So does PublishMessage, for each kind of node the subscription is for.
LEMMA PublishMessageIsGood ==
    ASSUME EngineInv, NEW c \in Client, PublishMessage(c)
    PROVE  Good
<1> DEFINE s == proc[c].arg
           failed == SetSubs(db, {s}, "failed")
           b == [failed EXCEPT !.instance = "failed"]
<1>1. c \in Proc /\ lock = NoOne /\ DOMAIN db = DbFields
  BY DEF PublishMessage, Handles, Proc, EngineInv, Shape
<1>2. DOMAIN failed = DbFields
  BY <1>1, WritesKeepFields
<1>3. DOMAIN b = DbFields
  <2> HIDE DEF failed
  <2> QED BY <1>2
<1>4. \/ Refuse(c)
      \/ /\ ~Ended
         /\ \/ FlushAndReturn(c, b)
            \/ \E n : \/ FlushAndRun(c, PublishEventOnEventGateway(n, s).b,
                                        PublishEventOnEventGateway(n, s).tokens)
                      \/ FlushAndRun(c, PublishOnListener(n, s).b, PublishOnListener(n, s).tokens)
                      \/ FlushAndRun(c, FireBoundaryMessage(n, s).b,
                                        FireBoundaryMessage(n, s).tokens)
  BY DEF PublishMessage
<1> HIDE DEF b, s
<1>5. QED BY <1>1, <1>3, <1>4, RefuseIsGood, FlushIsGood, PublishesKeepFields

\* TriggerTimer may leave the lock with nobody, but not with a goroutine in the
\* loop.
LEMMA TriggerTimerIsGood ==
    ASSUME EngineInv, TriggerTimer
    PROVE  Good
<1> DEFINE s == proc[TimerLoop].arg
<1>1. TimerLoop \in Proc /\ lock = NoOne /\ DOMAIN db = DbFields
  BY DEF TriggerTimer, Handles, Proc, EngineInv, Shape
<1>2. \/ Refuse(TimerLoop)
      \/ ~Ended /\ FlushFails(db) /\ Return(TimerLoop)
      \/ /\ ~Ended
         /\ \E n : \/ FlushAndRun(TimerLoop, PublishEventOnEventGateway(n, s).b,
                                             PublishEventOnEventGateway(n, s).tokens)
                   \/ FlushAndRun(TimerLoop, PublishOnListener(n, s).b,
                                             PublishOnListener(n, s).tokens)
                   \/ FlushAndRun(TimerLoop, FireBoundaryTimer(n, s).b,
                                             FireBoundaryTimer(n, s).tokens)
  BY DEF TriggerTimer
<1>3. CASE ~Ended /\ FlushFails(db) /\ Return(TimerLoop)
  <2>1. DOMAIN db' = DbFields
    BY <1>1, <1>3, LostTimersKeepInstance DEF FlushFails
  <2>2. QED BY <1>1, <1>3, <2>1, RefuseKeepsInv DEF Good
<1> HIDE DEF s
<1>4. QED BY <1>1, <1>2, <1>3, RefuseIsGood, FlushIsGood, PublishesKeepFields

\* ResolveIncident sets the instance to active, but never an ended one.
LEMMA ResolveIncidentIsGood ==
    ASSUME EngineInv, NEW c \in Client, ResolveIncident(c)
    PROVE  Good
<1> DEFINE i == proc[c].arg
           k == db.incident[i].token
           jobs == {j \in PendingJobs : db.job[j].token = k}
           t == Token(k, At(k), IF jobs = {} THEN "running" ELSE "waiting")
           first == {j \in jobs : \A h \in jobs : j <= h}
           resolved == ResolveIncidents(db, {i})
           moved == SaveTokens(resolved, <<t>>)
           b == SetJobs(moved, first, "active")
           new == [b EXCEPT !.instance = "active"]
<1>1. c \in Proc /\ lock = NoOne /\ DOMAIN db = DbFields
  BY DEF ResolveIncident, Handles, Proc, EngineInv, Shape
<1>2. Refuse(c) \/ (~Ended /\ FlushAndRun(c, new, <<t>>))
  BY DEF ResolveIncident
<1> HIDE DEF t, first
<1>3. DOMAIN resolved = DbFields
  BY <1>1, WritesKeepFields
<1> HIDE DEF resolved
<1>4. DOMAIN moved = DbFields
  BY <1>3, WritesKeepFields
<1> HIDE DEF moved
<1>5. DOMAIN b = DbFields
  BY <1>4, WritesKeepFields
<1> HIDE DEF b
<1>6. DOMAIN new = DbFields
  BY <1>5
<1> HIDE DEF new
<1>7. QED BY <1>1, <1>2, <1>6, RefuseIsGood, FlushIsGood

\* Cancelling ends an instance, with all of its work cancelled or a part of it.
LEMMA CancelInstanceIsGood ==
    ASSUME EngineInv, NEW c \in Client, CancelInstance(c)
    PROVE  Good
<1>1. c \in Proc /\ lock = NoOne /\ DOMAIN db = DbFields
  BY DEF CancelInstance, Handles, Proc, EngineInv, Shape
<1>2. ASSUME NEW b, DOMAIN b = DbFields
      PROVE  DOMAIN [b EXCEPT !.instance = "terminated"] = DbFields
  BY <1>2
<1>3. CASE Ended /\ Refuse(c)
  BY <1>1, <1>3, RefuseIsGood
<1>4. CASE ~Ended /\ FlushAndReturn(c, [InnerCancel({}) EXCEPT !.instance = "terminated"])
  <2>1. DOMAIN [InnerCancel({}) EXCEPT !.instance = "terminated"] = DbFields
    BY <1>1, <1>2, CancelsKeepFields
  <2>2. QED BY <1>1, <1>4, <2>1, FlushIsGood
<1>5. CASE /\ ~Ended
           /\ \E b \in CutShort : db' = [b EXCEPT !.instance = "terminated"]
           /\ Return(c)
  <2>1. DOMAIN db' = DbFields
    BY <1>1, <1>2, <1>5, CancelsKeepFields
  <2>2. QED BY <1>1, <1>5, <2>1, RefuseKeepsInv DEF Good
<1>6. QED BY <1>3, <1>4, <1>5 DEF CancelInstance

\* ModifyInstance leaves the state of the instance alone.
LEMMA ModifyInstanceIsGood ==
    ASSUME EngineInv, NEW c \in Client, ModifyInstance(c)
    PROVE  Good
<1> DEFINE hit  == {k \in ActiveTokens : k = proc[c].arg /\ At(k) = proc[c].at}
           jobs == {j \in PendingJobs : db.job[j].token \in hit}
           incs == {i \in DOMAIN db.incident : db.incident[i].token \in hit}
           subs == SetSubs(db, UNION {TokenSubs(k) : k \in hit}, "terminated")
           done == SetJobs(subs, jobs, "terminated")
           b    == ResolveIncidents(done, incs)
<1>1. c \in Proc /\ lock = NoOne /\ DOMAIN db = DbFields
  BY DEF ModifyInstance, Handles, Proc, EngineInv, Shape
<1>2. Refuse(c) \/ (~Ended /\ \E new, toks : FlushAndRun(c, SaveTokens(b, new), toks))
  BY DEF ModifyInstance
<1>3. DOMAIN subs = DbFields
  BY <1>1, WritesKeepFields
<1> HIDE DEF subs, jobs, incs
<1>4. DOMAIN done = DbFields
  BY <1>3, WritesKeepFields
<1> HIDE DEF done
<1>5. DOMAIN b = DbFields
  BY <1>4, WritesKeepFields
<1> HIDE DEF b
<1>6. ASSUME NEW new PROVE DOMAIN SaveTokens(b, new) = DbFields
  BY <1>5, WritesKeepFields
<1>7. QED BY <1>1, <1>2, <1>6, RefuseIsGood, FlushIsGood

\* JobAssignByKey writes without the lock, but only a job.
LEMMA JobAssignIsGood ==
    ASSUME EngineInv, NEW c \in Client, JobAssignReads(c) \/ JobAssignWrites(c)
    PROVE  Good
<1>1. c \in Proc /\ DOMAIN db = DbFields /\ lock' = lock
  BY DEF JobAssignReads, JobAssignWrites, Proc, EngineInv, Shape
<1>2. CASE JobAssignReads(c)
  <2>1. PICK j : proc' = [proc EXCEPT ![c] = [Idle EXCEPT !.pc = "assign", !.arg = j,
                                                          !.node = db.job[j].state]]
    BY <1>2 DEF JobAssignReads
  <2>2. LET x == [Idle EXCEPT !.pc = "assign", !.arg = j, !.node = db.job[j].state]
        IN  DOMAIN x = ProcFields /\ x.pc = "assign"
    BY DEF Idle, ProcFields
  <2>3. db' = db
    BY <1>2 DEF JobAssignReads
  <2>4. EngineInv'
    BY <1>1, <2>1, <2>2, <2>3, OutOfLoop DEF Ended
  <2>5. QED BY <2>3, <2>4 DEF Good
<1>3. CASE JobAssignWrites(c)
  <2>1. DOMAIN db' = DbFields /\ db'.instance = db.instance
    BY <1>1, <1>3, WritesKeepFields DEF JobAssignWrites
  <2>2. proc' = [proc EXCEPT ![c] = Idle]
    BY <1>3 DEF JobAssignWrites, Return
  <2>3. EngineInv'
    BY <1>1, <2>1, <2>2, Records, OutOfLoop DEF Ended
  <2>4. QED BY <2>1, <2>3 DEF Good
<1>4. QED BY <1>2, <1>3

-----------------------------------------------------------------------------
\* A goroutine may go on in the main loop with any tokens, but with none once
\* the instance has ended.
LEMMA InsideLoop ==
    ASSUME EngineInv, NEW p \in Proc, NEW x,
           DOMAIN x = ProcFields, x.pc = "loop",
           proc' = [proc EXCEPT ![p] = x],
           lock' = p, \A q \in Proc \ {p} : proc[q].pc # "loop",
           DOMAIN db' = DbFields,
           Ended' => x.tokens = <<>>
    PROVE  EngineInv'
<1>1. /\ DOMAIN proc' = Proc
      /\ proc'[p] = x
      /\ \A q \in Proc \ {p} : proc'[q] = proc[q]
  BY DEF EngineInv, Shape
<1>2. Shape'
  BY <1>1 DEF EngineInv, Shape
<1>3. QED BY <1>1, <1>2 DEF EngineInv, LoopOwnsLock, EndedLoopIsEmpty

\* RunProcessInstance reads the instance again under the lock before it makes it
\* active.
LEMMA RunBeginsIsGood ==
    ASSUME EngineInv, NEW p \in Proc, RunBegins(p)
    PROVE  Good
<1>1. lock = NoOne /\ DOMAIN db = DbFields /\ DOMAIN proc[p] = ProcFields
  BY DEF RunBegins, EngineInv, Shape
<1>2. CASE Refuse(p)
  BY <1>1, <1>2, RefuseIsGood
<1>3. CASE /\ ~Ended
           /\ lock' = p
           /\ db' = [db EXCEPT !.instance = "active"]
           /\ proc' = [proc EXCEPT ![p].pc = "loop"]
  <2> DEFINE x == [proc[p] EXCEPT !.pc = "loop"]
  <2>1. DOMAIN x = ProcFields /\ x.pc = "loop"
    BY <1>1 DEF ProcFields
  <2>2. proc' = [proc EXCEPT ![p] = x]
    BY <1>3 DEF EngineInv, Shape
  <2>3. DOMAIN db' = DbFields /\ ~Ended'
    BY <1>1, <1>3 DEF DbFields, Ended
  <2> HIDE DEF x
  <2>4. EngineInv'
    BY <1>1, <1>3, <2>1, <2>2, <2>3, FreeMeansNoLoop, InsideLoop
  <2>5. QED BY <1>3, <2>4 DEF Good
<1>4. CASE ~Ended /\ FlushFails(db) /\ Return(p)
  <2>1. DOMAIN db' = DbFields
    BY <1>1, <1>4, LostTimersKeepInstance DEF FlushFails
  <2>2. QED BY <1>1, <1>4, <2>1, RefuseKeepsInv DEF Good
<1>5. QED BY <1>2, <1>3, <1>4 DEF RunBegins

\* The heart of the argument: the loop saves the instance as it likes, but it
\* has tokens, so the instance has not ended; and when it ends now, the loop
\* drops its tokens.
LEMMA RunStepIsGood ==
    ASSUME EngineInv, NEW p \in Proc, RunStep(p)
    PROVE  Good
<1> DEFINE t    == Head(proc[p].tokens)
           rest == Tail(proc[p].tokens)
           errs == proc[p].failed
           after(toks, e) == proc' = [proc EXCEPT ![p].tokens = toks, ![p].failed = e]
           stateOf(r) == IF errs THEN "failed" ELSE IF r.ends THEN "completed" ELSE "active"
           saved(r) == [r.b EXCEPT !.instance = stateOf(r)]
           bOf(r)   == SaveTokens(saved(r), r.tokens)
           moreOf(r) == IF stateOf(r) = "completed" THEN <<>> ELSE rest \o Running(r.tokens)
<1>1. /\ DOMAIN db = DbFields /\ DOMAIN proc[p] = ProcFields
      /\ proc[p].pc = "loop" /\ proc[p].tokens # <<>>
      /\ lock = p /\ lock' = lock
  BY DEF RunStep, EngineInv, Shape, LoopOwnsLock
<1>2. ~Ended
  BY <1>1 DEF EngineInv, EndedLoopIsEmpty
<1>3. \A q \in Proc \ {p} : proc[q].pc # "loop"
  BY <1>1 DEF EngineInv, LoopOwnsLock
<1>4. ASSUME NEW toks, NEW e, after(toks, e), DOMAIN db' = DbFields, Ended' => toks = <<>>
      PROVE  Good
  <2> DEFINE x == [proc[p] EXCEPT !.tokens = toks, !.failed = e]
  <2>1. DOMAIN x = ProcFields /\ x.pc = "loop" /\ x.tokens = toks
    BY <1>1 DEF ProcFields
  <2>2. proc' = [proc EXCEPT ![p] = x]
    BY <1>4 DEF EngineInv, Shape
  <2> HIDE DEF x
  <2>3. EngineInv'
    BY <1>1, <1>3, <1>4, <2>1, <2>2, InsideLoop
  <2>4. QED BY <1>2, <2>3 DEF Good
<1>5. ASSUME NEW d, db' = LostTimers(d) \/ db' = db
      PROVE  DOMAIN db' = DbFields /\ ~Ended'
  BY <1>1, <1>2, <1>5, LostTimersKeepInstance DEF Ended
<1>6. ASSUME NEW d, DOMAIN d = DbFields, db' = WriteTokenIncident(d, t)
      PROVE  DOMAIN db' = DbFields /\ ~Ended'
  <2> HIDE DEF t
  <2> QED BY <1>6, WritesKeepFields DEF Ended
<1>7. ASSUME NEW d PROVE DOMAIN LostTimers(d) = DbFields
  BY <1>1, LostTimersKeepInstance
<1>8. ASSUME NEW r \in ProcessFlowNode(t)
      PROVE  DOMAIN bOf(r) = DbFields /\ bOf(r).instance = stateOf(r)
  <2>1. DOMAIN r.b = DbFields
    BY <1>1, OutcomesKeepFields
  <2>2. DOMAIN saved(r) = DbFields /\ saved(r).instance = stateOf(r)
    <3> HIDE DEF stateOf
    <3> QED BY <2>1 DEF DbFields
  <2> HIDE DEF saved, stateOf
  <2>3. QED BY <2>2, WritesKeepFields
<1>9. CASE \E r \in ProcessFlowNode(t) : db' = bOf(r) /\ after(moreOf(r), errs)
  <2>1. PICK r \in ProcessFlowNode(t) : db' = bOf(r) /\ after(moreOf(r), errs)
    BY <1>9
  <2>2. DOMAIN db' = DbFields /\ db'.instance = stateOf(r)
    BY <1>8, <2>1
  <2>3. Ended' => moreOf(r) = <<>>
    BY <2>2 DEF Ended
  <2> HIDE DEF bOf, moreOf, stateOf
  <2>4. QED BY <1>4, <2>1, <2>2, <2>3
<1>10. CASE \E d, toks : FlushFails(d) /\ after(toks, TRUE)
  BY <1>4, <1>5, <1>10 DEF FlushFails
<1>11. CASE \E d, toks : DOMAIN d = DbFields /\ db' = WriteTokenIncident(d, t) /\ after(toks, TRUE)
  BY <1>4, <1>6, <1>11
<1>12. CASE \E d, toks : (db' = LostTimers(d) \/ db' = db) /\ after(toks, TRUE)
  BY <1>4, <1>5, <1>12
<1>13. CASE /\ \E b \in CutShort :
                  db' = SaveTokens([b EXCEPT !.instance = IF errs THEN "failed" ELSE "completed"],
                                   Complete(t))
            /\ after(IF errs THEN rest ELSE <<>>, errs)
  <2>1. PICK b \in CutShort :
           db' = SaveTokens([b EXCEPT !.instance = IF errs THEN "failed" ELSE "completed"], Complete(t))
    BY <1>13
  <2> DEFINE s == IF errs THEN "failed" ELSE "completed"
             d == [b EXCEPT !.instance = s]
  <2>2. DOMAIN b = DbFields
    BY <1>1, CancelsKeepFields
  <2>3. DOMAIN d = DbFields /\ d.instance = s
    <3> HIDE DEF s
    <3> QED BY <2>2 DEF DbFields
  <2>4. DOMAIN db' = DbFields /\ db'.instance = s
    <3> HIDE DEF d, s
    <3> QED BY <2>1, <2>3, WritesKeepFields DEF d, s
  <2>5. Ended' => (IF errs THEN rest ELSE <<>>) = <<>>
    BY <2>4 DEF Ended
  <2>6. QED BY <1>4, <1>13, <2>4, <2>5
<1>14. \/ \E r \in ProcessFlowNode(t) :
             \/ db' = bOf(r) /\ after(moreOf(r), errs)
             \/ FlushFails(bOf(r)) /\ after(moreOf(r), TRUE)
             \/ db' = WriteTokenIncident(LostTimers(bOf(r)), t) /\ after(moreOf(r), TRUE)
       \/ /\ \E d \in {db} \union {LostTimers(r.b) : r \in ProcessFlowNode(t)} :
                db' = WriteTokenIncident(d, t) \/ db' = d
          /\ after(rest, TRUE)
       \/ /\ \E b \in CutShort :
                db' = SaveTokens([b EXCEPT !.instance = IF errs THEN "failed" ELSE "completed"],
                                 Complete(t))
          /\ after(IF errs THEN rest ELSE <<>>, errs)
  BY DEF RunStep
<1> HIDE DEF t, rest, errs, after, bOf, moreOf
<1>15. CASE \E r \in ProcessFlowNode(t) :
             \/ db' = bOf(r) /\ after(moreOf(r), errs)
             \/ FlushFails(bOf(r)) /\ after(moreOf(r), TRUE)
             \/ db' = WriteTokenIncident(LostTimers(bOf(r)), t) /\ after(moreOf(r), TRUE)
  BY <1>7, <1>9, <1>10, <1>11, <1>15
<1>16. CASE /\ \E d \in {db} \union {LostTimers(r.b) : r \in ProcessFlowNode(t)} :
                  db' = WriteTokenIncident(d, t) \/ db' = d
            /\ after(rest, TRUE)
  BY <1>1, <1>7, <1>11, <1>12, <1>16
<1>17. QED BY <1>13, <1>14, <1>15, <1>16

\* Leaving the loop gives the lock back.
LEMMA RunEndsIsGood ==
    ASSUME EngineInv, NEW p \in Proc, RunEnds(p)
    PROVE  Good
<1>1. proc[p].pc = "loop" /\ Return(p) /\ db' = db
  BY DEF RunEnds
<1>2. \A q \in Proc \ {p} : proc[q].pc # "loop"
  BY <1>1 DEF EngineInv, LoopOwnsLock
<1>3. EngineInv'
  BY <1>1, <1>2, Records, OutOfLoop DEF Return, EngineInv, Shape
<1>4. QED BY <1>1, <1>3 DEF Good

\* A node that dies leaves no goroutine.
LEMMA DiesIsGood ==
    ASSUME EngineInv, Dies
    PROVE  Good
<1>1. /\ db' = db
      /\ DOMAIN proc' = Proc
      /\ \A p \in Proc : proc'[p] = Idle
  BY DEF Dies
<1>2. EngineInv'
  BY <1>1, Records DEF EngineInv, Shape, LoopOwnsLock, EndedLoopIsEmpty
<1>3. QED BY <1>1, <1>2 DEF Good

\* The restarted engine only queues the running tokens.
LEMMA StartIsGood ==
    ASSUME EngineInv, Start
    PROVE  Good
<1>1. db' = db /\ lock' = lock
  BY DEF Start
<1>2. CASE proc' = proc
  BY <1>1, <1>2 DEF Good, EngineInv, Shape, LoopOwnsLock, EndedLoopIsEmpty, Ended
<1>3. CASE \E c \in Client : \E toks : ThenRun(c, toks)
  <2>1. PICK c \in Client : \E toks : ThenRun(c, toks)
    BY <1>3
  <2>2. c \in Proc
    BY DEF Proc
  <2>3. PICK x : DOMAIN x = ProcFields /\ x.pc # "loop" /\ proc' = [proc EXCEPT ![c] = x]
    BY <2>1, <2>2, Leaving
  <2>4. EngineInv'
    BY <1>1, <2>2, <2>3, OutOfLoop DEF EngineInv, Shape, Ended
  <2>5. QED BY <1>1, <2>4 DEF Good
<1>4. QED BY <1>2, <1>3 DEF Start

-----------------------------------------------------------------------------
\* Every step of the engine is good.
LEMMA StepsAreGood ==
    ASSUME EngineInv, [Next]_engineVars
    PROVE  Good
<1>1. CASE UNCHANGED engineVars
  BY <1>1 DEF engineVars, Good, EngineInv, Shape, LoopOwnsLock, EndedLoopIsEmpty, Ended
<1>2. ASSUME NEW c \in Client,
             \/ CreateInstance(c) \/ ClientCalls(c)
             \/ JobCompleteByKey(c) \/ JobFailByKey(c) \/ PublishMessage(c)
             \/ ResolveIncident(c) \/ CancelInstance(c) \/ ModifyInstance(c)
             \/ JobAssignReads(c) \/ JobAssignWrites(c)
      PROVE  Good
  BY <1>2, CreateInstanceIsGood, ClientCallsIsGood, JobCompleteIsGood, JobFailIsGood,
     PublishMessageIsGood, ResolveIncidentIsGood, CancelInstanceIsGood, ModifyInstanceIsGood,
     JobAssignIsGood
<1>3. CASE TimerFires \/ TriggerTimer
  BY <1>3, TimerFiresIsGood, TriggerTimerIsGood
<1>4. ASSUME NEW p \in Proc, RunBegins(p) \/ RunStep(p) \/ RunEnds(p) \/ Panic(p)
      PROVE  Good
  BY <1>4, RunBeginsIsGood, RunStepIsGood, RunEndsIsGood, DiesIsGood DEF Panic
<1>5. CASE Crash \/ Start
  BY <1>5, DiesIsGood, StartIsGood DEF Crash
<1>6. QED BY <1>1, <1>2, <1>3, <1>4, <1>5 DEF Next

\* While an instance has ended, a goroutine that is still in the main loop of
\* RunProcessInstance has no token left, and it is the one with the lock.
THEOREM EngineInvariance == Spec => []EngineInv
<1>1. Init => EngineInv
  <2> SUFFICES ASSUME Init PROVE EngineInv
    OBVIOUS
  <2>1. DOMAIN db = DbFields
    BY DEF Init, DbFields
  <2>2. DOMAIN proc = Proc /\ \A p \in Proc : proc[p] = Idle
    BY DEF Init
  <2>3. QED BY <2>1, <2>2, Records DEF EngineInv, Shape, LoopOwnsLock, EndedLoopIsEmpty
<1>2. EngineInv /\ [Next]_engineVars => EngineInv'
  BY StepsAreGood DEF Good
<1>3. QED BY <1>1, <1>2, PTL DEF Spec

\* A process instance that has completed or was terminated stays so, whatever
\* calls are waiting for its lock, whatever flushes fail and whenever the node
\* crashes and starts again.
THEOREM EndedStaysEnded == Spec => EndedIsFinal
<1>1. EngineInv /\ [Next]_engineVars => [Ended => db'.instance = db.instance]_engineVars
  BY StepsAreGood DEF Good
<1>2. QED BY <1>1, EngineInvariance, PTL DEF Spec, EndedIsFinal

-----------------------------------------------------------------------------
(* Sets in order, and parts of sequences.                                  *)

\* A finite set of numbers has a member with any number of members below it.
LEMMA RanksAreTaken ==
    ASSUME NEW K, IsFiniteSet(K), K \subseteq Nat, NEW i \in 1..Cardinality(K)
    PROVE  \E k \in K : Cardinality({j \in K : j < k}) = i - 1
<1> DEFINE n == Cardinality(K)
           Below(k) == {j \in K : j < k}
           rank == [k \in K |-> Cardinality(Below(k))]
<1>1. n \in Nat
  BY FS_CardinalityType
<1>2. ASSUME NEW k \in K
      PROVE  IsFiniteSet(Below(k)) /\ Cardinality(Below(k)) \in 0..(n - 1)
  <2>1. Below(k) \subseteq K /\ k \notin Below(k)
    BY <1>2
  <2>2. Below(k) # K
    BY <2>1
  <2> HIDE DEF Below
  <2>3. IsFiniteSet(Below(k)) /\ Cardinality(Below(k)) <= n /\ Cardinality(Below(k)) # n
    BY <2>1, <2>2, FS_Subset
  <2>4. Cardinality(Below(k)) \in Nat
    BY <2>3, FS_CardinalityType
  <2>5. QED BY <1>1, <2>3, <2>4
<1>3. ASSUME NEW k \in K, NEW m \in K, k < m PROVE rank[k] < rank[m]
  <2>1. Below(k) \subseteq Below(m) /\ k \in Below(m) /\ k \notin Below(k)
    <3>1. k \in Nat /\ m \in Nat /\ \A j \in K : j \in Nat
      OBVIOUS
    <3>2. ~(k < k) /\ \A j \in K : j < k => j < m
      BY <1>3, <3>1
    <3>3. QED BY <1>3, <3>2, Zenon
  <2>2. Below(k) # Below(m)
    BY <2>1
  <2>3. rank[k] = Cardinality(Below(k)) /\ rank[m] = Cardinality(Below(m))
    OBVIOUS
  <2> HIDE DEF Below, rank
  <2>4. Cardinality(Below(k)) <= Cardinality(Below(m)) /\ Cardinality(Below(k)) # Cardinality(Below(m))
    BY <1>2, <2>1, <2>2, FS_Subset
  <2>5. QED BY <1>2, <2>3, <2>4
<1>4. rank \in [K -> 0..(n - 1)]
  BY <1>2
<1> HIDE DEF rank
<1>5. \A k, m \in K : rank[k] = rank[m] => k = m
  <2>1. SUFFICES ASSUME NEW k \in K, NEW m \in K, rank[k] = rank[m], k # m PROVE FALSE
    OBVIOUS
  <2>2. k < m \/ m < k
    BY <2>1
  <2>3. rank[k] \in Int /\ rank[m] \in Int
    BY <1>1, <1>4
  <2>4. QED BY <1>3, <2>1, <2>2, <2>3
<1>6. rank \in Injection(K, 0..(n - 1))
  BY <1>4, <1>5 DEF Injection, IsInjective
<1>7. IsFiniteSet(0..(n - 1)) /\ Cardinality(0..(n - 1)) = n
  <2> HIDE DEF n
  <2>1. 0 \in Int /\ n - 1 \in Int
    BY <1>1
  <2>2. /\ IsFiniteSet(0..(n - 1))
        /\ Cardinality(0..(n - 1)) = IF 0 > n - 1 THEN 0 ELSE (n - 1) - 0 + 1
    BY <2>1, FS_Interval
  <2>3. QED BY <1>1, <2>2
<1>8. rank \in Surjection(K, 0..(n - 1))
  BY <1>6, <1>7, FS_Injection
<1>9. PICK k \in K : rank[k] = i - 1
  BY <1>1, <1>8 DEF Surjection
<1>10. QED BY <1>9 DEF rank

\* InOrder lists exactly the members of a finite set of numbers.
LEMMA InOrderResult ==
    ASSUME NEW K, IsFiniteSet(K), K \subseteq Nat
    PROVE  /\ Cardinality(K) \in Nat
           /\ DOMAIN InOrder(K) = 1..Cardinality(K)
           /\ \A i \in 1..Cardinality(K) : InOrder(K)[i] \in K
<1>1. ASSUME NEW i \in 1..Cardinality(K) PROVE InOrder(K)[i] \in K
  <2> DEFINE P(k) == Cardinality({j \in K : j < k}) = i - 1
  <2>1. \E k \in K : P(k)
    BY RanksAreTaken
  <2>2. InOrder(K)[i] = CHOOSE k \in K : P(k)
    BY DEF InOrder
  <2> HIDE DEF P
  <2>3. QED BY <2>1, <2>2
<1>2. QED BY <1>1, FS_CardinalityType DEF InOrder

\* Kept picks elements of a sequence.
LEMMA KeptResult ==
    ASSUME NEW S, NEW s \in Seq(S), NEW K, K \subseteq DOMAIN s
    PROVE  /\ Kept(s, K) \in Seq(S)
           /\ Len(Kept(s, K)) <= Len(s)
           /\ \A i \in DOMAIN Kept(s, K) : \E k \in K : Kept(s, K)[i] = s[k]
<1>1. DOMAIN s = 1..Len(s) /\ Len(s) \in Nat
  OBVIOUS
<1>2. IsFiniteSet(DOMAIN s) /\ Cardinality(DOMAIN s) = Len(s)
  <2>1. /\ IsFiniteSet(1..Len(s))
        /\ Cardinality(1..Len(s)) = IF 1 > Len(s) THEN 0 ELSE Len(s) - 1 + 1
    BY <1>1, FS_Interval
  <2>2. QED BY <1>1, <2>1
<1>3. IsFiniteSet(K) /\ Cardinality(K) <= Len(s) /\ K \subseteq Nat
  BY <1>1, <1>2, FS_Subset
<1>4. /\ Cardinality(K) \in Nat
      /\ DOMAIN InOrder(K) = 1..Cardinality(K)
      /\ \A i \in 1..Cardinality(K) : InOrder(K)[i] \in K
  BY <1>3, InOrderResult
<1>5. Kept(s, K) = [i \in 1..Cardinality(K) |-> s[InOrder(K)[i]]]
  BY <1>4 DEF Kept
<1>6. Kept(s, K) \in Seq(S) /\ Len(Kept(s, K)) = Cardinality(K)
  BY <1>1, <1>4, <1>5
<1>7. \A i \in DOMAIN Kept(s, K) : \E k \in K : Kept(s, K)[i] = s[k]
  BY <1>4, <1>5
<1>8. QED BY <1>3, <1>6, <1>7

-----------------------------------------------------------------------------
(* The rows of the database and the goroutines, with their types.          *)

InstanceState == {"none", "ready", "active", "failed", "completed", "terminated"}
TokenState    == {"running", "waiting", "completed", "canceled", "failed"}
JobState      == {"active", "completed", "failed", "terminated"}
SubState      == {"active", "completed", "failed", "terminated", "lost"}

TokenRow    == [at : Node \union {"none"}, state : TokenState \union {"none"}]
JobRow      == [token : TokenKey, at : Node, state : JobState]
SubRow      == [event : Node, token : TokenKey, at : Node, state : SubState]
IncidentRow == [token : TokenKey, resolved : BOOLEAN]

Database == [instance : InstanceState, token : [TokenKey -> TokenRow],
             job : Seq(JobRow), sub : Seq(SubRow), incident : Seq(IncidentRow)]

MovingToken == [key : TokenKey, at : Node, state : TokenState]

Goroutine == [pc : {"idle", "lock", "run", "loop", "assign"},
              op : {"none", "complete", "fail", "message", "resolve", "cancel", "modify", "timer"},
              arg : Nat, node : Node \union JobState \union {"none"}, at : Node \union {"none"},
              tokens : Seq(MovingToken), failed : BOOLEAN]

\* A token that has a row is at a node; the rows of jobs, subscriptions and
\* incidents are about tokens that have a row or are in K.
Known(b, K) ==
    /\ \A k \in TokenKey : b.token[k].state # "none" => b.token[k].at \in Node
    /\ \A j \in DOMAIN b.job : b.job[j].token \in K \/ b.token[b.job[j].token].state # "none"
    /\ \A s \in DOMAIN b.sub : \/ b.sub[s].state = "lost"
                               \/ b.sub[s].token \in K
                               \/ b.token[b.sub[s].token].state # "none"
    /\ \A i \in DOMAIN b.incident :
          b.incident[i].token \in K \/ b.token[b.incident[i].token].state # "none"

\* The subscriptions and timers on which event-based gateways wait, and the
\* tokens that wait there.
Gateways(b) == {s \in DOMAIN b.sub : /\ b.sub[s].state = "active"
                                     /\ Kind[b.sub[s].at] = "eventGateway"}
GatewayTokens(b) == {b.sub[s].token : s \in Gateways(b)}

\* A token that waits at a gateway has no job, no incident, and waits for
\* nothing but the events of the gateway.
GatewaysWait(b) ==
    \A s \in Gateways(b) :
        LET k == b.sub[s].token
        IN  /\ b.token[k] = [at |-> b.sub[s].at, state |-> "waiting"]
            /\ \A j \in DOMAIN b.job : b.job[j].token # k
            /\ \A i \in DOMAIN b.incident : b.incident[i].token # k
            /\ \A r \in DOMAIN b.sub : b.sub[r].state = "active" /\ b.sub[r].token = k
                                       => b.sub[r].at = b.sub[s].at

\* ExactlyOnePath, of a batch.
OnePath(b) ==
    \A r, s \in DOMAIN b.sub :
        /\ r # s /\ b.sub[r].token = b.sub[s].token /\ b.sub[r].at = b.sub[s].at
        /\ Kind[b.sub[r].at] = "eventGateway" /\ b.sub[r].state = "completed"
        => b.sub[s].state \notin {"completed", "active"}

\* The call that a goroutine is about to handle is about a row that exists; a
\* timer of a gateway comes with the gateway.
Pending(b, x) ==
    /\ x.pc = "lock" /\ x.op \in {"complete", "fail"} => x.arg \in DOMAIN b.job
    /\ x.pc = "lock" /\ x.op \in {"message", "timer"} => x.arg \in DOMAIN b.sub
    /\ x.pc = "lock" /\ x.op = "resolve" => x.arg \in DOMAIN b.incident
    /\ x.pc = "lock" /\ x.op \in {"modify", "timer"} => x.node \in Node
    /\ x.pc = "lock" /\ x.op = "timer" /\ x.arg \in Gateways(b) => x.node = b.sub[x.arg].at
    /\ x.pc = "assign" => x.arg \in DOMAIN b.job /\ x.node \in JobState

\* Nobody carries a token that waits at a gateway.
CarriesNone(b, toks) == \A i \in DOMAIN toks : toks[i].key \notin GatewayTokens(b)

RowsInv == db \in Database /\ Known(db, {}) /\ GatewaysWait(db) /\ OnePath(db)

ProcInv ==
    /\ proc \in [Proc -> Goroutine]
    /\ \A p \in Proc : Pending(db, proc[p]) /\ CarriesNone(db, proc[p].tokens)

PathInv == RowsInv /\ ProcInv

\* What a batch has to be like: no row is lost, a gateway is left alone, switched
\* off, or new with a token that nobody knows.
Batch(b) ==
    /\ b \in Database
    /\ Len(db.job) <= Len(b.job) /\ Len(db.sub) <= Len(b.sub)
    /\ Len(db.incident) <= Len(b.incident)
    /\ \A s \in Gateways(b) : \/ s \in DOMAIN db.sub /\ b.sub[s] = db.sub[s]
                              \/ s \notin DOMAIN db.sub /\ b.sub[s].token \in Unused
    /\ GatewaysWait(b) /\ OnePath(b)

-----------------------------------------------------------------------------
\* The elements of the sequences.
LEMMA RowTypes ==
    ASSUME NEW b \in Database
    PROVE  /\ \A k \in TokenKey : b.token[k] \in TokenRow
           /\ \A j \in DOMAIN b.job : b.job[j] \in JobRow /\ b.job[j].token \in TokenKey
           /\ \A s \in DOMAIN b.sub : /\ b.sub[s] \in SubRow /\ b.sub[s].token \in TokenKey
                                      /\ b.sub[s].at \in Node /\ b.sub[s].event \in Node
           /\ \A i \in DOMAIN b.incident :
                 b.incident[i] \in IncidentRow /\ b.incident[i].token \in TokenKey
<1>1. /\ b.job \in Seq(JobRow) /\ b.sub \in Seq(SubRow) /\ b.incident \in Seq(IncidentRow)
      /\ b.token \in [TokenKey -> TokenRow]
  BY DEF Database
<1>2. \A j \in DOMAIN b.job : b.job[j] \in JobRow
  BY <1>1
<1>3. \A j \in DOMAIN b.sub : b.sub[j] \in SubRow
  BY <1>1
<1>4. \A j \in DOMAIN b.incident : b.incident[j] \in IncidentRow
  BY <1>1
<1>5. \A x \in JobRow : x.token \in TokenKey
  BY DEF JobRow
<1>6. \A x \in SubRow : x.token \in TokenKey /\ x.at \in Node /\ x.event \in Node
  BY DEF SubRow
<1>7. \A x \in IncidentRow : x.token \in TokenKey
  BY DEF IncidentRow
<1>8. QED BY <1>1, <1>2, <1>3, <1>4, <1>5, <1>6, <1>7

\* Tokens at gateways have no other rows.
LEMMA GatewayFacts ==
    ASSUME NEW b, GatewaysWait(b), NEW k \in GatewayTokens(b)
    PROVE  /\ \A j \in DOMAIN b.job : b.job[j].token # k
           /\ \A i \in DOMAIN b.incident : b.incident[i].token # k
           /\ b.token[k].state = "waiting"
<1>1. PICK s \in Gateways(b) : k = b.sub[s].token
  BY DEF GatewayTokens
<1>2. /\ \A j \in DOMAIN b.job : b.job[j].token # k
      /\ \A i \in DOMAIN b.incident : b.incident[i].token # k
      /\ b.token[k] = [at |-> b.sub[s].at, state |-> "waiting"]
  BY <1>1 DEF GatewaysWait
<1>3. QED BY <1>2

\* A batch in which nothing was written yet is the database itself.
LEMMA NoWrite ==
    ASSUME RowsInv
    PROVE  Batch(db)
BY DEF RowsInv, Batch, Gateways, Database

\* Writing the state of the instance touches no gateway.
LEMMA InstanceBatch ==
    ASSUME NEW b, Batch(b), NEW K, Known(b, K), NEW i \in InstanceState
    PROVE  /\ Batch([b EXCEPT !.instance = i])
           /\ Known([b EXCEPT !.instance = i], K)
           /\ GatewayTokens([b EXCEPT !.instance = i]) = GatewayTokens(b)
<1> DEFINE c == [b EXCEPT !.instance = i]
<1>1. /\ c \in Database
      /\ c.token = b.token /\ c.job = b.job /\ c.sub = b.sub /\ c.incident = b.incident
  BY DEF Batch, Database
<1> HIDE DEF c
<1>2. Gateways(c) = Gateways(b) /\ GatewayTokens(c) = GatewayTokens(b)
  BY <1>1 DEF Gateways, GatewayTokens
<1>3. Batch(c)
  BY <1>1, <1>2 DEF Batch, GatewaysWait, OnePath
<1>4. Known(c, K)
  BY <1>1 DEF Known
<1>5. QED BY <1>2, <1>3, <1>4 DEF c

\* A written token gets one of the rows that are written for it.
LEMMA SavedTokens ==
    ASSUME NEW b \in Database, NEW toks \in Seq(MovingToken)
    PROVE  LET c == SaveTokens(b, toks) IN
           /\ c \in Database
           /\ c.job = b.job /\ c.sub = b.sub /\ c.incident = b.incident /\ c.instance = b.instance
           /\ \A k \in TokenKey :
                 \/ /\ c.token[k] = b.token[k]
                    /\ \A i \in DOMAIN toks : toks[i].key # k
                 \/ \E i \in DOMAIN toks : /\ toks[i].key = k
                                           /\ c.token[k] = [at |-> toks[i].at, state |-> toks[i].state]
<1> DEFINE new == [k \in TokenKey |->
               IF \E i \in DOMAIN toks : toks[i].key = k
               THEN LET i == CHOOSE i \in DOMAIN toks : toks[i].key = k
                    IN  [at |-> toks[i].at, state |-> toks[i].state]
               ELSE b.token[k]]
           c == [b EXCEPT !.token = new]
<1>1. SaveTokens(b, toks) = c
  BY DEF SaveTokens
<1>2. ASSUME NEW k \in TokenKey
      PROVE  /\ new[k] \in TokenRow
             /\ \/ /\ new[k] = b.token[k]
                   /\ \A i \in DOMAIN toks : toks[i].key # k
                \/ \E i \in DOMAIN toks : /\ toks[i].key = k
                                          /\ new[k] = [at |-> toks[i].at, state |-> toks[i].state]
  <2>1. CASE \E i \in DOMAIN toks : toks[i].key = k
    <3> DEFINE j == CHOOSE i \in DOMAIN toks : toks[i].key = k
    <3>1. j \in DOMAIN toks /\ toks[j].key = k
      BY <2>1
    <3>2. new[k] = [at |-> toks[j].at, state |-> toks[j].state]
      BY <2>1
    <3> HIDE DEF j, new
    <3>3. toks[j] \in MovingToken
      BY <3>1
    <3>4. new[k] \in TokenRow
      BY <3>2, <3>3 DEF MovingToken, TokenRow
    <3>5. QED BY <3>1, <3>2, <3>4
  <2>2. CASE \A i \in DOMAIN toks : toks[i].key # k
    BY <2>2 DEF Database
  <2>3. QED BY <2>1, <2>2
<1>3. DOMAIN new = TokenKey
  OBVIOUS
<1> HIDE DEF new
<1>4. new \in [TokenKey -> TokenRow]
  <2>1. new = [k \in TokenKey |-> new[k]]
    BY <1>3 DEF new
  <2>2. QED BY <1>2, <2>1
<1>5. /\ c \in Database /\ c.token = new
      /\ c.job = b.job /\ c.sub = b.sub /\ c.incident = b.incident /\ c.instance = b.instance
  BY <1>4 DEF Database
<1> HIDE DEF c
<1>6. QED BY <1>1, <1>2, <1>5

\* A batch that leaves the subscriptions alone, and the tokens at gateways.
LEMMA SameSubs ==
    ASSUME NEW b, Batch(b), NEW c \in Database, c.sub = b.sub,
           Len(b.job) <= Len(c.job), Len(b.incident) <= Len(c.incident),
           \A k \in GatewayTokens(b) : /\ c.token[k] = b.token[k]
                                       /\ \A j \in DOMAIN c.job : c.job[j].token # k
                                       /\ \A i \in DOMAIN c.incident : c.incident[i].token # k
    PROVE  Batch(c) /\ GatewayTokens(c) = GatewayTokens(b)
<1>1. Gateways(c) = Gateways(b) /\ GatewayTokens(c) = GatewayTokens(b)
  BY DEF Gateways, GatewayTokens
<1>2. /\ Len(db.job) <= Len(c.job) /\ Len(db.sub) <= Len(c.sub)
      /\ Len(db.incident) <= Len(c.incident)
  <2>1. Len(b.job) \in Nat /\ Len(c.job) \in Nat /\ Len(b.incident) \in Nat /\ Len(c.incident) \in Nat
    BY DEF Batch, Database
  <2>2. QED BY <2>1 DEF Batch
<1>3. GatewaysWait(c)
  <2>1. SUFFICES ASSUME NEW s \in Gateways(c)
                 PROVE  LET k == c.sub[s].token
                        IN  /\ c.token[k] = [at |-> c.sub[s].at, state |-> "waiting"]
                            /\ \A j \in DOMAIN c.job : c.job[j].token # k
                            /\ \A i \in DOMAIN c.incident : c.incident[i].token # k
                            /\ \A r \in DOMAIN c.sub : c.sub[r].state = "active" /\ c.sub[r].token = k
                                                       => c.sub[r].at = c.sub[s].at
    BY DEF GatewaysWait
  <2>2. c.sub[s].token \in GatewayTokens(b)
    BY <1>1 DEF GatewayTokens
  <2>3. QED BY <1>1, <2>2 DEF Batch, GatewaysWait
<1>4. QED BY <1>1, <1>2, <1>3 DEF Batch, OnePath

\* Saving tokens that are not at a gateway touches no gateway.
LEMMA SaveTokensBatch ==
    ASSUME NEW b, Batch(b), NEW K, Known(b, K), NEW toks \in Seq(MovingToken),
           CarriesNone(b, toks)
    PROVE  LET c == SaveTokens(b, toks) IN
           /\ Batch(c)
           /\ Known(c, K \ {toks[i].key : i \in DOMAIN toks})
           /\ GatewayTokens(c) = GatewayTokens(b)
           /\ c.instance = b.instance
<1> DEFINE c == SaveTokens(b, toks)
           keys == {toks[i].key : i \in DOMAIN toks}
<1>1. /\ c \in Database
      /\ c.job = b.job /\ c.sub = b.sub /\ c.incident = b.incident /\ c.instance = b.instance
      /\ \A k \in TokenKey :
            \/ c.token[k] = b.token[k] /\ k \notin keys
            \/ \E i \in DOMAIN toks : /\ toks[i].key = k
                                      /\ c.token[k] = [at |-> toks[i].at, state |-> toks[i].state]
  BY SavedTokens DEF Batch
<1> HIDE DEF c
<1>2. \A k \in TokenKey : \/ c.token[k] = b.token[k] /\ k \notin keys
                          \/ c.token[k].state # "none" /\ c.token[k].at \in Node
  <2>1. \A i \in DOMAIN toks : toks[i].at \in Node /\ toks[i].state # "none"
    <3>1. \A i \in DOMAIN toks : toks[i] \in MovingToken
      OBVIOUS
    <3>2. \A t \in MovingToken : t.at \in Node /\ t.state # "none"
      BY DEF MovingToken, TokenState
    <3>3. QED BY <3>1, <3>2
  <2>2. ASSUME NEW k \in TokenKey
        PROVE  \/ c.token[k] = b.token[k] /\ k \notin keys
               \/ c.token[k].state # "none" /\ c.token[k].at \in Node
    <3> HIDE DEF keys
    <3>1. CASE \E i \in DOMAIN toks : c.token[k] = [at |-> toks[i].at, state |-> toks[i].state]
      BY <2>1, <3>1
    <3>2. QED BY <1>1, <3>1
  <2>3. QED BY <2>2
<1>3. /\ \A j \in DOMAIN b.job : b.job[j].token \in TokenKey
      /\ \A s \in DOMAIN b.sub : b.sub[s].token \in TokenKey
      /\ \A i \in DOMAIN b.incident : b.incident[i].token \in TokenKey
  BY RowTypes DEF Batch
<1>4. Known(c, K \ keys)
  <2> HIDE DEF keys
  <2> QED BY <1>1, <1>2, <1>3 DEF Known
<1>5. GatewayTokens(b) \subseteq TokenKey
  BY <1>3 DEF GatewayTokens, Gateways
<1>6. \A k \in GatewayTokens(b) : /\ c.token[k] = b.token[k]
                                  /\ \A j \in DOMAIN c.job : c.job[j].token # k
                                  /\ \A i \in DOMAIN c.incident : c.incident[i].token # k
  <2>1. \A k \in GatewayTokens(b) : \A i \in DOMAIN toks : toks[i].key # k
    BY DEF CarriesNone
  <2>2. GatewaysWait(b)
    BY DEF Batch
  <2>3. \A k \in GatewayTokens(b) : c.token[k] = b.token[k]
    <3>1. SUFFICES ASSUME NEW k \in GatewayTokens(b) PROVE c.token[k] = b.token[k]
      OBVIOUS
    <3>2. k \in TokenKey /\ ~\E i \in DOMAIN toks : toks[i].key = k
      BY <1>5, <2>1
    <3> HIDE DEF keys
    <3>3. QED BY <1>1, <3>2
  <2>4. QED BY <1>1, <2>2, <2>3, GatewayFacts
<1>7. Batch(c) /\ GatewayTokens(c) = GatewayTokens(b)
  <2>1. Len(b.job) <= Len(c.job) /\ Len(b.incident) <= Len(c.incident)
    BY <1>1 DEF Batch, Database
  <2>2. QED BY <1>1, <1>6, <2>1, SameSubs
<1>8. QED BY <1>1, <1>4, <1>7 DEF c

\* A job made for a token that is not at a gateway touches no gateway.
LEMMA SaveJobBatch ==
    ASSUME NEW b, Batch(b), NEW K, Known(b, K), NEW t \in MovingToken, NEW s \in JobState,
           t.key \notin GatewayTokens(b)
    PROVE  LET c == SaveJob(b, t, s) IN
           /\ Batch(c)
           /\ Known(c, K \union {t.key})
           /\ GatewayTokens(c) = GatewayTokens(b)
           /\ c.instance = b.instance /\ c.token = b.token
<1> DEFINE row == [token |-> t.key, at |-> t.at, state |-> s]
           c == SaveJob(b, t, s)
<1>1. row \in JobRow /\ row.token = t.key
  BY DEF MovingToken, JobRow
<1> HIDE DEF row
<1>2. b \in Database
  BY DEF Batch
<1>3. /\ Append(b.job, row) \in Seq(JobRow)
      /\ Len(Append(b.job, row)) = Len(b.job) + 1 /\ Len(b.job) \in Nat
      /\ \A j \in DOMAIN Append(b.job, row) :
            \/ j \in DOMAIN b.job /\ Append(b.job, row)[j] = b.job[j]
            \/ Append(b.job, row)[j] = row
  BY <1>1, <1>2 DEF Database
<1>4. /\ c \in Database /\ c.job = Append(b.job, row)
      /\ c.token = b.token /\ c.sub = b.sub /\ c.incident = b.incident /\ c.instance = b.instance
  <2>1. c = [b EXCEPT !.job = Append(b.job, row)]
    BY <1>2 DEF SaveJob, row, Database
  <2>2. QED BY <1>2, <1>3, <2>1 DEF Database
<1> HIDE DEF c
<1>5. \A k \in GatewayTokens(b) : /\ c.token[k] = b.token[k]
                                  /\ \A j \in DOMAIN c.job : c.job[j].token # k
                                  /\ \A i \in DOMAIN c.incident : c.incident[i].token # k
  <2>1. GatewaysWait(b)
    BY DEF Batch
  <2>2. QED BY <1>1, <1>3, <1>4, <2>1, GatewayFacts
<1>6. Batch(c) /\ GatewayTokens(c) = GatewayTokens(b)
  <2>1. Len(b.job) <= Len(c.job) /\ Len(b.incident) <= Len(c.incident)
    BY <1>2, <1>3, <1>4 DEF Database
  <2>2. QED BY <1>4, <1>5, <2>1, SameSubs
<1>7. Known(c, K \union {t.key})
  BY <1>1, <1>3, <1>4 DEF Known
<1>8. QED BY <1>4, <1>6, <1>7 DEF c

\* Setting the state of jobs touches no gateway.
LEMMA SetJobsBatch ==
    ASSUME NEW b, Batch(b), NEW K, Known(b, K), NEW S, NEW s \in JobState
    PROVE  LET c == SetJobs(b, S, s) IN
           /\ Batch(c)
           /\ Known(c, K)
           /\ GatewayTokens(c) = GatewayTokens(b)
           /\ c.instance = b.instance /\ c.token = b.token
<1> DEFINE new == [i \in DOMAIN b.job |-> IF i \in S THEN [b.job[i] EXCEPT !.state = s]
                                                     ELSE b.job[i]]
           c == SetJobs(b, S, s)
<1>1. b \in Database /\ b.job \in Seq(JobRow)
  BY DEF Batch, Database
<1>2. \A i \in DOMAIN b.job : new[i] \in JobRow /\ new[i].token = b.job[i].token
  <2>1. \A x \in JobRow : [x EXCEPT !.state = s] \in JobRow /\ [x EXCEPT !.state = s].token = x.token
    BY DEF JobRow
  <2>2. QED BY <1>1, <2>1, RowTypes
<1>3. new \in Seq(JobRow) /\ DOMAIN new = DOMAIN b.job /\ Len(new) = Len(b.job)
  <2>1. DOMAIN b.job = 1..Len(b.job) /\ Len(b.job) \in Nat /\ DOMAIN new = DOMAIN b.job
    BY <1>1
  <2> HIDE DEF new
  <2>2. new \in [1..Len(b.job) -> JobRow]
    <3>1. new = [i \in 1..Len(b.job) |-> new[i]]
      BY <2>1 DEF new
    <3>2. QED BY <1>2, <2>1, <3>1
  <2>3. QED BY <2>1, <2>2
<1>4. /\ c \in Database /\ c.job = new
      /\ c.token = b.token /\ c.sub = b.sub /\ c.incident = b.incident /\ c.instance = b.instance
  <2>1. c = [b EXCEPT !.job = new]
    BY DEF SetJobs
  <2> HIDE DEF new
  <2>2. QED BY <1>1, <1>3, <2>1 DEF Database
<1> HIDE DEF c, new
<1>5. \A k \in GatewayTokens(b) : /\ c.token[k] = b.token[k]
                                  /\ \A j \in DOMAIN c.job : c.job[j].token # k
                                  /\ \A i \in DOMAIN c.incident : c.incident[i].token # k
  <2>1. GatewaysWait(b)
    BY DEF Batch
  <2>2. QED BY <1>2, <1>3, <1>4, <2>1, GatewayFacts
<1>6. Batch(c) /\ GatewayTokens(c) = GatewayTokens(b)
  <2>1. Len(b.job) <= Len(c.job) /\ Len(b.incident) <= Len(c.incident)
    BY <1>1, <1>3, <1>4 DEF Database
  <2>2. QED BY <1>4, <1>5, <2>1, SameSubs
<1>7. Known(c, K)
  BY <1>2, <1>3, <1>4 DEF Known
<1>8. QED BY <1>4, <1>6, <1>7 DEF c

\* Resolving incidents touches no gateway.
LEMMA ResolveIncidentsBatch ==
    ASSUME NEW b, Batch(b), NEW K, Known(b, K), NEW S
    PROVE  LET c == ResolveIncidents(b, S) IN
           /\ Batch(c)
           /\ Known(c, K)
           /\ GatewayTokens(c) = GatewayTokens(b)
           /\ c.instance = b.instance /\ c.token = b.token
<1> DEFINE new == [i \in DOMAIN b.incident |->
                     IF i \in S THEN [b.incident[i] EXCEPT !.resolved = TRUE] ELSE b.incident[i]]
           c == ResolveIncidents(b, S)
<1>1. b \in Database /\ b.incident \in Seq(IncidentRow)
  BY DEF Batch, Database
<1>2. \A i \in DOMAIN b.incident : new[i] \in IncidentRow /\ new[i].token = b.incident[i].token
  <2>1. \A x \in IncidentRow : /\ [x EXCEPT !.resolved = TRUE] \in IncidentRow
                               /\ [x EXCEPT !.resolved = TRUE].token = x.token
    BY DEF IncidentRow
  <2>2. QED BY <1>1, <2>1, RowTypes
<1>3. new \in Seq(IncidentRow) /\ DOMAIN new = DOMAIN b.incident /\ Len(new) = Len(b.incident)
  <2>1. DOMAIN b.incident = 1..Len(b.incident) /\ Len(b.incident) \in Nat /\ DOMAIN new = DOMAIN b.incident
    BY <1>1
  <2> HIDE DEF new
  <2>2. new \in [1..Len(b.incident) -> IncidentRow]
    <3>1. new = [i \in 1..Len(b.incident) |-> new[i]]
      BY <2>1 DEF new
    <3>2. QED BY <1>2, <2>1, <3>1
  <2>3. QED BY <2>1, <2>2
<1>4. /\ c \in Database /\ c.incident = new
      /\ c.token = b.token /\ c.sub = b.sub /\ c.job = b.job /\ c.instance = b.instance
  <2>1. c = [b EXCEPT !.incident = new]
    BY DEF ResolveIncidents
  <2> HIDE DEF new
  <2>2. QED BY <1>1, <1>3, <2>1 DEF Database
<1> HIDE DEF c, new
<1>5. \A k \in GatewayTokens(b) : /\ c.token[k] = b.token[k]
                                  /\ \A j \in DOMAIN c.job : c.job[j].token # k
                                  /\ \A i \in DOMAIN c.incident : c.incident[i].token # k
  <2>1. GatewaysWait(b)
    BY DEF Batch
  <2>2. QED BY <1>2, <1>3, <1>4, <2>1, GatewayFacts
<1>6. Batch(c) /\ GatewayTokens(c) = GatewayTokens(b)
  <2>1. Len(b.job) <= Len(c.job) /\ Len(b.incident) <= Len(c.incident)
    BY <1>1, <1>3, <1>4 DEF Database
  <2>2. QED BY <1>4, <1>5, <2>1, SameSubs
<1>7. Known(c, K)
  BY <1>2, <1>3, <1>4 DEF Known
<1>8. QED BY <1>4, <1>6, <1>7 DEF c

\* Cancelling tokens that are not at a gateway touches no gateway.
LEMMA CancelTokensBatch ==
    ASSUME NEW b, Batch(b), Known(b, {}), NEW K, K \intersect GatewayTokens(b) = {},
           \A k \in K : b.token[k].state # "none"
    PROVE  LET c == CancelTokens(b, K) IN
           /\ Batch(c)
           /\ Known(c, {})
           /\ GatewayTokens(c) = GatewayTokens(b)
           /\ c.instance = b.instance
<1> DEFINE new == [k \in TokenKey |-> IF k \in K THEN [b.token[k] EXCEPT !.state = "canceled"]
                                                 ELSE b.token[k]]
           c == CancelTokens(b, K)
<1>1. b \in Database /\ b.token \in [TokenKey -> TokenRow]
  BY DEF Batch, Database
<1>2. \A k \in TokenKey : /\ new[k] \in TokenRow /\ new[k].at = b.token[k].at
                          /\ new[k].state = "none" <=> b.token[k].state = "none"
                          /\ k \notin K => new[k] = b.token[k]
  BY <1>1 DEF TokenRow, TokenState
<1>3. new \in [TokenKey -> TokenRow]
  BY <1>2
<1>4. /\ c \in Database /\ c.token = new
      /\ c.incident = b.incident /\ c.sub = b.sub /\ c.job = b.job /\ c.instance = b.instance
  <2>1. c = [b EXCEPT !.token = new]
    BY DEF CancelTokens
  <2> HIDE DEF new
  <2>2. QED BY <1>1, <1>3, <2>1 DEF Database
<1> HIDE DEF c, new
<1>5. /\ \A j \in DOMAIN b.job : b.job[j].token \in TokenKey
      /\ \A s \in DOMAIN b.sub : b.sub[s].token \in TokenKey
      /\ \A i \in DOMAIN b.incident : b.incident[i].token \in TokenKey
  BY <1>1, RowTypes
<1>6. \A k \in GatewayTokens(b) : /\ c.token[k] = b.token[k]
                                  /\ \A j \in DOMAIN c.job : c.job[j].token # k
                                  /\ \A i \in DOMAIN c.incident : c.incident[i].token # k
  <2>1. GatewayTokens(b) \subseteq TokenKey
    BY <1>5 DEF GatewayTokens, Gateways
  <2>2. GatewaysWait(b)
    BY DEF Batch
  <2>3. QED BY <1>2, <1>4, <2>1, <2>2, GatewayFacts
<1>7. Batch(c) /\ GatewayTokens(c) = GatewayTokens(b)
  <2>1. Len(b.job) <= Len(c.job) /\ Len(b.incident) <= Len(c.incident)
    BY <1>1, <1>4 DEF Database
  <2>2. QED BY <1>4, <1>6, <2>1, SameSubs
<1>8. Known(c, {})
  BY <1>2, <1>4, <1>5 DEF Known
<1>9. QED BY <1>4, <1>7, <1>8 DEF c

\* An incident of a token that is not at a gateway touches no gateway.
LEMMA WriteIncidentBatch ==
    ASSUME NEW b, Batch(b), NEW K, Known(b, K), NEW t \in MovingToken, t.key \notin GatewayTokens(b)
    PROVE  LET c == WriteTokenIncident(b, t) IN
           /\ Batch(c)
           /\ Known(c, K \ {t.key})
           /\ GatewayTokens(c) = GatewayTokens(b)
<1> DEFINE row == [token |-> t.key, resolved |-> FALSE]
           new == [b.token EXCEPT ![t.key] = [at |-> t.at, state |-> "failed"]]
           more == Append(b.incident, row)
           c == WriteTokenIncident(b, t)
<1>1. row \in IncidentRow /\ row.token = t.key /\ t.key \in TokenKey /\ t.at \in Node
  BY DEF MovingToken, IncidentRow
<1> HIDE DEF row
<1>2. b \in Database /\ b.token \in [TokenKey -> TokenRow] /\ b.incident \in Seq(IncidentRow)
  BY DEF Batch, Database
<1>3. /\ more \in Seq(IncidentRow)
      /\ Len(more) = Len(b.incident) + 1 /\ Len(b.incident) \in Nat
      /\ \A j \in DOMAIN more : \/ j \in DOMAIN b.incident /\ more[j] = b.incident[j]
                                \/ more[j] = row
  BY <1>1, <1>2
<1>4. /\ new \in [TokenKey -> TokenRow]
      /\ new[t.key].at \in Node /\ new[t.key].state = "failed"
      /\ \A k \in TokenKey \ {t.key} : new[k] = b.token[k]
  <2>1. [at |-> t.at, state |-> "failed"] \in TokenRow
    BY <1>1 DEF TokenRow, TokenState
  <2>2. QED BY <1>1, <1>2, <2>1
<1>5. /\ c \in Database /\ c.token = new /\ c.incident = more
      /\ c.sub = b.sub /\ c.job = b.job
  <2>1. c = [b EXCEPT !.token = new, !.instance = "failed", !.incident = more]
    BY <1>2 DEF WriteTokenIncident, Database, row
  <2> HIDE DEF new, more
  <2>2. QED BY <1>2, <1>3, <1>4, <2>1 DEF Database, InstanceState
<1> HIDE DEF c, new, more
<1>6. /\ \A j \in DOMAIN b.job : b.job[j].token \in TokenKey
      /\ \A s \in DOMAIN b.sub : b.sub[s].token \in TokenKey
      /\ \A i \in DOMAIN b.incident : b.incident[i].token \in TokenKey
  BY <1>2, RowTypes
<1>7. \A k \in GatewayTokens(b) : /\ c.token[k] = b.token[k]
                                  /\ \A j \in DOMAIN c.job : c.job[j].token # k
                                  /\ \A i \in DOMAIN c.incident : c.incident[i].token # k
  <2>1. GatewayTokens(b) \subseteq TokenKey
    BY <1>6 DEF GatewayTokens, Gateways
  <2>2. GatewaysWait(b)
    BY DEF Batch
  <2>3. QED BY <1>1, <1>3, <1>4, <1>5, <2>1, <2>2, GatewayFacts
<1>8. Batch(c) /\ GatewayTokens(c) = GatewayTokens(b)
  <2>1. Len(b.job) <= Len(c.job) /\ Len(b.incident) <= Len(c.incident)
    BY <1>2, <1>3, <1>5 DEF Database
  <2>2. QED BY <1>5, <1>7, <2>1, SameSubs
<1>9. Known(c, K \ {t.key})
  BY <1>1, <1>3, <1>4, <1>5, <1>6 DEF Known
<1>10. QED BY <1>8, <1>9 DEF c

\* What SetSubs does to the subscriptions.
LEMMA SetSubsResult ==
    ASSUME NEW b \in Database, NEW S, NEW v \in SubState
    PROVE  LET c == SetSubs(b, S, v) IN
           /\ c \in Database
           /\ c.instance = b.instance /\ c.token = b.token /\ c.job = b.job /\ c.incident = b.incident
           /\ DOMAIN c.sub = DOMAIN b.sub /\ Len(c.sub) = Len(b.sub)
           /\ \A i \in DOMAIN b.sub :
                 /\ i \in S => c.sub[i] = [b.sub[i] EXCEPT !.state = v]
                 /\ i \notin S => c.sub[i] = b.sub[i]
                 /\ c.sub[i].token = b.sub[i].token /\ c.sub[i].at = b.sub[i].at
                 /\ c.sub[i].event = b.sub[i].event
                 /\ c.sub[i].state = IF i \in S THEN v ELSE b.sub[i].state
<1> DEFINE new == [i \in DOMAIN b.sub |-> IF i \in S THEN [b.sub[i] EXCEPT !.state = v]
                                                     ELSE b.sub[i]]
           c == SetSubs(b, S, v)
<1>1. b.sub \in Seq(SubRow)
  BY DEF Database
<1>2. \A x \in SubRow : LET y == [x EXCEPT !.state = v] IN
         /\ y \in SubRow /\ y.state = v /\ y.token = x.token /\ y.at = x.at /\ y.event = x.event
  BY DEF SubRow
<1>3. \A i \in DOMAIN b.sub : /\ new[i] \in SubRow
                              /\ i \in S => new[i] = [b.sub[i] EXCEPT !.state = v]
                              /\ i \notin S => new[i] = b.sub[i]
                              /\ new[i].token = b.sub[i].token /\ new[i].at = b.sub[i].at
                              /\ new[i].event = b.sub[i].event
                              /\ new[i].state = IF i \in S THEN v ELSE b.sub[i].state
  BY <1>2, RowTypes
<1>4. new \in Seq(SubRow) /\ DOMAIN new = DOMAIN b.sub /\ Len(new) = Len(b.sub)
  <2>1. DOMAIN b.sub = 1..Len(b.sub) /\ Len(b.sub) \in Nat /\ DOMAIN new = DOMAIN b.sub
    BY <1>1
  <2> HIDE DEF new
  <2>2. new \in [1..Len(b.sub) -> SubRow]
    <3>1. new = [i \in 1..Len(b.sub) |-> new[i]]
      BY <2>1 DEF new
    <3>2. QED BY <1>3, <2>1, <3>1
  <2>3. QED BY <2>1, <2>2
<1>5. c = [b EXCEPT !.sub = new]
  BY DEF SetSubs
<1> HIDE DEF new
<1>6. /\ c \in Database /\ c.sub = new
      /\ c.instance = b.instance /\ c.token = b.token /\ c.job = b.job /\ c.incident = b.incident
  BY <1>4, <1>5 DEF Database
<1> HIDE DEF c
<1>7. QED BY <1>3, <1>4, <1>6 DEF c

\* Switching subscriptions off.
LEMMA SetSubsBatch ==
    ASSUME NEW b, Batch(b), NEW K, Known(b, K), NEW S, NEW v \in {"terminated", "failed"}
    PROVE  LET c == SetSubs(b, S, v) IN
           /\ Batch(c)
           /\ c.instance = b.instance /\ c.token = b.token
           /\ S \subseteq {s \in DOMAIN b.sub : b.sub[s].state # "lost"} => Known(c, K)
           /\ Gateways(c) = Gateways(b) \ S
           /\ GatewayTokens(c) \subseteq GatewayTokens(b)
<1> DEFINE c == SetSubs(b, S, v)
<1>1. b \in Database /\ v \in SubState
  BY DEF Batch, SubState
<1>2. /\ c \in Database
      /\ c.instance = b.instance /\ c.token = b.token /\ c.job = b.job /\ c.incident = b.incident
      /\ DOMAIN c.sub = DOMAIN b.sub /\ Len(c.sub) = Len(b.sub)
      /\ \A i \in DOMAIN b.sub :
            /\ i \in S => c.sub[i] = [b.sub[i] EXCEPT !.state = v]
            /\ i \notin S => c.sub[i] = b.sub[i]
            /\ c.sub[i].token = b.sub[i].token /\ c.sub[i].at = b.sub[i].at
            /\ c.sub[i].event = b.sub[i].event
            /\ c.sub[i].state = IF i \in S THEN v ELSE b.sub[i].state
  BY <1>1, SetSubsResult
<1> HIDE DEF c
<1>3. Gateways(c) = Gateways(b) \ S
  <2>1. ASSUME NEW i \in DOMAIN b.sub PROVE i \in Gateways(c) <=> i \in Gateways(b) /\ i \notin S
    BY <1>2, <2>1 DEF Gateways
  <2>2. Gateways(c) \subseteq DOMAIN b.sub /\ Gateways(b) \subseteq DOMAIN b.sub
    BY <1>2 DEF Gateways
  <2>3. QED BY <2>1, <2>2
<1>4. GatewayTokens(c) \subseteq GatewayTokens(b)
  <2>1. \A s \in Gateways(c) : s \in Gateways(b) /\ c.sub[s].token = b.sub[s].token
    BY <1>2, <1>3 DEF Gateways
  <2>2. QED BY <2>1 DEF GatewayTokens
<1>5. GatewaysWait(c)
  <2>1. SUFFICES ASSUME NEW s \in Gateways(c)
                 PROVE  LET k == c.sub[s].token
                        IN  /\ c.token[k] = [at |-> c.sub[s].at, state |-> "waiting"]
                            /\ \A j \in DOMAIN c.job : c.job[j].token # k
                            /\ \A i \in DOMAIN c.incident : c.incident[i].token # k
                            /\ \A r \in DOMAIN c.sub : c.sub[r].state = "active" /\ c.sub[r].token = k
                                                       => c.sub[r].at = c.sub[s].at
    BY DEF GatewaysWait
  <2>2. s \in Gateways(b) /\ s \in DOMAIN b.sub /\ c.sub[s] = b.sub[s]
    BY <1>2, <1>3 DEF Gateways
  <2>3. /\ \A r \in DOMAIN c.sub : c.sub[r].state = "active" => r \in DOMAIN b.sub /\ b.sub[r].state = "active"
        /\ \A r \in DOMAIN c.sub : c.sub[r].token = b.sub[r].token /\ c.sub[r].at = b.sub[r].at
        /\ c.token = b.token /\ c.job = b.job /\ c.incident = b.incident
    BY <1>2
  <2>4. GatewaysWait(b)
    BY DEF Batch
  <2>5. QED BY <2>2, <2>3, <2>4 DEF GatewaysWait
<1>6. OnePath(c)
  <2>1. /\ DOMAIN c.sub = DOMAIN b.sub
        /\ \A r \in DOMAIN b.sub : /\ c.sub[r].token = b.sub[r].token /\ c.sub[r].at = b.sub[r].at
                                   /\ c.sub[r].state = "active" => b.sub[r].state = "active"
                                   /\ c.sub[r].state = "completed" => b.sub[r].state = "completed"
    BY <1>2
  <2>2. OnePath(b)
    BY DEF Batch
  <2>3. QED BY <2>1, <2>2 DEF OnePath
<1>7. Batch(c)
  <2>1. \A s \in Gateways(c) : s \in Gateways(b) /\ c.sub[s] = b.sub[s]
    BY <1>2, <1>3 DEF Gateways
  <2>2. QED BY <1>2, <1>5, <1>6, <2>1 DEF Batch
<1>8. S \subseteq {s \in DOMAIN b.sub : b.sub[s].state # "lost"} => Known(c, K)
  <2>1. SUFFICES ASSUME S \subseteq {s \in DOMAIN b.sub : b.sub[s].state # "lost"} PROVE Known(c, K)
    OBVIOUS
  <2>2. /\ DOMAIN c.sub = DOMAIN b.sub
        /\ \A r \in DOMAIN b.sub : /\ c.sub[r].token = b.sub[r].token
                                   /\ b.sub[r].state = "lost" => c.sub[r].state = "lost"
        /\ c.token = b.token /\ c.job = b.job /\ c.incident = b.incident
    BY <1>2, <2>1
  <2>3. QED BY <2>2 DEF Known
<1>9. QED BY <1>2, <1>3, <1>4, <1>7, <1>8 DEF c

\* New subscriptions and timers, but those of gateways.
LEMMA MoreSubs ==
    ASSUME NEW b, Batch(b), NEW K, Known(b, K), NEW L, NEW rows \in Seq(SubRow),
           \A i \in DOMAIN rows : \/ rows[i].state = "lost"
                                  \/ /\ rows[i].state = "active"
                                     /\ Kind[rows[i].at] # "eventGateway"
                                     /\ rows[i].token \notin GatewayTokens(b)
                                     /\ rows[i].token \in L
    PROVE  LET c == [b EXCEPT !.sub = b.sub \o rows] IN
           /\ Batch(c)
           /\ Known(c, K \union L)
           /\ GatewayTokens(c) = GatewayTokens(b)
           /\ c.instance = b.instance /\ c.token = b.token
<1> DEFINE all == b.sub \o rows
           c == [b EXCEPT !.sub = b.sub \o rows]
<1>1. b \in Database /\ b.sub \in Seq(SubRow) /\ Len(b.sub) \in Nat /\ DOMAIN b.sub = 1..Len(b.sub)
  BY DEF Batch, Database
<1>2. /\ all \in Seq(SubRow)
      /\ Len(all) = Len(b.sub) + Len(rows) /\ Len(rows) \in Nat
      /\ DOMAIN b.sub \subseteq DOMAIN all
      /\ \A i \in DOMAIN b.sub : all[i] = b.sub[i]
  BY <1>1
<1>3. ASSUME NEW i \in DOMAIN all, i \notin DOMAIN b.sub
      PROVE  \E j \in DOMAIN rows : all[i] = rows[j]
  <2>1. i - Len(b.sub) \in DOMAIN rows /\ all[i] = rows[i - Len(b.sub)]
    BY <1>1, <1>2, <1>3
  <2>2. QED BY <2>1
<1>4. /\ c \in Database /\ c.sub = all
      /\ c.instance = b.instance /\ c.token = b.token /\ c.job = b.job /\ c.incident = b.incident
  BY <1>1, <1>2 DEF Database
<1> HIDE DEF all, c
<1>5. \A i \in DOMAIN c.sub : \/ i \in DOMAIN b.sub /\ c.sub[i] = b.sub[i]
                              \/ i \notin DOMAIN b.sub /\ c.sub[i].state = "lost"
                              \/ /\ i \notin DOMAIN b.sub
                                 /\ c.sub[i].state = "active"
                                 /\ Kind[c.sub[i].at] # "eventGateway"
                                 /\ c.sub[i].token \notin GatewayTokens(b)
                                 /\ c.sub[i].token \in L
  BY <1>2, <1>3, <1>4
<1>6. DOMAIN b.sub \subseteq DOMAIN c.sub /\ \A i \in DOMAIN b.sub : c.sub[i] = b.sub[i]
  BY <1>2, <1>4
<1>7. Gateways(c) = Gateways(b)
  <2>1. ASSUME NEW i \in Gateways(c) PROVE i \in Gateways(b)
    BY <1>5 DEF Gateways
  <2>2. ASSUME NEW i \in Gateways(b) PROVE i \in Gateways(c)
    BY <1>6 DEF Gateways
  <2>3. QED BY <2>1, <2>2
<1>8. \A s \in Gateways(b) : s \in DOMAIN b.sub /\ c.sub[s] = b.sub[s]
  BY <1>6 DEF Gateways
<1>9. GatewayTokens(c) = GatewayTokens(b)
  BY <1>7, <1>8 DEF GatewayTokens
<1>10. GatewaysWait(c)
  <2>1. SUFFICES ASSUME NEW s \in Gateways(c)
                 PROVE  LET k == c.sub[s].token
                        IN  /\ c.token[k] = [at |-> c.sub[s].at, state |-> "waiting"]
                            /\ \A j \in DOMAIN c.job : c.job[j].token # k
                            /\ \A i \in DOMAIN c.incident : c.incident[i].token # k
                            /\ \A r \in DOMAIN c.sub : c.sub[r].state = "active" /\ c.sub[r].token = k
                                                       => c.sub[r].at = c.sub[s].at
    BY DEF GatewaysWait
  <2>2. s \in Gateways(b) /\ c.sub[s] = b.sub[s] /\ c.sub[s].token \in GatewayTokens(b)
    BY <1>7, <1>8 DEF GatewayTokens
  <2>3. \A r \in DOMAIN c.sub : c.sub[r].state = "active" /\ c.sub[r].token = c.sub[s].token
                                => r \in DOMAIN b.sub /\ c.sub[r] = b.sub[r]
    BY <1>5, <2>2
  <2>4. GatewaysWait(b)
    BY DEF Batch
  <2>5. QED BY <1>4, <2>2, <2>3, <2>4 DEF GatewaysWait
<1>11. OnePath(c)
  <2>1. \A r \in DOMAIN c.sub : c.sub[r].state = "completed" => r \in DOMAIN b.sub /\ c.sub[r] = b.sub[r]
    BY <1>5
  <2>2. ASSUME NEW r \in DOMAIN c.sub, NEW s \in DOMAIN c.sub,
               r # s, c.sub[r].token = c.sub[s].token, c.sub[r].at = c.sub[s].at,
               Kind[c.sub[r].at] = "eventGateway", c.sub[r].state = "completed",
               c.sub[s].state \in {"completed", "active"}
        PROVE  FALSE
    <3>1. s \in DOMAIN b.sub /\ c.sub[s] = b.sub[s]
      BY <1>5, <2>2
    <3>2. OnePath(b)
      BY DEF Batch
    <3>3. QED BY <2>1, <2>2, <3>1, <3>2 DEF OnePath
  <2>3. QED BY <2>2 DEF OnePath
<1>12. Batch(c)
  <2>1. Len(db.sub) <= Len(c.sub)
    <3>1. Len(db.sub) <= Len(b.sub)
      BY DEF Batch
    <3>2. Len(c.sub) = Len(b.sub) + Len(rows)
      BY <1>2, <1>4
    <3>3. QED BY <1>1, <1>2, <3>1, <3>2
  <2>2. QED BY <1>4, <1>7, <1>8, <1>10, <1>11, <2>1 DEF Batch
<1>13. Known(c, K \union L)
  BY <1>4, <1>5 DEF Known
<1>14. QED BY <1>4, <1>9, <1>12, <1>13 DEF c

\* The rows that Subscribe adds.
LEMMA SubscribeRows ==
    ASSUME NEW b \in Database, NEW t \in MovingToken, NEW events \in Seq(Node)
    PROVE  \E rows \in Seq(SubRow) :
              /\ Subscribe(b, t, events) = [b EXCEPT !.sub = b.sub \o rows]
              /\ DOMAIN rows = DOMAIN events
              /\ \A i \in DOMAIN rows : /\ rows[i].state = "active" /\ rows[i].at = t.at
                                        /\ rows[i].token = t.key
<1> DEFINE rows == [i \in DOMAIN events |->
               [event |-> events[i], token |-> t.key, at |-> t.at, state |-> "active"]]
<1>1. Subscribe(b, t, events) = [b EXCEPT !.sub = b.sub \o rows]
  BY DEF Subscribe, Database
<1>2. t.key \in TokenKey /\ t.at \in Node
  BY DEF MovingToken
<1>3. \A i \in DOMAIN events : rows[i] \in SubRow
  BY <1>2 DEF SubRow, SubState
<1>4. DOMAIN rows = DOMAIN events /\ DOMAIN events = 1..Len(events) /\ Len(events) \in Nat
  OBVIOUS
<1>5. \A i \in DOMAIN rows : /\ rows[i].state = "active" /\ rows[i].at = t.at
                             /\ rows[i].token = t.key
  OBVIOUS
<1>6. rows \in Seq(SubRow)
  <2>1. rows = [i \in 1..Len(events) |-> rows[i]]
    BY <1>4
  <2> HIDE DEF rows
  <2>2. rows \in [1..Len(events) -> SubRow]
    BY <1>3, <1>4, <2>1
  <2>3. QED BY <1>4, <2>2
<1> HIDE DEF rows
<1>7. QED BY <1>1, <1>4, <1>5, <1>6

\* Subscriptions of a token that is not at a gateway touch no gateway.
LEMMA SubscribeBatch ==
    ASSUME NEW b, Batch(b), NEW K, Known(b, K), NEW t \in MovingToken, NEW events \in Seq(Node),
           Kind[t.at] # "eventGateway", t.key \notin GatewayTokens(b)
    PROVE  LET c == Subscribe(b, t, events) IN
           /\ Batch(c)
           /\ Known(c, K \union {t.key})
           /\ GatewayTokens(c) = GatewayTokens(b)
           /\ c.instance = b.instance /\ c.token = b.token
<1>1. b \in Database
  BY DEF Batch
<1>2. PICK rows \in Seq(SubRow) :
              /\ Subscribe(b, t, events) = [b EXCEPT !.sub = b.sub \o rows]
              /\ DOMAIN rows = DOMAIN events
              /\ \A i \in DOMAIN rows : /\ rows[i].state = "active" /\ rows[i].at = t.at
                                        /\ rows[i].token = t.key
  BY <1>1, SubscribeRows, Zenon
<1>3. \A i \in DOMAIN rows : \/ rows[i].state = "lost"
                             \/ /\ rows[i].state = "active"
                                /\ Kind[rows[i].at] # "eventGateway"
                                /\ rows[i].token \notin GatewayTokens(b)
                                /\ rows[i].token \in {t.key}
  BY <1>2
<1> DEFINE L == {t.key}
<1>4. \A i \in DOMAIN rows : \/ rows[i].state = "lost"
                             \/ /\ rows[i].state = "active"
                                /\ Kind[rows[i].at] # "eventGateway"
                                /\ rows[i].token \notin GatewayTokens(b)
                                /\ rows[i].token \in L
  BY <1>3
<1>5. Subscribe(b, t, events) = [b EXCEPT !.sub = b.sub \o rows]
  BY <1>2
<1> HIDE DEF L
<1>6. LET c == [b EXCEPT !.sub = b.sub \o rows] IN
           /\ Batch(c)
           /\ Known(c, K \union L)
           /\ GatewayTokens(c) = GatewayTokens(b)
           /\ c.instance = b.instance /\ c.token = b.token
  BY <1>4, MoreSubs
<1>7. QED BY <1>5, <1>6 DEF L

\* The timers of a batch that was lost are no gateway's any more.
LEMMA LostBatch ==
    ASSUME RowsInv, NEW b \in Database
    PROVE  LET c == LostTimers(b) IN
           /\ Batch(c)
           /\ Known(c, {})
           /\ GatewayTokens(c) = GatewayTokens(db)
           /\ c.instance = db.instance
<1> DEFINE at == {i \in DOMAIN b.sub : i > Len(db.sub) /\ Kind[b.sub[i].event] \in TimerKinds}
           timers == Kept(b.sub, at)
           lost == [i \in DOMAIN timers |-> [timers[i] EXCEPT !.state = "lost"]]
           none == {}
<1>1. Batch(db) /\ Known(db, none) /\ db \in Database
  BY NoWrite DEF RowsInv
<1>2. CASE ~StaleTimers
  BY <1>1, <1>2 DEF LostTimers
<1>3. CASE StaleTimers
  <2>1. LostTimers(b) = [db EXCEPT !.sub = db.sub \o lost]
    BY <1>1, <1>3 DEF LostTimers, Database
  <2>2. at \subseteq DOMAIN b.sub /\ b.sub \in Seq(SubRow)
    BY DEF Database
  <2> HIDE DEF at
  <2>3. timers \in Seq(SubRow)
    BY <2>2, KeptResult
  <2> HIDE DEF timers
  <2>4. \A i \in DOMAIN timers : lost[i] \in SubRow /\ lost[i].state = "lost"
    <3>1. \A x \in SubRow : LET y == [x EXCEPT !.state = "lost"] IN y \in SubRow /\ y.state = "lost"
      BY DEF SubRow, SubState
    <3>2. \A i \in DOMAIN timers : timers[i] \in SubRow
      BY <2>3
    <3>3. QED BY <3>1, <3>2
  <2>5. DOMAIN lost = DOMAIN timers /\ DOMAIN timers = 1..Len(timers) /\ Len(timers) \in Nat
    BY <2>3
  <2>6. lost \in Seq(SubRow)
    <3>1. lost = [i \in 1..Len(timers) |-> lost[i]]
      BY <2>5
    <3> HIDE DEF lost
    <3>2. lost \in [1..Len(timers) -> SubRow]
      BY <2>4, <2>5, <3>1
    <3>3. QED BY <2>5, <3>2
  <2> HIDE DEF lost
  <2>7. \A i \in DOMAIN lost : lost[i].state = "lost"
    BY <2>4, <2>5
  <2> HIDE DEF none
  <2>8. LET c == [db EXCEPT !.sub = db.sub \o lost] IN
           /\ Batch(c)
           /\ Known(c, none \union none)
           /\ GatewayTokens(c) = GatewayTokens(db)
           /\ c.instance = db.instance
    BY <1>1, <2>6, <2>7, MoreSubs
  <2>9. none \union none = none
    OBVIOUS
  <2>10. QED BY <2>1, <2>8, <2>9 DEF none
<1>4. QED BY <1>2, <1>3

-----------------------------------------------------------------------------
(* New tokens.                                                             *)

\* No row and no goroutine knows a token key that is not in use.
LEMMA UnusedFacts ==
    ASSUME RowsInv, NEW k \in Unused
    PROVE  /\ k \in TokenKey
           /\ db.token[k].state = "none"
           /\ \A p \in Proc : \A i \in DOMAIN proc[p].tokens : proc[p].tokens[i].key # k
           /\ \A j \in DOMAIN db.job : db.job[j].token # k
           /\ \A s \in DOMAIN db.sub : db.sub[s].state # "lost" => db.sub[s].token # k
           /\ \A i \in DOMAIN db.incident : db.incident[i].token # k
           /\ k \notin GatewayTokens(db)
<1>1. /\ k \in TokenKey /\ db.token[k].state = "none"
      /\ \A p \in Proc : \A i \in DOMAIN proc[p].tokens : proc[p].tokens[i].key # k
  BY DEF Unused
<1>2. /\ \A j \in DOMAIN db.job : db.job[j].token # k
      /\ \A s \in DOMAIN db.sub : db.sub[s].state # "lost" => db.sub[s].token # k
      /\ \A i \in DOMAIN db.incident : db.incident[i].token # k
  BY <1>1 DEF RowsInv, Known
<1>3. k \notin GatewayTokens(db)
  BY <1>2 DEF GatewayTokens, Gateways
<1>4. QED BY <1>1, <1>2, <1>3

\* The keys of new tokens are not in use, as long as there are enough.
LEMMA FreshResult ==
    /\ Cardinality(Unused) \in Nat
    /\ \A i \in 1..Cardinality(Unused) : Fresh(i) \in Unused
<1>1. Unused \subseteq TokenKey /\ TokenKey = 1..MaxTokens /\ MaxTokens \in Nat
  BY EngineAssumption DEF Unused, TokenKey
<1>2. IsFiniteSet(1..MaxTokens)
  BY <1>1, FS_Interval
<1>3. IsFiniteSet(Unused) /\ Unused \subseteq Nat
  <2>1. Unused \subseteq 1..MaxTokens
    BY <1>1
  <2>2. IsFiniteSet(Unused)
    BY <1>2, <2>1, FS_Subset
  <2>3. 1..MaxTokens \subseteq Nat
    BY <1>1
  <2>4. QED BY <2>1, <2>2, <2>3
<1>4. ASSUME NEW i \in 1..Cardinality(Unused) PROVE Fresh(i) \in Unused
  <2> DEFINE P(k) == Cardinality({j \in Unused : j < k}) = i - 1
  <2>1. \E k \in Unused : P(k)
    BY <1>3, RanksAreTaken
  <2>2. Fresh(i) = CHOOSE k \in Unused : P(k)
    BY DEF Fresh
  <2> HIDE DEF P
  <2>3. QED BY <2>1, <2>2
<1>5. QED BY <1>3, <1>4, FS_CardinalityType

\* The tokens that toks moves: k and new ones.
Moves(toks, k) ==
    /\ toks \in Seq(MovingToken)
    /\ \E i \in DOMAIN toks : toks[i].key = k
    /\ \A i \in DOMAIN toks : toks[i].key = k \/ toks[i].key \in Unused

\* The token that Token makes.
LEMMA TokenTypes ==
    ASSUME NEW k \in TokenKey, NEW n \in Node, NEW s \in TokenState
    PROVE  /\ Token(k, n, s) \in MovingToken
           /\ Token(k, n, s).key = k /\ Token(k, n, s).at = n /\ Token(k, n, s).state = s
BY DEF Token, MovingToken

\* A sequence of one token moves that token.
LEMMA OneToken ==
    ASSUME NEW t \in MovingToken
    PROVE  /\ <<t>> \in Seq(MovingToken)
           /\ DOMAIN <<t>> = {1} /\ <<t>>[1] = t
           /\ Moves(<<t>>, t.key)
<1>1. <<t>> \in Seq(MovingToken) /\ DOMAIN <<t>> = {1} /\ <<t>>[1] = t
  OBVIOUS
<1> DEFINE one == <<t>>
<1> HIDE DEF one
<1>2. one \in Seq(MovingToken) /\ DOMAIN one = {1} /\ one[1] = t
  BY <1>1 DEF one
<1>3. Moves(one, t.key)
  BY <1>2 DEF Moves
<1>4. QED BY <1>1, <1>3 DEF one

\* Following the flows of a node moves its token and makes new ones.
LEMMA TransitionResult ==
    ASSUME NEW n \in Node, NEW k \in TokenKey, Len(Out[n]) <= Cardinality(Unused)
    PROVE  Moves(Transition(n, k), k)
<1>1. Out[n] \in Seq(Node) /\ DOMAIN Out[n] = 1..Len(Out[n]) /\ Len(Out[n]) \in Nat
  BY ProcessDefinition
<1>2. CASE Out[n] = <<>>
  <2>1. Token(k, n, "completed") \in MovingToken /\ Token(k, n, "completed").key = k
    BY TokenTypes DEF TokenState
  <2> DEFINE t == Token(k, n, "completed")
  <2>2. Transition(n, k) = <<t>>
    BY <1>2 DEF Transition
  <2> HIDE DEF t
  <2>3. QED BY <2>1, <2>2, OneToken DEF t
<1>3. CASE Out[n] # <<>>
  <2> DEFINE toks == [i \in DOMAIN Out[n] |->
                        Token(IF i = 1 THEN k ELSE Fresh(i - 1), Out[n][i], "running")]
  <2>1. Transition(n, k) = toks
    BY <1>3 DEF Transition
  <2>2. ASSUME NEW i \in DOMAIN Out[n]
        PROVE  toks[i] \in MovingToken /\ (toks[i].key = k \/ toks[i].key \in Unused)
    <3> DEFINE key == IF i = 1 THEN k ELSE Fresh(i - 1)
    <3>1. key = k \/ key \in Unused
      BY <1>1, FreshResult
    <3>2. key \in TokenKey
      BY <3>1 DEF Unused
    <3>3. toks[i] = Token(key, Out[n][i], "running") /\ Out[n][i] \in Node
      BY <1>1
    <3> HIDE DEF key, toks
    <3>4. QED BY <3>1, <3>2, <3>3, TokenTypes DEF TokenState
  <2>3. DOMAIN toks = 1..Len(Out[n])
    BY <1>1
  <2>4. toks = [i \in 1..Len(Out[n]) |-> toks[i]]
    BY <1>1
  <2>7. 1 \in DOMAIN toks /\ toks[1].key = k
    <3>1. 1 \in DOMAIN Out[n]
      BY <1>1, <1>3
    <3>2. toks[1] = Token(k, Out[n][1], "running")
      BY <3>1
    <3>3. QED BY <3>1, <3>2 DEF Token
  <2> HIDE DEF toks
  <2>5. toks \in Seq(MovingToken)
    <3>1. toks \in [1..Len(Out[n]) -> MovingToken]
      BY <1>1, <2>2, <2>4
    <3>2. QED BY <1>1, <3>1
  <2>6. QED BY <1>1, <2>1, <2>2, <2>3, <2>5, <2>7 DEF Moves
<1>4. QED BY <1>2, <1>3

\* So does the fork of a token, and completing it moves only that token.
LEMMA ForkResult ==
    ASSUME NEW t \in MovingToken, NEW targets \in Seq(Node), Len(targets) <= Cardinality(Unused)
    PROVE  Moves(Fork(t, targets), t.key) /\ Moves(Complete(t), t.key)
<1> DEFINE done == Token(t.key, t.at, "completed")
           toks == [i \in DOMAIN targets |-> Token(Fresh(i), targets[i], "running")]
<1>1. done \in MovingToken /\ done.key = t.key
  BY TokenTypes DEF TokenState, MovingToken
<1>2. Complete(t) = <<done>> /\ Fork(t, targets) = <<done>> \o toks
  BY DEF Complete, Fork
<1> HIDE DEF done
<1>3. DOMAIN targets = 1..Len(targets) /\ Len(targets) \in Nat
  OBVIOUS
<1>4. ASSUME NEW i \in DOMAIN targets PROVE toks[i] \in MovingToken /\ toks[i].key \in Unused
  <2>1. Fresh(i) \in Unused
    BY <1>3, FreshResult
  <2>2. Fresh(i) \in TokenKey
    BY <2>1 DEF Unused
  <2>3. toks[i] = Token(Fresh(i), targets[i], "running") /\ targets[i] \in Node
    BY <1>3
  <2> HIDE DEF toks
  <2>4. QED BY <2>1, <2>2, <2>3, TokenTypes DEF TokenState
<1>5. toks \in Seq(MovingToken) /\ DOMAIN toks = 1..Len(targets)
  <2>1. toks = [i \in 1..Len(targets) |-> toks[i]]
    BY <1>3
  <2> HIDE DEF toks
  <2>2. toks \in [1..Len(targets) -> MovingToken]
    BY <1>3, <1>4, <2>1
  <2>3. QED BY <1>3, <2>2
<1> HIDE DEF toks
<1>6. /\ <<done>> \o toks \in Seq(MovingToken)
      /\ 1 \in DOMAIN (<<done>> \o toks) /\ (<<done>> \o toks)[1] = done
      /\ \A i \in DOMAIN (<<done>> \o toks) : \/ (<<done>> \o toks)[i] = done
                                              \/ \E j \in DOMAIN toks : (<<done>> \o toks)[i] = toks[j]
  <2> DEFINE one == <<done>>
             all == one \o toks
  <2>1. one \in Seq(MovingToken) /\ Len(one) = 1 /\ one[1] = done
    BY <1>1
  <2> HIDE DEF one
  <2>2. all \in Seq(MovingToken) /\ DOMAIN all = 1..(1 + Len(toks)) /\ Len(toks) \in Nat
    <3>0. toks \in Seq(MovingToken) /\ one \in Seq(MovingToken)
      BY <1>5, <2>1
    <3>1. Len(toks) \in Nat /\ all \in Seq(MovingToken) /\ Len(all) = Len(one) + Len(toks)
      BY <3>0
    <3>2. DOMAIN all = 1..Len(all)
      BY <3>1
    <3> HIDE DEF all
    <3>3. QED BY <2>1, <3>1, <3>2
  <2>3. ASSUME NEW i \in DOMAIN all PROVE all[i] = done \/ \E j \in DOMAIN toks : all[i] = toks[j]
    <3>1. CASE i = 1
      BY <1>5, <2>1, <3>1
    <3>2. CASE i # 1
      <4>1. i - 1 \in DOMAIN toks /\ all[i] = toks[i - 1]
        BY <1>5, <2>1, <2>2, <3>2
      <4>2. QED BY <4>1
    <3>3. QED BY <3>1, <3>2
  <2>4. 1 \in DOMAIN all /\ all[1] = done
    BY <1>5, <2>1, <2>2
  <2>5. QED BY <2>2, <2>3, <2>4 DEF one
<1>7. Moves(Complete(t), t.key)
  BY <1>1, <1>2, OneToken
<1> DEFINE all == <<done>> \o toks
<1> HIDE DEF all
<1>8. /\ all \in Seq(MovingToken) /\ 1 \in DOMAIN all /\ all[1] = done /\ Fork(t, targets) = all
      /\ \A i \in DOMAIN all : all[i] = done \/ \E j \in DOMAIN toks : all[i] = toks[j]
  BY <1>2, <1>6 DEF all
<1>9. Moves(all, t.key)
  BY <1>1, <1>3, <1>4, <1>5, <1>8 DEF Moves
<1>10. QED BY <1>7, <1>8, <1>9

\* The running tokens of a sequence are tokens of the sequence.
LEMMA RunningResult ==
    ASSUME NEW toks \in Seq(MovingToken)
    PROVE  /\ Running(toks) \in Seq(MovingToken)
           /\ \A i \in DOMAIN Running(toks) :
                 \E j \in DOMAIN toks : Running(toks)[i] = toks[j] /\ toks[j].state = "running"
<1> DEFINE at == {i \in DOMAIN toks : toks[i].state = "running"}
<1>1. Running(toks) = Kept(toks, at) /\ at \subseteq DOMAIN toks
  BY DEF Running
<1>2. \A k \in at : k \in DOMAIN toks /\ toks[k].state = "running"
  OBVIOUS
<1> HIDE DEF at
<1>3. QED BY <1>1, <1>2, KeptResult

-----------------------------------------------------------------------------
(* The outcomes of a node.                                                 *)

\* handleProcessInstanceInnerCancel switches the gateways off before it touches
\* a token, so that it may be cut short anywhere.
LEMMA CancelBatches ==
    ASSUME RowsInv
    PROVE  /\ \A omit : /\ Batch(InnerCancel(omit)) /\ Known(InnerCancel(omit), {})
                        /\ GatewayTokens(InnerCancel(omit)) = {}
           /\ \A b \in CutShort : /\ Batch(b) /\ Known(b, {})
                                  /\ GatewayTokens(b) \subseteq GatewayTokens(db)
<1> DEFINE messages  == SetSubs(db, ActiveMessages, "terminated")
           timers    == SetSubs(db, ActiveSubs, "terminated")
           jobs      == SetJobs(timers, PendingJobs, "terminated")
           incidents == ResolveIncidents(jobs, DOMAIN db.incident)
           none == {}
<1>1. CancelledWork = <<db, messages, timers, jobs, incidents>>
  BY DEF CancelledWork
<1>2. Batch(db) /\ Known(db, none)
  BY NoWrite DEF RowsInv
<1>3. /\ ActiveSubs \subseteq {s \in DOMAIN db.sub : db.sub[s].state # "lost"}
      /\ ActiveMessages \subseteq {s \in DOMAIN db.sub : db.sub[s].state # "lost"}
      /\ Gateways(db) \subseteq ActiveSubs
  BY DEF ActiveSubs, ActiveMessages, Gateways
<1> HIDE DEF none
<1>4. /\ Batch(messages) /\ Known(messages, none)
      /\ GatewayTokens(messages) \subseteq GatewayTokens(db)
  BY <1>2, <1>3, SetSubsBatch
<1>5. /\ Batch(timers) /\ Known(timers, none) /\ timers.token = db.token
      /\ Gateways(timers) = {}
  BY <1>2, <1>3, SetSubsBatch
<1> HIDE DEF messages, timers
<1>6. GatewayTokens(timers) = {}
  BY <1>5 DEF GatewayTokens
<1>7. Batch(jobs) /\ Known(jobs, none) /\ jobs.token = db.token /\ GatewayTokens(jobs) = {}
  BY <1>5, <1>6, SetJobsBatch DEF JobState
<1> HIDE DEF jobs
<1>8. /\ Batch(incidents) /\ Known(incidents, none) /\ incidents.token = db.token
      /\ GatewayTokens(incidents) = {}
  BY <1>7, ResolveIncidentsBatch
<1> HIDE DEF incidents
<1>9. ASSUME NEW K, K \subseteq ActiveTokens
      PROVE  LET c == CancelTokens(incidents, K) IN
             Batch(c) /\ Known(c, {}) /\ GatewayTokens(c) = {}
  <2>1. \A k \in K : incidents.token[k].state # "none"
    BY <1>8, <1>9 DEF ActiveTokens
  <2>2. K \intersect GatewayTokens(incidents) = {}
    BY <1>8
  <2>3. Known(incidents, {})
    BY <1>8 DEF none
  <2>4. QED BY <1>8, <2>1, <2>2, <2>3, CancelTokensBatch
<1>10. ASSUME NEW omit
       PROVE  /\ Batch(InnerCancel(omit)) /\ Known(InnerCancel(omit), {})
              /\ GatewayTokens(InnerCancel(omit)) = {}
  <2> DEFINE K == ActiveTokens \ omit
  <2>1. InnerCancel(omit) = CancelTokens(incidents, K) /\ K \subseteq ActiveTokens
    BY <1>1 DEF InnerCancel
  <2> HIDE DEF K
  <2>2. QED BY <1>9, <2>1
<1>11. ASSUME NEW b \in CutShort
       PROVE  Batch(b) /\ Known(b, none) /\ GatewayTokens(b) \subseteq GatewayTokens(db)
  <2>1. CASE \E i \in 1..4 : b = CancelledWork[i]
    <3>1. b \in {db, messages, timers, jobs}
      BY <1>1, <2>1
    <3>2. QED BY <1>2, <1>4, <1>5, <1>6, <1>7, <3>1
  <2>2. CASE \E m \in ActiveTokens : b = CancelTokens(CancelledWork[5], {k \in ActiveTokens : k < m})
    <3>1. PICK m \in ActiveTokens : b = CancelTokens(CancelledWork[5], {k \in ActiveTokens : k < m})
      BY <2>2
    <3> DEFINE K == {k \in ActiveTokens : k < m}
    <3>2. b = CancelTokens(incidents, K) /\ K \subseteq ActiveTokens
      BY <1>1, <3>1
    <3> HIDE DEF K
    <3>3. QED BY <1>9, <3>2 DEF none
  <2>3. QED BY <2>1, <2>2 DEF CutShort
<1>12. QED BY <1>10, <1>11 DEF none

\* What a node but an event-based gateway does with a token that waits at none.
Plain(r, k) ==
    /\ Batch(r.b) /\ Known(r.b, {k})
    /\ GatewayTokens(r.b) \subseteq GatewayTokens(db)
    /\ Moves(r.tokens, k)

\* What is known but for some tokens is known but for more.
LEMMA KnownMore ==
    ASSUME NEW b, NEW K, NEW L, Known(b, K), K \subseteq L
    PROVE  Known(b, L)
BY DEF Known

\* Every outcome of a node that is no event-based gateway touches no gateway.
LEMMA OutcomesArePlain ==
    ASSUME RowsInv, Room, NEW t \in MovingToken, t.key \notin GatewayTokens(db),
           NEW r \in ProcessFlowNode(t), Kind[t.at] # "eventGateway"
    PROVE  Plain(r, t.key)
<1> DEFINE k == t.key
           n == t.at
           none == {}
           me == {t.key}
<1>1. /\ k \in TokenKey /\ n \in Node
      /\ Out[n] \in Seq(Node) /\ Boundary[n] \in Seq(Node)
      /\ Len(Out[n]) <= Cardinality(Unused)
  BY ProcessDefinition DEF MovingToken, Room
<1>2. Batch(db) /\ Known(db, none)
  BY NoWrite DEF RowsInv
<1>3. Known(db, me)
  BY <1>2, KnownMore
<1>4. ASSUME NEW toks, Moves(toks, k) PROVE Plain(Outcome(db, toks), k)
  BY <1>2, <1>3, <1>4 DEF Plain, Outcome
<1>5. ASSUME NEW m \in Node, NEW s \in TokenState PROVE Moves(<<Token(k, m, s)>>, k)
  <2>1. Token(k, m, s) \in MovingToken /\ Token(k, m, s).key = k
    BY <1>1, TokenTypes
  <2> DEFINE x == Token(k, m, s)
  <2> HIDE DEF x
  <2>2. Moves(<<x>>, k)
    BY <2>1, OneToken DEF x
  <2>3. QED BY <2>2 DEF x
<1>6. Moves(Wait(t), k) /\ Moves(Complete(t), k)
  BY <1>1, <1>5 DEF Wait, Complete, TokenState
<1>7. Moves(Transition(n, k), k)
  BY <1>1, TransitionResult
<1>8. CASE r \in CreateJob(t)
  <2> DEFINE active == SaveJob(db, t, "active")
             done == SaveJob(db, t, "completed")
             b == Subscribe(active, t, Boundary[n])
  <2> HIDE DEF none
  <2>1. /\ Batch(active) /\ Known(active, none \union me) /\ GatewayTokens(active) = GatewayTokens(db)
        /\ Batch(done) /\ Known(done, none \union me) /\ GatewayTokens(done) = GatewayTokens(db)
    BY <1>2, SaveJobBatch DEF JobState
  <2> HIDE DEF active, done
  <2>2. Batch(b) /\ Known(b, (none \union me) \union me) /\ GatewayTokens(b) = GatewayTokens(db)
    BY <1>1, <2>1, SubscribeBatch
  <2>3. none \union me = me /\ (none \union me) \union me = me
    BY DEF none
  <2> HIDE DEF b, me
  <2>4. CASE r = Outcome(b, Wait(t))
    BY <1>6, <2>2, <2>3, <2>4 DEF Plain, Outcome, me
  <2>5. CASE r = Outcome(done, Transition(n, k))
    BY <1>7, <2>1, <2>3, <2>5 DEF Plain, Outcome, me
  <2>6. QED BY <1>8, <2>4, <2>5 DEF CreateJob, b, active, done
<1>9. CASE Kind[n] = "linkThrow" /\ r \in ThrowLink(t)
  <2>1. PICK m \in {Out[n][1]} : r = Outcome(db, <<Token(k, m, "running")>>)
    BY <1>9 DEF ThrowLink
  <2>2. Out[n] # <<>>
    BY <1>1, <1>9, ProcessDefinition DEF EndKinds
  <2>3. m \in Node
    BY <1>1, <2>1, <2>2
  <2>4. QED BY <1>4, <1>5, <2>1, <2>3 DEF TokenState
<1>10. CASE r \in CatchEvent(t)
  <2> DEFINE ev == <<t.at>>
             b == Subscribe(db, t, ev)
  <2>1. ev \in Seq(Node)
    BY <1>1
  <2> HIDE DEF none, ev
  <2>2. Batch(b) /\ Known(b, none \union me) /\ GatewayTokens(b) = GatewayTokens(db)
    BY <1>1, <1>2, <2>1, SubscribeBatch
  <2>3. none \union me = me
    BY DEF none
  <2> HIDE DEF b, me
  <2>4. r = Outcome(b, Wait(t))
    BY <1>10 DEF CatchEvent, b, ev
  <2>5. QED BY <1>6, <2>2, <2>3, <2>4 DEF Plain, Outcome, me
<1>11. CASE r \in HandleExclusiveGateway(t)
  <2>1. PICK i \in DOMAIN Out[n] : r = Outcome(db, <<Token(k, Out[n][i], "running")>>)
    BY <1>11 DEF HandleExclusiveGateway
  <2>2. Out[n][i] \in Node
    BY <1>1
  <2>3. QED BY <1>4, <1>5, <2>1, <2>2 DEF TokenState
<1>12. CASE r \in HandleInclusiveGateway(t)
  <2>1. PICK I \in SUBSET DOMAIN Out[n] : r = Outcome(db, Fork(t, Kept(Out[n], I)))
    BY <1>12 DEF HandleInclusiveGateway
  <2>2. Kept(Out[n], I) \in Seq(Node) /\ Len(Kept(Out[n], I)) <= Len(Out[n])
    BY <1>1, KeptResult
  <2>3. Len(Kept(Out[n], I)) <= Cardinality(Unused)
    <3>1. Len(Kept(Out[n], I)) \in Nat /\ Len(Out[n]) \in Nat /\ Cardinality(Unused) \in Nat
      BY <1>1, <2>2, FreshResult
    <3>2. QED BY <1>1, <2>2, <3>1
  <2>4. Moves(Fork(t, Kept(Out[n], I)), k)
    BY <2>2, <2>3, ForkResult
  <2>5. QED BY <1>4, <2>1, <2>4
<1>13. CASE r \in HandleParallelGateway(t)
  <2>1. r = Outcome(db, Fork(t, Out[n])) \/ r = Outcome(db, Complete(t))
    BY <1>13 DEF HandleParallelGateway
  <2>2. Moves(Fork(t, Out[n]), k)
    BY <1>1, ForkResult
  <2>3. QED BY <1>4, <1>6, <2>1, <2>2
<1>14. CASE r \in HandlePlainEndEvent(t)
  <2>1. r.b = db /\ r.tokens = Complete(t)
    BY <1>14 DEF HandlePlainEndEvent
  <2>2. QED BY <1>2, <1>3, <1>6, <2>1 DEF Plain
<1>15. CASE r \in HandleTerminateEndEvent(t)
  <2>1. r.b = InnerCancel(me) /\ r.tokens = Complete(t)
    BY <1>15 DEF HandleTerminateEndEvent
  <2>2. Batch(r.b) /\ Known(r.b, none) /\ GatewayTokens(r.b) = {}
    BY <2>1, CancelBatches
  <2>3. Known(r.b, me)
    BY <2>2, KnownMore
  <2>4. QED BY <1>6, <2>1, <2>2, <2>3 DEF Plain
<1>16. CASE r \in {Outcome(db, Transition(n, k))}
  BY <1>4, <1>7, <1>16
<1>17. QED
  BY <1>8, <1>9, <1>10, <1>11, <1>12, <1>13, <1>14, <1>15, <1>16 DEF ProcessFlowNode

\* The saved outcome of a node: whatever it was, the batch is a good one, and of
\* the tokens that go on none waits at a gateway, nor do those that are carried
\* already.
LEMMA PlainSaved ==
    ASSUME RowsInv, NEW k \in TokenKey \ GatewayTokens(db), NEW r, Plain(r, k), NEW i \in InstanceState
    PROVE  LET b == SaveTokens([r.b EXCEPT !.instance = i], r.tokens) IN
           /\ Batch(b) /\ Known(b, {})
           /\ GatewayTokens(b) \subseteq GatewayTokens(db)
           /\ CarriesNone(b, r.tokens)
<1> DEFINE c == [r.b EXCEPT !.instance = i]
           b == SaveTokens(c, r.tokens)
           me == {k}
           keys == {r.tokens[j].key : j \in DOMAIN r.tokens}
<1>1. Batch(r.b) /\ Known(r.b, me) /\ GatewayTokens(r.b) \subseteq GatewayTokens(db)
  BY DEF Plain
<1>2. r.tokens \in Seq(MovingToken) /\ k \in keys /\ keys \subseteq {k} \union Unused
  BY DEF Plain, Moves
<1>3. keys \intersect GatewayTokens(db) = {}
  BY <1>2, UnusedFacts
<1> HIDE DEF me
<1>4. Batch(c) /\ Known(c, me) /\ GatewayTokens(c) = GatewayTokens(r.b)
  BY <1>1, InstanceBatch
<1> HIDE DEF c
<1>5. CarriesNone(c, r.tokens)
  BY <1>1, <1>3, <1>4 DEF CarriesNone
<1>6. Batch(b) /\ Known(b, me \ keys) /\ GatewayTokens(b) = GatewayTokens(c)
  BY <1>2, <1>4, <1>5, SaveTokensBatch
<1> HIDE DEF b, keys
<1>7. me \ keys = {}
  BY <1>2 DEF me
<1>8. CarriesNone(b, r.tokens)
  BY <1>5, <1>6 DEF CarriesNone
<1>9. QED BY <1>1, <1>4, <1>6, <1>7, <1>8 DEF b, c

\* An event-based gateway makes a token of its own, which nobody carries.
LEMMA GatewaySaved ==
    ASSUME RowsInv, Room, NEW t \in MovingToken, t.key \notin GatewayTokens(db),
           t.key \notin Unused,
           NEW r \in ProcessFlowNode(t), Kind[t.at] = "eventGateway", NEW i \in InstanceState
    PROVE  LET b == SaveTokens([r.b EXCEPT !.instance = i], r.tokens) IN
           /\ r.b \in Database /\ r.tokens \in Seq(MovingToken)
           /\ Batch(b) /\ Known(b, {})
           /\ GatewayTokens(b) \subseteq GatewayTokens(db) \union Unused
           /\ t.key \notin GatewayTokens(b)
           /\ \A j \in DOMAIN r.tokens : r.tokens[j].state # "running"
<1> DEFINE k == t.key
           n == t.at
           g == Token(Fresh(1), n, "waiting")
           done == Token(k, n, "completed")
           toks == <<done, g>>
           c == [r.b EXCEPT !.instance = i]
           b == SaveTokens(c, r.tokens)
<1>1. /\ k \in TokenKey /\ n \in Node
      /\ Out[n] \in Seq(Node) /\ Out[n] # <<>>
      /\ Len(Out[n]) <= Cardinality(Unused)
  BY ProcessDefinition DEF MovingToken, Room, EndKinds
<1>2. Fresh(1) \in Unused
  <2>1. Len(Out[n]) \in Nat /\ Len(Out[n]) # 0
    BY <1>1
  <2>2. QED BY <1>1, <2>1, FreshResult
<1>3. /\ Fresh(1) \in TokenKey
      /\ Fresh(1) \notin GatewayTokens(db)
      /\ db.token[Fresh(1)].state = "none"
      /\ \A j \in DOMAIN db.job : db.job[j].token # Fresh(1)
      /\ \A s \in DOMAIN db.sub : db.sub[s].state # "lost" => db.sub[s].token # Fresh(1)
      /\ \A j \in DOMAIN db.incident : db.incident[j].token # Fresh(1)
  BY <1>2, UnusedFacts
<1>4. /\ g \in MovingToken /\ g.key = Fresh(1) /\ g.at = n /\ g.state = "waiting"
      /\ done \in MovingToken /\ done.key = k /\ done.at = n /\ done.state = "completed"
  BY <1>1, <1>3, TokenTypes DEF TokenState
<1>5. r.b = Subscribe(db, g, Out[n]) /\ r.tokens = toks
  BY DEF ProcessFlowNode, HandleEventBasedGateway, Outcome, Complete, JobKinds, CatchKinds
<1> HIDE DEF g, done
<1>6. /\ toks \in Seq(MovingToken) /\ DOMAIN toks = {1, 2}
      /\ toks[1] = done /\ toks[2] = g
  BY <1>4
<1> HIDE DEF toks
<1>7. /\ Batch(db) /\ Known(db, {}) /\ db \in Database /\ db.sub \in Seq(SubRow)
      /\ GatewaysWait(db) /\ OnePath(db)
  BY NoWrite DEF RowsInv, Database
<1>8. PICK rows \in Seq(SubRow) :
              /\ Subscribe(db, g, Out[n]) = [db EXCEPT !.sub = db.sub \o rows]
              /\ DOMAIN rows = DOMAIN Out[n]
              /\ \A j \in DOMAIN rows : /\ rows[j].state = "active" /\ rows[j].at = g.at
                                        /\ rows[j].token = g.key
  BY <1>1, <1>4, <1>7, SubscribeRows, Zenon
<1> DEFINE all == db.sub \o rows
<1>9. /\ all \in Seq(SubRow)
      /\ Len(all) = Len(db.sub) + Len(rows) /\ Len(rows) \in Nat /\ Len(db.sub) \in Nat
      /\ DOMAIN db.sub = 1..Len(db.sub) /\ DOMAIN db.sub \subseteq DOMAIN all
      /\ \A j \in DOMAIN db.sub : all[j] = db.sub[j]
  BY <1>7
<1>10. ASSUME NEW j \in DOMAIN all, j \notin DOMAIN db.sub
       PROVE  all[j].state = "active" /\ all[j].at = n /\ all[j].token = g.key
  <2>1. j - Len(db.sub) \in DOMAIN rows /\ all[j] = rows[j - Len(db.sub)]
    BY <1>7, <1>9, <1>10
  <2>2. QED BY <1>4, <1>8, <2>1
<1>11. /\ r.b \in Database /\ r.b.sub = all
       /\ r.b.token = db.token /\ r.b.job = db.job /\ r.b.incident = db.incident
  <2>1. r.b = [db EXCEPT !.sub = all]
    BY <1>5, <1>8
  <2> HIDE DEF all
  <2>2. QED BY <1>7, <1>9, <2>1 DEF Database
<1> HIDE DEF all
<1>12. /\ c \in Database /\ c.sub = all
       /\ c.token = db.token /\ c.job = db.job /\ c.incident = db.incident
  BY <1>11 DEF Database
<1> HIDE DEF c
<1>13. /\ b \in Database
       /\ b.job = db.job /\ b.sub = all /\ b.incident = db.incident
       /\ \A x \in TokenKey :
             \/ /\ b.token[x] = db.token[x]
                /\ \A j \in {1, 2} : toks[j].key # x
             \/ \E j \in {1, 2} : /\ toks[j].key = x
                                  /\ b.token[x] = [at |-> toks[j].at, state |-> toks[j].state]
  <2>1. toks \in Seq(MovingToken) /\ c \in Database /\ b = SaveTokens(c, toks)
    BY <1>5, <1>6, <1>12
  <2>2. /\ b \in Database
        /\ b.job = c.job /\ b.sub = c.sub /\ b.incident = c.incident
        /\ \A x \in TokenKey :
             \/ /\ b.token[x] = c.token[x]
                /\ \A j \in DOMAIN toks : toks[j].key # x
             \/ \E j \in DOMAIN toks : /\ toks[j].key = x
                                       /\ b.token[x] = [at |-> toks[j].at, state |-> toks[j].state]
    <3> DEFINE e == SaveTokens(c, toks)
    <3>1. /\ e \in Database
          /\ e.job = c.job /\ e.sub = c.sub /\ e.incident = c.incident
          /\ \A x \in TokenKey :
               \/ /\ e.token[x] = c.token[x]
                  /\ \A j \in DOMAIN toks : toks[j].key # x
               \/ \E j \in DOMAIN toks : /\ toks[j].key = x
                                         /\ e.token[x] = [at |-> toks[j].at, state |-> toks[j].state]
      BY <2>1, SavedTokens
    <3>2. b = e
      BY <2>1
    <3> HIDE DEF b, e
    <3>3. QED BY <3>1, <3>2
  <2> HIDE DEF b
  <2>3. QED BY <1>6, <1>12, <2>2
<1> HIDE DEF b
<1>14. k # g.key
  BY <1>2, <1>4
<1>15. /\ b.token[k] = [at |-> n, state |-> "completed"]
       /\ b.token[g.key] = [at |-> n, state |-> "waiting"]
       /\ \A x \in TokenKey \ {k, g.key} : b.token[x] = db.token[x]
  <2>1. g.key \in TokenKey
    BY <1>3, <1>4
  <2>2. QED BY <1>1, <1>4, <1>6, <1>13, <1>14, <2>1
<1>16. ASSUME NEW s \in DOMAIN b.sub
       PROVE  \/ /\ s \in DOMAIN db.sub /\ b.sub[s] = db.sub[s]
                 /\ db.sub[s].state # "lost" => db.sub[s].token # g.key
              \/ /\ s \notin DOMAIN db.sub
                 /\ b.sub[s].state = "active" /\ b.sub[s].at = n /\ b.sub[s].token = g.key
  BY <1>3, <1>4, <1>9, <1>10, <1>13, <1>16
<1>17. Known(b, {})
  <2>1. Known(db, {})
    BY <1>7
  <2>2. /\ \A x \in TokenKey : b.token[x].state # "none" => b.token[x].at \in Node
        /\ \A x \in TokenKey : db.token[x].state # "none" => b.token[x].state # "none"
        /\ b.token[g.key].state # "none"
    BY <1>1, <1>15, <2>1 DEF Known
  <2>3. \A s \in DOMAIN db.sub : db.sub[s].token \in TokenKey
    BY <1>7, RowTypes
  <2>4. /\ \A j \in DOMAIN db.job : db.job[j].token \in TokenKey
        /\ \A j \in DOMAIN db.incident : db.incident[j].token \in TokenKey
    BY <1>7, RowTypes
  <2>5. \A s \in DOMAIN b.sub : b.sub[s].state = "lost" \/ b.token[b.sub[s].token].state # "none"
    BY <1>16, <2>1, <2>2, <2>3 DEF Known
  <2>6. QED BY <1>13, <2>1, <2>2, <2>4, <2>5 DEF Known
<1>18. ASSUME NEW s \in Gateways(b)
       PROVE  \/ s \in Gateways(db) /\ b.sub[s] = db.sub[s] /\ b.sub[s].token \notin {k, g.key}
              \/ s \notin DOMAIN db.sub /\ b.sub[s].token = g.key /\ b.sub[s].at = n
  <2>1. s \in DOMAIN b.sub /\ b.sub[s].state = "active" /\ Kind[b.sub[s].at] = "eventGateway"
    BY <1>18 DEF Gateways
  <2>2. CASE s \in DOMAIN db.sub /\ b.sub[s] = db.sub[s]
    <3>1. s \in Gateways(db)
      BY <2>1, <2>2 DEF Gateways
    <3>2. db.sub[s].token \in GatewayTokens(db)
      BY <3>1 DEF GatewayTokens
    <3>3. QED BY <1>3, <1>4, <2>2, <3>1, <3>2
  <2>3. QED BY <1>16, <2>1, <2>2
<1>19. GatewaysWait(b)
  <2>1. SUFFICES ASSUME NEW s \in Gateways(b)
                 PROVE  LET x == b.sub[s].token
                        IN  /\ b.token[x] = [at |-> b.sub[s].at, state |-> "waiting"]
                            /\ \A j \in DOMAIN b.job : b.job[j].token # x
                            /\ \A h \in DOMAIN b.incident : b.incident[h].token # x
                            /\ \A q \in DOMAIN b.sub : b.sub[q].state = "active" /\ b.sub[q].token = x
                                                       => b.sub[q].at = b.sub[s].at
    BY DEF GatewaysWait
  <2>2. CASE s \in Gateways(db) /\ b.sub[s] = db.sub[s] /\ b.sub[s].token \notin {k, g.key}
    <3>1. s \in DOMAIN db.sub /\ db.sub[s].token \in TokenKey
      BY <1>7, <2>2, RowTypes DEF Gateways
    <3>2. b.token[b.sub[s].token] = db.token[db.sub[s].token]
      BY <1>15, <2>2, <3>1
    <3>3. ASSUME NEW q \in DOMAIN b.sub, b.sub[q].state = "active", b.sub[q].token = b.sub[s].token
          PROVE  b.sub[q].at = b.sub[s].at
      <4>1. q \in DOMAIN db.sub /\ b.sub[q] = db.sub[q]
        BY <1>16, <2>2, <3>3
      <4>2. \A y \in DOMAIN db.sub : db.sub[y].state = "active" /\ db.sub[y].token = db.sub[s].token
                                     => db.sub[y].at = db.sub[s].at
        BY <1>7, <2>2 DEF GatewaysWait
      <4>3. QED BY <2>2, <3>3, <4>1, <4>2
    <3>4. QED BY <1>7, <1>13, <2>2, <3>2, <3>3 DEF GatewaysWait
  <2>3. CASE s \notin DOMAIN db.sub /\ b.sub[s].token = g.key /\ b.sub[s].at = n
    <3>1. /\ \A j \in DOMAIN b.job : b.job[j].token # g.key
          /\ \A j \in DOMAIN b.incident : b.incident[j].token # g.key
      BY <1>3, <1>4, <1>13
    <3>2. \A q \in DOMAIN b.sub : b.sub[q].state = "active" /\ b.sub[q].token = g.key
                                  => b.sub[q].at = n
      BY <1>16
    <3>3. QED BY <1>15, <2>3, <3>1, <3>2
  <2>4. QED BY <1>18, <2>2, <2>3
<1>20. OnePath(b)
  <2>1. SUFFICES ASSUME NEW x \in DOMAIN b.sub, NEW s \in DOMAIN b.sub,
                        x # s, b.sub[x].token = b.sub[s].token, b.sub[x].at = b.sub[s].at,
                        Kind[b.sub[x].at] = "eventGateway", b.sub[x].state = "completed"
                 PROVE  b.sub[s].state \notin {"completed", "active"}
    BY DEF OnePath
  <2>2. x \in DOMAIN db.sub /\ b.sub[x] = db.sub[x] /\ db.sub[x].token # g.key
    BY <1>16, <2>1
  <2>3. s \in DOMAIN db.sub /\ b.sub[s] = db.sub[s]
    BY <1>16, <2>1, <2>2
  <2>4. QED BY <1>7, <2>1, <2>2, <2>3 DEF OnePath
<1>21. /\ GatewayTokens(b) \subseteq GatewayTokens(db) \union Unused
       /\ k \notin GatewayTokens(b)
  <2>1. g.key \in Unused
    BY <1>2, <1>4
  <2>2. ASSUME NEW x \in GatewayTokens(b)
        PROVE  x \in GatewayTokens(db) \union Unused /\ x # k
    <3>1. PICK s \in Gateways(b) : x = b.sub[s].token
      BY <2>2 DEF GatewayTokens
    <3>2. CASE s \in Gateways(db) /\ b.sub[s] = db.sub[s] /\ b.sub[s].token \notin {k, g.key}
      BY <3>1, <3>2 DEF GatewayTokens
    <3>3. CASE b.sub[s].token = g.key
      BY <1>14, <2>1, <3>1, <3>3
    <3>4. QED BY <1>18, <3>2, <3>3
  <2>3. QED BY <2>2
<1>22. Batch(b)
  <2>1. /\ Len(db.job) <= Len(b.job) /\ Len(db.sub) <= Len(b.sub)
        /\ Len(db.incident) <= Len(b.incident)
    <3>1. Len(db.job) \in Nat /\ Len(db.incident) \in Nat
      BY <1>7 DEF Database
    <3>2. QED BY <1>9, <1>13, <3>1
  <2>2. \A s \in Gateways(b) : \/ s \in DOMAIN db.sub /\ b.sub[s] = db.sub[s]
                               \/ s \notin DOMAIN db.sub /\ b.sub[s].token \in Unused
    BY <1>2, <1>4, <1>18 DEF Gateways
  <2>3. QED BY <1>13, <1>19, <1>20, <2>1, <2>2 DEF Batch
<1>23. r.tokens \in Seq(MovingToken) /\ \A j \in DOMAIN r.tokens : r.tokens[j].state # "running"
  BY <1>4, <1>5, <1>6
<1>24. QED BY <1>11, <1>17, <1>21, <1>22, <1>23 DEF b, c
-----------------------------------------------------------------------------
(* Steps: the batch is written, and one goroutine goes on.                 *)

\* A goroutine at rest carries nothing.
LEMMA IdleTypes ==
    /\ Idle \in Goroutine
    /\ \A b : Pending(b, Idle) /\ CarriesNone(b, Idle.tokens)
<1>1. <<>> \in Seq(MovingToken) /\ DOMAIN <<>> = {}
  OBVIOUS
<1>2. Idle \in Goroutine /\ Idle.pc = "idle" /\ Idle.tokens = <<>>
  BY <1>1 DEF Idle, Goroutine
<1>3. QED BY <1>1, <1>2 DEF Pending, CarriesNone

\* A batch with the invariant's parts, once flushed, gives the invariant of the rows.
LEMMA RowsStep ==
    ASSUME NEW b, Batch(b), Known(b, {}), db' = b
    PROVE  RowsInv'
<1>1. b \in Database /\ GatewaysWait(b) /\ OnePath(b)
  BY DEF Batch
<1>2. Known(db, {})'
  BY DEF Known
<1>3. GatewaysWait(db)'
  BY <1>1 DEF GatewaysWait, Gateways
<1>4. OnePath(db)'
  BY <1>1 DEF OnePath
<1>5. (db \in Database)'
  BY <1>1
<1>6. QED BY <1>2, <1>3, <1>4, <1>5 DEF RowsInv

\* A goroutine that does not move stays as it is with respect to a good batch.
LEMMA OthersStay ==
    ASSUME PathInv, NEW b, Batch(b), GatewayTokens(b) \subseteq GatewayTokens(db) \union Unused,
           NEW q \in Proc
    PROVE  Pending(b, proc[q]) /\ CarriesNone(b, proc[q].tokens)
<1>1. Pending(db, proc[q]) /\ CarriesNone(db, proc[q].tokens) /\ RowsInv
  BY DEF PathInv, ProcInv
<1>2. /\ DOMAIN db.job \subseteq DOMAIN b.job /\ DOMAIN db.sub \subseteq DOMAIN b.sub
      /\ DOMAIN db.incident \subseteq DOMAIN b.incident
  <2>1. db \in Database /\ b \in Database
    BY <1>1 DEF RowsInv, Batch
  <2>2. /\ db.job \in Seq(JobRow) /\ db.sub \in Seq(SubRow) /\ db.incident \in Seq(IncidentRow)
        /\ b.job \in Seq(JobRow) /\ b.sub \in Seq(SubRow) /\ b.incident \in Seq(IncidentRow)
    BY <2>1 DEF Database
  <2>3. /\ Len(db.job) <= Len(b.job) /\ Len(db.sub) <= Len(b.sub)
        /\ Len(db.incident) <= Len(b.incident)
    BY DEF Batch
  <2>4. QED BY <2>2, <2>3
<1>3. \A s \in DOMAIN db.sub : s \in Gateways(b) => s \in Gateways(db) /\ b.sub[s] = db.sub[s]
  BY DEF Batch, Gateways
<1>4. Pending(b, proc[q])
  BY <1>1, <1>2, <1>3 DEF Pending
<1>5. ASSUME NEW i \in DOMAIN proc[q].tokens PROVE proc[q].tokens[i].key \notin GatewayTokens(b)
  <2>1. proc[q].tokens[i].key \notin Unused
    BY <1>5 DEF Unused
  <2>2. QED BY <1>1, <1>5, <2>1 DEF CarriesNone
<1>6. QED BY <1>4, <1>5 DEF CarriesNone

\* ... and with a goroutine that goes on, the whole invariant.
LEMMA GoroutineStep ==
    ASSUME PathInv, NEW b, Batch(b), Known(b, {}), db' = b,
           GatewayTokens(b) \subseteq GatewayTokens(db) \union Unused,
           NEW p \in Proc, NEW x \in Goroutine, Pending(b, x), CarriesNone(b, x.tokens),
           proc' = [proc EXCEPT ![p] = x]
    PROVE  PathInv'
<1>1. RowsInv'
  BY RowsStep
<1>2. proc' \in [Proc -> Goroutine] /\ \A q \in Proc : proc'[q] = IF q = p THEN x ELSE proc[q]
  BY DEF PathInv, ProcInv
<1>3. ASSUME NEW q \in Proc PROVE Pending(b, proc'[q]) /\ CarriesNone(b, proc'[q].tokens)
  BY <1>2, OthersStay
<1>4. \A q \in Proc : (Pending(db, proc[q]) /\ CarriesNone(db, proc[q].tokens))'
  BY <1>3 DEF Pending, CarriesNone, GatewayTokens, Gateways
<1>5. ProcInv'
  BY <1>2, <1>4 DEF ProcInv
<1>6. QED BY <1>1, <1>5 DEF PathInv

\* The tokens that a call hands to RunProcessInstance do not wait at a gateway.
Going(b, toks) ==
    /\ toks \in Seq(MovingToken)
    /\ \A i \in DOMAIN toks : toks[i].state = "running" => toks[i].key \notin GatewayTokens(b)

\* A call goes on with running tokens, none of which waits at a gateway.
LEMMA GoingRuns ==
    ASSUME NEW b, NEW toks, Going(b, toks)
    PROVE  Running(toks) \in Seq(MovingToken) /\ CarriesNone(b, Running(toks))
<1>1. toks \in Seq(MovingToken)
  BY DEF Going
<1>2. /\ Running(toks) \in Seq(MovingToken)
      /\ \A i \in DOMAIN Running(toks) :
            \E j \in DOMAIN toks : Running(toks)[i] = toks[j] /\ toks[j].state = "running"
  BY <1>1, RunningResult
<1>3. QED BY <1>2 DEF Going, CarriesNone

\* A call that flushes a batch and returns keeps the invariant.
LEMMA ReturnStep ==
    ASSUME PathInv, NEW b, Batch(b), Known(b, {}), db' = b,
           GatewayTokens(b) \subseteq GatewayTokens(db) \union Unused,
           NEW p \in Proc, Return(p)
    PROVE  PathInv'
BY IdleTypes, GoroutineStep DEF Return

\* A call that is refused keeps the invariant.
LEMMA RefuseStep ==
    ASSUME PathInv, NEW p \in Proc, Refuse(p)
    PROVE  PathInv'
<1>1. Batch(db) /\ Known(db, {})
  BY NoWrite DEF PathInv, RowsInv
<1>2. Return(p) /\ db' = db
  BY DEF Refuse
<1>3. QED BY <1>1, <1>2, ReturnStep

\* A call that goes on to RunProcessInstance keeps the invariant.
LEMMA RunStarts ==
    ASSUME PathInv, NEW b, Batch(b), Known(b, {}), db' = b,
           GatewayTokens(b) \subseteq GatewayTokens(db) \union Unused,
           NEW p \in Proc, NEW toks, Going(b, toks), ThenRun(p, toks)
    PROVE  PathInv'
<1> DEFINE run == Running(toks)
           x == [Idle EXCEPT !.pc = "run", !.tokens = run]
<1>1. run \in Seq(MovingToken) /\ CarriesNone(b, run)
  BY GoingRuns
<1>2. proc' = [proc EXCEPT ![p] = x]
  BY DEF ThenRun
<1> HIDE DEF run
<1>3. x \in Goroutine /\ x.pc = "run" /\ x.tokens = run
  BY <1>1, IdleTypes DEF Goroutine
<1> HIDE DEF x
<1>4. Pending(b, x)
  BY <1>3 DEF Pending
<1>5. QED BY <1>1, <1>2, <1>3, <1>4, GoroutineStep

\* A flush that fails keeps the invariant: at most it leaves lost timers.
LEMMA FailedFlush ==
    ASSUME PathInv, NEW b \in Database, FlushFails(b), NEW p \in Proc, Return(p)
    PROVE  PathInv'
<1>1. RowsInv /\ db' = LostTimers(b)
  BY DEF PathInv, FlushFails
<1>2. Batch(LostTimers(b)) /\ Known(LostTimers(b), {}) /\ GatewayTokens(LostTimers(b)) = GatewayTokens(db)
  BY <1>1, LostBatch
<1>3. QED BY <1>1, <1>2, ReturnStep

\* The end of a call, whether its flush fails or not.
LEMMA FlushReturns ==
    ASSUME PathInv, NEW b, Batch(b), Known(b, {}),
           GatewayTokens(b) \subseteq GatewayTokens(db) \union Unused,
           NEW p \in Proc, FlushAndReturn(p, b)
    PROVE  PathInv'
<1>1. CASE db' = b /\ Return(p)
  BY <1>1, ReturnStep
<1>2. CASE FlushFails(b) /\ Return(p)
  BY <1>2, FailedFlush DEF Batch
<1>3. QED BY <1>1, <1>2 DEF FlushAndReturn

\* The end of a call that goes on with the tokens it has moved.
LEMMA FlushRuns ==
    ASSUME PathInv, NEW b, Batch(b), Known(b, {}),
           GatewayTokens(b) \subseteq GatewayTokens(db) \union Unused,
           NEW p \in Proc, NEW toks, Going(b, toks), FlushAndRun(p, b, toks)
    PROVE  PathInv'
<1>1. CASE db' = b /\ ThenRun(p, toks)
  BY <1>1, RunStarts
<1>2. CASE FlushFails(b) /\ Return(p)
  BY <1>2, FailedFlush DEF Batch
<1>3. QED BY <1>1, <1>2 DEF FlushAndRun

\* The tokens that leave with k when no gateway of the batch waits with k.
LEMMA MovesGo ==
    ASSUME RowsInv, NEW b, NEW k, NEW toks, Moves(toks, k), k \notin GatewayTokens(b),
           GatewayTokens(b) \subseteq GatewayTokens(db)
    PROVE  Going(b, toks) /\ CarriesNone(b, toks)
<1>1. \A u \in Unused : u \notin GatewayTokens(db)
  BY UnusedFacts
<1>2. QED BY <1>1 DEF Moves, Going, CarriesNone
-----------------------------------------------------------------------------
(* One lemma per action.                                                   *)

\* The token of a job, an incident or a subscription that lives has a row.
LEMMA TokensOfRows ==
    ASSUME RowsInv
    PROVE  /\ \A j \in DOMAIN db.job : /\ db.job[j].token \in TokenKey \ GatewayTokens(db)
                                       /\ At(db.job[j].token) \in Node
           /\ \A i \in DOMAIN db.incident : /\ db.incident[i].token \in TokenKey \ GatewayTokens(db)
                                            /\ At(db.incident[i].token) \in Node
           /\ \A s \in DOMAIN db.sub : /\ db.sub[s].token \in TokenKey
                                       /\ db.sub[s].state # "lost" => At(db.sub[s].token) \in Node
           /\ \A k \in ActiveTokens : At(k) \in Node
<1>1. db \in Database /\ Known(db, {}) /\ GatewaysWait(db)
  BY DEF RowsInv
<1>2. \A k \in TokenKey : db.token[k].state # "none" => At(k) \in Node
  BY <1>1 DEF Known, At
<1>3. \A j \in DOMAIN db.job : db.job[j].token \in TokenKey \ GatewayTokens(db)
  BY <1>1, RowTypes, GatewayFacts
<1>4. \A i \in DOMAIN db.incident : db.incident[i].token \in TokenKey \ GatewayTokens(db)
  BY <1>1, RowTypes, GatewayFacts
<1>5. \A s \in DOMAIN db.sub : db.sub[s].token \in TokenKey
  BY <1>1, RowTypes
<1>6. \A j \in DOMAIN db.job : At(db.job[j].token) \in Node
  BY <1>1, <1>2, <1>3 DEF Known
<1>7. \A i \in DOMAIN db.incident : At(db.incident[i].token) \in Node
  BY <1>1, <1>2, <1>4 DEF Known
<1>8. \A s \in DOMAIN db.sub : db.sub[s].state # "lost" => At(db.sub[s].token) \in Node
  BY <1>1, <1>2, <1>5 DEF Known
<1>9. \A k \in ActiveTokens : At(k) \in Node
  BY <1>2 DEF ActiveTokens
<1>10. QED BY <1>3, <1>4, <1>5, <1>6, <1>7, <1>8, <1>9

\* The subscriptions of a token that is left are switched off.
LEMMA BoundaryBatch ==
    ASSUME NEW b, Batch(b), Known(b, {}), NEW k,
           \A s \in TokenSubs(k) : s \in DOMAIN b.sub => b.sub[s].state # "lost"
    PROVE  LET c == CancelBoundarySubscriptions(b, k) IN
           /\ Batch(c) /\ Known(c, {}) /\ GatewayTokens(c) \subseteq GatewayTokens(b)
           /\ c.instance = b.instance /\ c.token = b.token
<1> DEFINE S == TokenSubs(k) \intersect DOMAIN b.sub
           none == {}
<1>1. SetSubs(b, TokenSubs(k), "terminated") = SetSubs(b, S, "terminated")
  BY DEF SetSubs
<1>2. S \subseteq {s \in DOMAIN b.sub : b.sub[s].state # "lost"}
  OBVIOUS
<1>3. Known(b, none)
  OBVIOUS
<1> HIDE DEF S, none
<1>4. LET c == SetSubs(b, S, "terminated") IN
      /\ Batch(c) /\ Known(c, none) /\ GatewayTokens(c) \subseteq GatewayTokens(b)
      /\ c.instance = b.instance /\ c.token = b.token
  BY <1>2, <1>3, SetSubsBatch
<1>5. QED BY <1>1, <1>4 DEF CancelBoundarySubscriptions, none

\* JobCompleteByKey keeps the invariant.
LEMMA JobCompleteOnePath ==
    ASSUME PathInv, NEW c \in Client, JobCompleteByKey(c)
    PROVE  PathInv'
<1> DEFINE j == proc[c].arg
           k == db.job[j].token
           n == At(k)
           toks == Transition(n, k)
           d == CancelBoundarySubscriptions(db, k)
           e == SaveTokens(d, toks)
           b == SetJobs(e, {j}, "completed")
           none == {}
<1>1. RowsInv /\ ProcInv /\ c \in Proc
  BY DEF PathInv, Proc
<1>2. proc[c].pc = "lock" /\ proc[c].op = "complete" /\ Room
  BY DEF JobCompleteByKey, Handles
<1>3. j \in DOMAIN db.job
  BY <1>1, <1>2 DEF ProcInv, Pending
<1>4. k \in TokenKey \ GatewayTokens(db) /\ n \in Node
  BY <1>1, <1>3, TokensOfRows
<1>5. \/ Refuse(c)
      \/ FlushAndRun(c, b, toks)
      \/ FlushAndReturn(c, [b EXCEPT !.instance = "completed"])
      \/ FlushAndReturn(c, b)
  BY DEF JobCompleteByKey
<1> HIDE DEF j, n
<1>6. Moves(toks, k)
  BY <1>2, <1>4, TransitionResult DEF Room
<1>7. Batch(db) /\ Known(db, {})
  BY <1>1, NoWrite DEF RowsInv
<1>8. /\ Batch(d) /\ Known(d, none) /\ GatewayTokens(d) \subseteq GatewayTokens(db)
  <2>1. \A s \in TokenSubs(k) : s \in DOMAIN db.sub => db.sub[s].state # "lost"
    BY DEF TokenSubs, ActiveSubs
  <2>2. QED BY <1>7, <2>1, BoundaryBatch
<1> HIDE DEF toks, d
<1>9. Going(d, toks) /\ CarriesNone(d, toks)
  BY <1>1, <1>4, <1>6, <1>8, MovesGo
<1> HIDE DEF none
<1>10. /\ Batch(e) /\ Known(e, none) /\ GatewayTokens(e) = GatewayTokens(d)
  <2> DEFINE K == none \ {toks[i].key : i \in DOMAIN toks}
  <2>1. toks \in Seq(MovingToken)
    BY <1>6 DEF Moves
  <2>2. Batch(e) /\ Known(e, K) /\ GatewayTokens(e) = GatewayTokens(d)
    BY <1>8, <1>9, <2>1, SaveTokensBatch
  <2>3. K = none
    BY DEF none
  <2> HIDE DEF K
  <2>4. QED BY <2>2, <2>3
<1> HIDE DEF e
<1>11. /\ Batch(b) /\ Known(b, none) /\ GatewayTokens(b) = GatewayTokens(e)
  BY <1>10, SetJobsBatch DEF JobState
<1> HIDE DEF b
<1>12. Going(b, toks)
  BY <1>9, <1>10, <1>11 DEF Going
<1>13. Known(b, {}) /\ GatewayTokens(b) \subseteq GatewayTokens(db) \union Unused
  BY <1>8, <1>10, <1>11 DEF none
<1>14. CASE FlushAndReturn(c, [b EXCEPT !.instance = "completed"])
  <2> DEFINE f == [b EXCEPT !.instance = "completed"]
  <2>1. Batch(f) /\ Known(f, none) /\ GatewayTokens(f) = GatewayTokens(b)
    BY <1>11, InstanceBatch DEF InstanceState
  <2> HIDE DEF f
  <2>2. Known(f, {}) /\ GatewayTokens(f) \subseteq GatewayTokens(db) \union Unused
    BY <1>13, <2>1 DEF none
  <2>3. FlushAndReturn(c, f)
    BY <1>14 DEF f
  <2>4. QED BY <1>1, <2>1, <2>2, <2>3, FlushReturns
<1>15. CASE FlushAndRun(c, b, toks)
  BY <1>1, <1>11, <1>12, <1>13, <1>15, FlushRuns
<1>16. CASE FlushAndReturn(c, b)
  BY <1>1, <1>11, <1>13, <1>16, FlushReturns
<1>17. CASE Refuse(c)
  BY <1>1, <1>17, RefuseStep
<1>18. QED BY <1>5, <1>14, <1>15, <1>16, <1>17

\* JobFailByKey keeps the invariant.
LEMMA JobFailOnePath ==
    ASSUME PathInv, NEW c \in Client, JobFailByKey(c)
    PROVE  PathInv'
<1> DEFINE j == proc[c].arg
           k == db.job[j].token
           t == Token(k, At(k), "failed")
           d == SetJobs(db, {j}, "failed")
           b == WriteTokenIncident(d, t)
           none == {}
<1>1. RowsInv /\ ProcInv /\ c \in Proc
  BY DEF PathInv, Proc
<1>2. proc[c].pc = "lock" /\ proc[c].op = "fail"
  BY DEF JobFailByKey, Handles
<1>3. j \in DOMAIN db.job
  BY <1>1, <1>2 DEF ProcInv, Pending
<1>4. k \in TokenKey \ GatewayTokens(db) /\ At(k) \in Node
  BY <1>1, <1>3, TokensOfRows
<1>5. Refuse(c) \/ FlushAndReturn(c, b)
  BY DEF JobFailByKey
<1>6. t \in MovingToken /\ t.key = k
  BY <1>4, TokenTypes DEF TokenState
<1>7. Batch(db) /\ Known(db, none)
  BY <1>1, NoWrite DEF RowsInv
<1> HIDE DEF j, k, t, none
<1>8. Batch(d) /\ Known(d, none) /\ GatewayTokens(d) = GatewayTokens(db)
  BY <1>7, SetJobsBatch DEF JobState
<1> HIDE DEF d
<1>9. Batch(b) /\ Known(b, none \ {t.key}) /\ GatewayTokens(b) = GatewayTokens(d)
  BY <1>4, <1>6, <1>8, WriteIncidentBatch
<1>10. none \ {t.key} = {}
  BY DEF none
<1> HIDE DEF b
<1>11. Known(b, {}) /\ GatewayTokens(b) \subseteq GatewayTokens(db) \union Unused
  BY <1>8, <1>9, <1>10
<1>12. QED BY <1>1, <1>5, <1>9, <1>11, FlushReturns, RefuseStep

\* ResolveIncident keeps the invariant.
LEMMA ResolveIncidentOnePath ==
    ASSUME PathInv, NEW c \in Client, ResolveIncident(c)
    PROVE  PathInv'
<1> DEFINE i == proc[c].arg
           k == db.incident[i].token
           jobs == {j \in PendingJobs : db.job[j].token = k}
           t == Token(k, At(k), IF jobs = {} THEN "running" ELSE "waiting")
           first == {j \in jobs : \A h \in jobs : j <= h}
           d == ResolveIncidents(db, {i})
           e == SaveTokens(d, <<t>>)
           f == SetJobs(e, first, "active")
           b == [f EXCEPT !.instance = "active"]
           none == {}
<1>1. RowsInv /\ ProcInv /\ c \in Proc
  BY DEF PathInv, Proc
<1>2. proc[c].pc = "lock" /\ proc[c].op = "resolve"
  BY DEF ResolveIncident, Handles
<1>3. i \in DOMAIN db.incident
  BY <1>1, <1>2 DEF ProcInv, Pending
<1>4. k \in TokenKey \ GatewayTokens(db) /\ At(k) \in Node
  BY <1>1, <1>3, TokensOfRows
<1>5. Refuse(c) \/ FlushAndRun(c, b, <<t>>)
  BY DEF ResolveIncident
<1>6. t \in MovingToken /\ t.key = k
  BY <1>4, TokenTypes DEF TokenState
<1>7. Batch(db) /\ Known(db, none)
  BY <1>1, NoWrite DEF RowsInv
<1> HIDE DEF i, k, t, none, first
<1> DEFINE toks == <<t>>
<1>8. toks \in Seq(MovingToken) /\ DOMAIN toks = {1} /\ toks[1] = t
  BY <1>6
<1>9. e = SaveTokens(d, toks)
  OBVIOUS
<1> HIDE DEF toks
<1>10. Batch(d) /\ Known(d, none) /\ GatewayTokens(d) = GatewayTokens(db)
  BY <1>7, ResolveIncidentsBatch
<1> HIDE DEF d
<1>11. CarriesNone(d, toks)
  BY <1>4, <1>6, <1>8, <1>10 DEF CarriesNone
<1>12. Batch(e) /\ Known(e, none) /\ GatewayTokens(e) = GatewayTokens(d)
  <2> DEFINE K == none \ {toks[h].key : h \in DOMAIN toks}
             w == SaveTokens(d, toks)
  <2>1. Batch(w) /\ Known(w, K) /\ GatewayTokens(w) = GatewayTokens(d)
    BY <1>8, <1>10, <1>11, SaveTokensBatch
  <2>2. K = none
    BY DEF none
  <2>3. e = w
    BY <1>9
  <2> HIDE DEF K, e, w
  <2>4. QED BY <2>1, <2>2, <2>3
<1> HIDE DEF e
<1>13. Batch(f) /\ Known(f, none) /\ GatewayTokens(f) = GatewayTokens(e)
  BY <1>12, SetJobsBatch DEF JobState
<1> HIDE DEF f
<1>14. Batch(b) /\ Known(b, none) /\ GatewayTokens(b) = GatewayTokens(f)
  BY <1>13, InstanceBatch DEF InstanceState
<1> HIDE DEF b
<1>15. Known(b, {}) /\ GatewayTokens(b) = GatewayTokens(db)
  BY <1>10, <1>12, <1>13, <1>14 DEF none
<1>16. Going(b, toks)
  BY <1>4, <1>6, <1>8, <1>15 DEF Going
<1>17. Refuse(c) \/ FlushAndRun(c, b, toks)
  BY <1>5 DEF toks
<1>18. QED BY <1>1, <1>14, <1>15, <1>16, <1>17, FlushRuns, RefuseStep

\* CancelInstance keeps the invariant: it terminates the gateways' subscriptions
\* before it cancels the tokens.
LEMMA CancelInstanceOnePath ==
    ASSUME PathInv, NEW c \in Client, CancelInstance(c)
    PROVE  PathInv'
<1>1. RowsInv /\ c \in Proc
  BY DEF PathInv, Proc
<1>2. ASSUME NEW d, Batch(d), Known(d, {}), GatewayTokens(d) \subseteq GatewayTokens(db)
      PROVE  LET b == [d EXCEPT !.instance = "terminated"] IN
             Batch(b) /\ Known(b, {}) /\ GatewayTokens(b) \subseteq GatewayTokens(db) \union Unused
  <2> DEFINE none == {}
             b == [d EXCEPT !.instance = "terminated"]
  <2>1. Known(d, none)
    BY <1>2
  <2> HIDE DEF none
  <2>2. Batch(b) /\ Known(b, none) /\ GatewayTokens(b) = GatewayTokens(d)
    BY <1>2, <2>1, InstanceBatch DEF InstanceState
  <2> HIDE DEF b
  <2>3. Known(b, {}) /\ GatewayTokens(b) \subseteq GatewayTokens(db) \union Unused
    BY <1>2, <2>2 DEF none
  <2>4. QED BY <2>2, <2>3 DEF b
<1>3. CASE Refuse(c)
  BY <1>1, <1>3, RefuseStep
<1>4. CASE FlushAndReturn(c, [InnerCancel({}) EXCEPT !.instance = "terminated"])
  <2> DEFINE none == {}
             d == InnerCancel(none)
             b == [d EXCEPT !.instance = "terminated"]
  <2>1. FlushAndReturn(c, b)
    BY <1>4
  <2> HIDE DEF none
  <2>2. Batch(d) /\ Known(d, {}) /\ GatewayTokens(d) \subseteq GatewayTokens(db)
    BY <1>1, CancelBatches
  <2> HIDE DEF d
  <2>3. Batch(b) /\ Known(b, {}) /\ GatewayTokens(b) \subseteq GatewayTokens(db) \union Unused
    BY <1>2, <2>2
  <2> HIDE DEF b
  <2>4. QED BY <1>1, <2>1, <2>3, FlushReturns
<1>5. ASSUME NEW d \in CutShort, db' = [d EXCEPT !.instance = "terminated"], Return(c)
      PROVE  PathInv'
  <2> DEFINE b == [d EXCEPT !.instance = "terminated"]
  <2>1. Batch(d) /\ Known(d, {}) /\ GatewayTokens(d) \subseteq GatewayTokens(db)
    BY <1>1, <1>5, CancelBatches
  <2>2. Batch(b) /\ Known(b, {}) /\ GatewayTokens(b) \subseteq GatewayTokens(db) \union Unused
    BY <1>2, <2>1
  <2>3. db' = b
    BY <1>5
  <2> HIDE DEF b
  <2>4. QED BY <1>1, <1>5, <2>2, <2>3, ReturnStep
<1>6. QED BY <1>3, <1>4, <1>5 DEF CancelInstance

\* JobAssignByKey keeps the invariant.
LEMMA JobAssignOnePath ==
    ASSUME PathInv, NEW c \in Client, JobAssignReads(c) \/ JobAssignWrites(c)
    PROVE  PathInv'
<1>1. RowsInv /\ ProcInv /\ c \in Proc
  BY DEF PathInv, Proc
<1> DEFINE none == {}
<1>2. Batch(db) /\ Known(db, none)
  BY <1>1, NoWrite DEF RowsInv
<1>3. CASE JobAssignReads(c)
  <2>1. PICK j \in DOMAIN db.job :
           proc' = [proc EXCEPT ![c] = [Idle EXCEPT !.pc = "assign", !.arg = j,
                                                   !.node = db.job[j].state]]
    BY <1>3 DEF JobAssignReads
  <2> DEFINE x == [Idle EXCEPT !.pc = "assign", !.arg = j, !.node = db.job[j].state]
  <2>2. j \in Nat /\ db.job[j].state \in JobState
    <3>1. db.job \in Seq(JobRow)
      BY <1>1 DEF RowsInv, Database
    <3>2. db.job[j] \in JobRow /\ j \in Nat
      BY <3>1
    <3>3. QED BY <3>2 DEF JobRow
  <2>3. /\ x \in Goroutine /\ x.pc = "assign" /\ x.arg = j /\ x.node = db.job[j].state
        /\ x.tokens = Idle.tokens
    BY <2>2, IdleTypes DEF Goroutine
  <2>4. proc' = [proc EXCEPT ![c] = x] /\ db' = db
    BY <1>3, <2>1 DEF JobAssignReads
  <2> HIDE DEF x
  <2>5. Pending(db, x) /\ CarriesNone(db, x.tokens)
    BY <2>2, <2>3, IdleTypes DEF Pending
  <2>6. QED BY <1>1, <1>2, <2>3, <2>4, <2>5, GoroutineStep
<1>4. CASE JobAssignWrites(c)
  <2> DEFINE j == proc[c].arg
             v == proc[c].node
             S == {j}
             b == SetJobs(db, S, v)
  <2>1. db' = b /\ Return(c) /\ proc[c].pc = "assign"
    BY <1>4 DEF JobAssignWrites
  <2>2. v \in JobState
    BY <1>1, <2>1 DEF ProcInv, Pending
  <2> HIDE DEF none, v, S
  <2>3. Batch(b) /\ Known(b, none) /\ GatewayTokens(b) = GatewayTokens(db)
    BY <1>2, <2>2, SetJobsBatch
  <2> HIDE DEF b
  <2>4. Known(b, {}) /\ GatewayTokens(b) \subseteq GatewayTokens(db) \union Unused
    BY <2>3 DEF none
  <2>5. QED BY <1>1, <2>1, <2>3, <2>4, ReturnStep
<1>5. QED BY <1>3, <1>4

\* Tokens in the order of their keys.
LEMMA OrderedTokens ==
    ASSUME NEW K, K \subseteq TokenKey, NEW f,
           \A k \in K : f[k] \in MovingToken
    PROVE  LET toks == [i \in DOMAIN InOrder(K) |-> f[InOrder(K)[i]]] IN
           /\ toks \in Seq(MovingToken)
           /\ \A i \in DOMAIN toks : \E k \in K : toks[i] = f[k]
<1>1. IsFiniteSet(TokenKey) /\ TokenKey \subseteq Nat
  <2>1. MaxTokens \in Int /\ 1 \in Int
    BY EngineAssumption
  <2>2. QED BY <2>1, FS_Interval, EngineAssumption DEF TokenKey
<1>2. IsFiniteSet(K) /\ K \subseteq Nat
  BY <1>1, FS_Subset
<1>3. /\ Cardinality(K) \in Nat
      /\ DOMAIN InOrder(K) = 1..Cardinality(K)
      /\ \A i \in 1..Cardinality(K) : InOrder(K)[i] \in K
  BY <1>2, InOrderResult
<1> DEFINE n == Cardinality(K)
           toks == [i \in DOMAIN InOrder(K) |-> f[InOrder(K)[i]]]
<1>4. toks = [i \in 1..n |-> f[InOrder(K)[i]]]
  BY <1>3
<1>5. toks \in Seq(MovingToken) /\ DOMAIN toks = 1..n
  BY <1>3, <1>4
<1>6. QED BY <1>3, <1>4, <1>5

\* With room in the model there is one new token key.
LEMMA FreshOne ==
    ASSUME Room
    PROVE  Fresh(1) \in Unused
<1>1. Cardinality(Unused) \in Nat /\ Unused # {}
  BY FreshResult DEF Room
<1>2. IsFiniteSet(Unused)
  <2>1. MaxTokens \in Int /\ 1 \in Int
    BY EngineAssumption
  <2>2. IsFiniteSet(TokenKey)
    BY <2>1, FS_Interval DEF TokenKey
  <2>3. Unused \subseteq TokenKey
    BY DEF Unused
  <2>4. QED BY <2>2, <2>3, FS_Subset
<1>3. Cardinality(Unused) # 0
  BY <1>1, <1>2, FS_EmptySet
<1>4. QED BY <1>1, <1>3, FreshResult

\* ModifyInstance keeps the invariant.
LEMMA ModifyInstanceOnePath ==
    ASSUME PathInv, NEW c \in Client, ModifyInstance(c)
    PROVE  PathInv'
<1> DEFINE hit  == {k \in ActiveTokens : k = proc[c].arg /\ At(k) = proc[c].at}
           jobs == {j \in PendingJobs : db.job[j].token \in hit}
           incs == {i \in DOMAIN db.incident : db.incident[i].token \in hit}
           S    == UNION {TokenSubs(k) : k \in hit}
           d    == SetSubs(db, S, "terminated")
           e    == SetJobs(d, jobs, "terminated")
           f    == ResolveIncidents(e, incs)
           gone == [i \in DOMAIN InOrder(hit) |-> Token(InOrder(hit)[i], proc[c].at, "canceled")]
           left == IF proc[c].arg = 0 THEN <<>> ELSE InOrder(ActiveTokens \ hit)
           new  == Token(Fresh(1), proc[c].node, "running")
           saved == Append(gone, new)
           rest  == [i \in DOMAIN left |-> Token(left[i], At(left[i]), db.token[left[i]].state)]
           b    == SaveTokens(f, saved)
           none == {}
<1>1. RowsInv /\ ProcInv /\ c \in Proc
  BY DEF PathInv, Proc
<1>2. proc[c].pc = "lock" /\ proc[c].op = "modify" /\ Room
  BY DEF ModifyInstance, Handles
<1>3. Refuse(c) \/ FlushAndRun(c, b, Append(rest, new))
  BY DEF ModifyInstance
<1>4. proc[c].node \in Node
  BY <1>1, <1>2 DEF ProcInv, Pending
<1>5. Fresh(1) \in Unused
  BY <1>2, FreshOne
<1>6. Fresh(1) \in TokenKey /\ Fresh(1) \notin GatewayTokens(db)
  BY <1>1, <1>5, UnusedFacts
<1>7. new \in MovingToken /\ new.key = Fresh(1)
  BY <1>4, <1>6, TokenTypes DEF TokenState
<1> HIDE DEF new
<1>8. /\ hit \subseteq ActiveTokens /\ ActiveTokens \subseteq TokenKey
      /\ \A k \in ActiveTokens : At(k) \in Node
      /\ \A k \in hit : At(k) = proc[c].at
  BY <1>1, TokensOfRows DEF ActiveTokens
<1>9. gone \in Seq(MovingToken) /\ \A i \in DOMAIN gone : gone[i].key \in hit
  <2> DEFINE F == [k \in hit |-> Token(k, proc[c].at, "canceled")]
             w == [i \in DOMAIN InOrder(hit) |-> F[InOrder(hit)[i]]]
  <2>1. ASSUME NEW k \in hit PROVE F[k] \in MovingToken /\ F[k].key = k
    <3>1. k \in TokenKey /\ proc[c].at \in Node
      BY <1>8, <2>1
    <3>2. F[k] = Token(k, proc[c].at, "canceled")
      BY <2>1
    <3>3. QED BY <3>1, <3>2, TokenTypes DEF TokenState
  <2>2. hit \subseteq TokenKey
    BY <1>8
  <2>3. \A i \in DOMAIN InOrder(hit) : InOrder(hit)[i] \in hit
    <3>1. IsFiniteSet(hit) /\ hit \subseteq Nat
      <4>1. MaxTokens \in Int /\ 1 \in Int
        BY EngineAssumption
      <4>2. IsFiniteSet(TokenKey) /\ TokenKey \subseteq Nat
        BY <4>1, FS_Interval, EngineAssumption DEF TokenKey
      <4> HIDE DEF hit
      <4>3. QED BY <2>2, <4>2, FS_Subset
    <3> HIDE DEF hit
    <3>2. QED BY <3>1, InOrderResult
  <2>4. gone = w
    BY <2>3
  <2> HIDE DEF F, hit
  <2>5. w \in Seq(MovingToken) /\ \A i \in DOMAIN w : \E k \in hit : w[i] = F[k]
    BY <2>1, <2>2, OrderedTokens
  <2> HIDE DEF w, gone
  <2>6. QED BY <2>1, <2>4, <2>5
<1>10. /\ rest \in Seq(MovingToken)
       /\ \A i \in DOMAIN rest : rest[i].state = "running" => rest[i].key \notin GatewayTokens(db)
  <2> DEFINE K == ActiveTokens \ hit
             F == [k \in K |-> Token(k, At(k), db.token[k].state)]
             w == [i \in DOMAIN InOrder(K) |-> F[InOrder(K)[i]]]
  <2>1. ASSUME NEW k \in K
        PROVE  /\ F[k] \in MovingToken
               /\ F[k].state = "running" => F[k].key \notin GatewayTokens(db)
    <3>1. k \in TokenKey /\ At(k) \in Node /\ db.token[k].state \in TokenState
      BY <1>8, <2>1 DEF ActiveTokens, TokenState
    <3>2. F[k] = Token(k, At(k), db.token[k].state)
      BY <2>1
    <3>3. F[k] \in MovingToken /\ F[k].state = db.token[k].state /\ F[k].key = k
      BY <3>1, <3>2, TokenTypes
    <3>4. k \in GatewayTokens(db) => db.token[k].state = "waiting"
      BY <1>1, GatewayFacts DEF RowsInv
    <3>5. QED BY <3>3, <3>4
  <2>2. K \subseteq TokenKey
    BY <1>8
  <2>3. \A i \in DOMAIN InOrder(K) : InOrder(K)[i] \in K
    <3>1. IsFiniteSet(K) /\ K \subseteq Nat
      <4>1. MaxTokens \in Int /\ 1 \in Int
        BY EngineAssumption
      <4>2. IsFiniteSet(TokenKey) /\ TokenKey \subseteq Nat
        BY <4>1, FS_Interval, EngineAssumption DEF TokenKey
      <4> HIDE DEF K
      <4>3. QED BY <2>2, <4>2, FS_Subset
    <3> HIDE DEF K
    <3>2. QED BY <3>1, InOrderResult
  <2>4. CASE proc[c].arg = 0
    <3>1. rest = <<>>
      BY <2>4
    <3>2. <<>> \in Seq(MovingToken) /\ DOMAIN <<>> = {}
      OBVIOUS
    <3> HIDE DEF rest
    <3>3. QED BY <3>1, <3>2
  <2>5. CASE proc[c].arg # 0
    <3>1. rest = w
      BY <2>3, <2>5
    <3> HIDE DEF F, K, rest
    <3>2. w \in Seq(MovingToken) /\ \A i \in DOMAIN w : \E k \in K : w[i] = F[k]
      BY <2>1, <2>2, OrderedTokens
    <3> HIDE DEF w
    <3>3. QED BY <2>1, <3>1, <3>2
  <2>6. QED BY <2>4, <2>5
<1> HIDE DEF rest, gone
<1>11. Batch(db) /\ Known(db, none)
  BY <1>1, NoWrite DEF RowsInv
<1>12. S \subseteq {s \in DOMAIN db.sub : db.sub[s].state # "lost"}
  BY DEF TokenSubs, ActiveSubs
<1>13. \A s \in Gateways(db) \ S : db.sub[s].token \notin hit
  BY DEF TokenSubs, ActiveSubs, Gateways
<1> HIDE DEF S, none, hit, jobs, incs
<1>14. /\ Batch(d) /\ Known(d, none) /\ GatewayTokens(d) \subseteq GatewayTokens(db)
       /\ Gateways(d) = Gateways(db) \ S
  BY <1>11, <1>12, SetSubsBatch
<1>15. GatewayTokens(d) \intersect hit = {}
  <2>1. db \in Database
    BY <1>1 DEF RowsInv
  <2>2. \A s \in DOMAIN db.sub : d.sub[s].token = db.sub[s].token
    <3> DEFINE off == "terminated"
               q == SetSubs(db, S, off)
    <3>1. off \in SubState
      BY DEF SubState
    <3>2. d = q
      OBVIOUS
    <3> HIDE DEF off, d
    <3>3. /\ q \in Database
          /\ q.instance = db.instance /\ q.token = db.token /\ q.job = db.job /\ q.incident = db.incident
          /\ DOMAIN q.sub = DOMAIN db.sub /\ Len(q.sub) = Len(db.sub)
          /\ \A i \in DOMAIN db.sub :
                /\ i \in S => q.sub[i] = [db.sub[i] EXCEPT !.state = off]
                /\ i \notin S => q.sub[i] = db.sub[i]
                /\ q.sub[i].token = db.sub[i].token /\ q.sub[i].at = db.sub[i].at
                /\ q.sub[i].event = db.sub[i].event
                /\ q.sub[i].state = IF i \in S THEN off ELSE db.sub[i].state
      BY <2>1, <3>1, SetSubsResult
    <3> HIDE DEF q
    <3>4. QED BY <3>2, <3>3
  <2>3. \A s \in Gateways(db) : s \in DOMAIN db.sub
    BY DEF Gateways
  <2> HIDE DEF d
  <2>4. QED BY <1>13, <1>14, <2>2, <2>3 DEF GatewayTokens
<1> HIDE DEF d
<1>16. Batch(e) /\ Known(e, none) /\ GatewayTokens(e) = GatewayTokens(d)
  BY <1>14, SetJobsBatch DEF JobState
<1> HIDE DEF e
<1>17. Batch(f) /\ Known(f, none) /\ GatewayTokens(f) = GatewayTokens(e)
  BY <1>16, ResolveIncidentsBatch
<1> HIDE DEF f
<1>18. /\ saved \in Seq(MovingToken)
       /\ \A i \in DOMAIN saved : saved[i].key \in hit \/ saved[i].key = Fresh(1)
  <2>1. /\ saved \in Seq(MovingToken)
        /\ \A i \in DOMAIN saved : (i \in DOMAIN gone /\ saved[i] = gone[i]) \/ saved[i] = new
    BY <1>7, <1>9
  <2> HIDE DEF saved
  <2>2. QED BY <1>7, <1>9, <2>1
<1> HIDE DEF saved
<1>19. CarriesNone(f, saved)
  BY <1>6, <1>14, <1>15, <1>16, <1>17, <1>18 DEF CarriesNone
<1>20. Batch(b) /\ Known(b, {}) /\ GatewayTokens(b) = GatewayTokens(f)
  <2> DEFINE K == none \ {saved[h].key : h \in DOMAIN saved}
  <2>1. Batch(b) /\ Known(b, K) /\ GatewayTokens(b) = GatewayTokens(f)
    BY <1>17, <1>18, <1>19, SaveTokensBatch
  <2>2. K = {}
    BY DEF none
  <2> HIDE DEF K
  <2>3. QED BY <2>1, <2>2
<1> HIDE DEF b
<1>21. GatewayTokens(b) \subseteq GatewayTokens(db)
  BY <1>14, <1>16, <1>17, <1>20
<1> DEFINE toks == Append(rest, new)
<1>22. Going(b, toks)
  <2>1. /\ toks \in Seq(MovingToken)
        /\ \A i \in DOMAIN toks : (i \in DOMAIN rest /\ toks[i] = rest[i]) \/ toks[i] = new
    BY <1>7, <1>10
  <2> HIDE DEF toks
  <2>2. QED BY <1>6, <1>7, <1>10, <1>21, <2>1 DEF Going
<1>23. Refuse(c) \/ FlushAndRun(c, b, toks)
  BY <1>3 DEF b, f, e, d, S, hit, jobs, incs, gone, saved, rest, new
<1> HIDE DEF toks
<1>24. QED BY <1>1, <1>20, <1>21, <1>22, <1>23, FlushRuns, RefuseStep

-----------------------------------------------------------------------------
(* Messages and timers: an event of a gateway switches the others off.     *)

\* Completing a subscription and terminating the others: of a gateway, one
\* event has happened and all others are off.
LEMMA CompleteSubs ==
    ASSUME RowsInv, NEW s \in ActiveSubs, NEW T, T \subseteq ActiveSubs \ {s},
           s \in Gateways(db) => TokenSubs(db.sub[s].token) \ {s} \subseteq T
    PROVE  LET c == SetSubs(SetSubs(db, {s}, "completed"), T, "terminated") IN
           /\ Batch(c) /\ Known(c, {})
           /\ GatewayTokens(c) \subseteq GatewayTokens(db) /\ db.sub[s].token \notin GatewayTokens(c)
           /\ c.token = db.token /\ DOMAIN c.sub = DOMAIN db.sub
           /\ \A x \in ActiveSubs : c.sub[x].state # "lost"
<1> DEFINE k == db.sub[s].token
           S == {s}
           on == "completed"
           off == "terminated"
           d == SetSubs(db, S, on)
           c == SetSubs(d, T, off)
<1>1. /\ db \in Database /\ Known(db, {}) /\ GatewaysWait(db) /\ OnePath(db)
      /\ on \in SubState /\ off \in SubState
  BY DEF RowsInv, SubState
<1>2. s \in DOMAIN db.sub /\ db.sub[s].state = "active"
  BY DEF ActiveSubs
<1> HIDE DEF S, on, off
<1>3. /\ d \in Database
      /\ d.instance = db.instance /\ d.token = db.token /\ d.job = db.job /\ d.incident = db.incident
      /\ DOMAIN d.sub = DOMAIN db.sub /\ Len(d.sub) = Len(db.sub)
      /\ \A i \in DOMAIN db.sub :
            /\ i \in S => d.sub[i] = [db.sub[i] EXCEPT !.state = on]
            /\ i \notin S => d.sub[i] = db.sub[i]
            /\ d.sub[i].token = db.sub[i].token /\ d.sub[i].at = db.sub[i].at
            /\ d.sub[i].event = db.sub[i].event
            /\ d.sub[i].state = IF i \in S THEN on ELSE db.sub[i].state
  BY <1>1, SetSubsResult
<1> HIDE DEF d
<1>4. /\ c \in Database
      /\ c.instance = d.instance /\ c.token = d.token /\ c.job = d.job /\ c.incident = d.incident
      /\ DOMAIN c.sub = DOMAIN d.sub /\ Len(c.sub) = Len(d.sub)
      /\ \A i \in DOMAIN d.sub :
            /\ i \in T => c.sub[i] = [d.sub[i] EXCEPT !.state = off]
            /\ i \notin T => c.sub[i] = d.sub[i]
            /\ c.sub[i].token = d.sub[i].token /\ c.sub[i].at = d.sub[i].at
            /\ c.sub[i].event = d.sub[i].event
            /\ c.sub[i].state = IF i \in T THEN off ELSE d.sub[i].state
  <2>1. d \in Database
    BY <1>3
  <2>2. off \in SubState
    BY <1>1
  <2>3. QED BY <2>1, <2>2, SetSubsResult
<1> HIDE DEF c
<1>5. /\ c \in Database
      /\ c.token = db.token /\ c.job = db.job /\ c.incident = db.incident
      /\ DOMAIN c.sub = DOMAIN db.sub /\ Len(c.sub) = Len(db.sub)
  BY <1>3, <1>4
<1>6. ASSUME NEW i \in DOMAIN db.sub
      PROVE  /\ c.sub[i].token = db.sub[i].token /\ c.sub[i].at = db.sub[i].at
             /\ \/ i = s /\ c.sub[i].state = "completed"
                \/ i \in T /\ c.sub[i].state = "terminated"
                \/ i # s /\ i \notin T /\ c.sub[i] = db.sub[i]
  <2>1. /\ d.sub[i].token = db.sub[i].token /\ d.sub[i].at = db.sub[i].at
        /\ i \notin S => d.sub[i] = db.sub[i]
        /\ i \in S => d.sub[i].state = on
    BY <1>3, <1>6
  <2>2. /\ c.sub[i].token = d.sub[i].token /\ c.sub[i].at = d.sub[i].at
        /\ i \notin T => c.sub[i] = d.sub[i]
        /\ i \in T => c.sub[i].state = off
    <3>1. i \in DOMAIN d.sub
      BY <1>3, <1>6
    <3>2. QED BY <1>4, <3>1
  <2>3. i \in S <=> i = s
    BY DEF S
  <2>4. on = "completed" /\ off = "terminated" /\ (i \in T => i # s)
    BY DEF on, off
  <2>5. QED BY <2>1, <2>2, <2>3, <2>4
<1>7. ASSUME NEW i \in Gateways(c)
      PROVE  i \in Gateways(db) /\ c.sub[i] = db.sub[i] /\ i # s /\ i \notin T
  <2>1. i \in DOMAIN db.sub /\ c.sub[i].state = "active" /\ Kind[c.sub[i].at] = "eventGateway"
    BY <1>5, <1>7 DEF Gateways
  <2>2. i # s /\ i \notin T /\ c.sub[i] = db.sub[i]
    BY <1>6, <2>1
  <2>3. QED BY <2>1, <2>2 DEF Gateways
<1>8. k \notin GatewayTokens(c) /\ GatewayTokens(c) \subseteq GatewayTokens(db)
  <2>1. GatewayTokens(c) \subseteq GatewayTokens(db)
    BY <1>7 DEF GatewayTokens
  <2>2. SUFFICES ASSUME NEW i \in Gateways(c), c.sub[i].token = k
                 PROVE  FALSE
    BY <2>1 DEF GatewayTokens
  <2>3. /\ i \in Gateways(db) /\ db.sub[i].token = k /\ i # s /\ i \notin T
        /\ i \in DOMAIN db.sub /\ db.sub[i].state = "active" /\ Kind[db.sub[i].at] = "eventGateway"
    BY <1>7, <2>2 DEF Gateways
  <2>4. db.sub[s].at = db.sub[i].at
    BY <1>1, <1>2, <2>3 DEF GatewaysWait
  <2>5. s \in Gateways(db)
    BY <1>2, <2>3, <2>4 DEF Gateways
  <2>6. i \in TokenSubs(k) \ {s}
    BY <2>3 DEF TokenSubs, ActiveSubs
  <2>7. QED BY <2>3, <2>5, <2>6
<1>9. GatewaysWait(c)
  <2>1. SUFFICES ASSUME NEW i \in Gateways(c)
                 PROVE  LET x == c.sub[i].token
                        IN  /\ c.token[x] = [at |-> c.sub[i].at, state |-> "waiting"]
                            /\ \A j \in DOMAIN c.job : c.job[j].token # x
                            /\ \A h \in DOMAIN c.incident : c.incident[h].token # x
                            /\ \A q \in DOMAIN c.sub : c.sub[q].state = "active" /\ c.sub[q].token = x
                                                       => c.sub[q].at = c.sub[i].at
    BY DEF GatewaysWait
  <2>2. i \in Gateways(db) /\ c.sub[i] = db.sub[i]
    BY <1>7
  <2>3. LET x == db.sub[i].token
        IN  /\ db.token[x] = [at |-> db.sub[i].at, state |-> "waiting"]
            /\ \A j \in DOMAIN db.job : db.job[j].token # x
            /\ \A h \in DOMAIN db.incident : db.incident[h].token # x
            /\ \A q \in DOMAIN db.sub : db.sub[q].state = "active" /\ db.sub[q].token = x
                                       => db.sub[q].at = db.sub[i].at
    BY <1>1, <2>2 DEF GatewaysWait
  <2>4. \A q \in DOMAIN c.sub : c.sub[q].state = "active" => q \in DOMAIN db.sub /\ c.sub[q] = db.sub[q]
    BY <1>5, <1>6
  <2>5. QED BY <1>5, <2>2, <2>3, <2>4
<1>10. OnePath(c)
  <2>1. SUFFICES ASSUME NEW x \in DOMAIN c.sub, NEW y \in DOMAIN c.sub,
                        x # y, c.sub[x].token = c.sub[y].token, c.sub[x].at = c.sub[y].at,
                        Kind[c.sub[x].at] = "eventGateway", c.sub[x].state = "completed",
                        c.sub[y].state \in {"completed", "active"}
                 PROVE  FALSE
    BY DEF OnePath
  <2>2. /\ x \in DOMAIN db.sub /\ y \in DOMAIN db.sub
        /\ db.sub[x].token = db.sub[y].token /\ db.sub[x].at = db.sub[y].at
        /\ Kind[db.sub[x].at] = "eventGateway" /\ Kind[db.sub[y].at] = "eventGateway"
    BY <1>5, <1>6, <2>1
  <2>3. CASE x = s
    <3>1. y \notin T /\ c.sub[y] = db.sub[y]
      BY <1>6, <2>1, <2>2, <2>3
    <3>2. CASE db.sub[y].state = "active"
      <4>1. y \in TokenSubs(k) \ {s}
        BY <2>1, <2>2, <2>3, <3>2 DEF TokenSubs, ActiveSubs
      <4>2. s \in Gateways(db)
        BY <1>2, <2>2, <2>3 DEF Gateways
      <4>3. QED BY <3>1, <4>1, <4>2
    <3>3. CASE db.sub[y].state = "completed"
      BY <1>1, <1>2, <2>1, <2>2, <2>3, <3>3 DEF OnePath
    <3>4. QED BY <2>1, <3>1, <3>2, <3>3
  <2>4. CASE x # s
    <3>1. db.sub[x].state = "completed"
      BY <1>6, <2>1, <2>2, <2>4
    <3>2. db.sub[y].state \in {"completed", "active"}
      BY <1>2, <1>6, <2>1, <2>2
    <3>3. QED BY <1>1, <2>1, <2>2, <3>1, <3>2 DEF OnePath
  <2>5. QED BY <2>3, <2>4
<1>11. Known(c, {})
  <2>1. \A i \in DOMAIN db.sub : c.sub[i].state # "lost" => db.sub[i].state # "lost"
    BY <1>2, <1>6 DEF ActiveSubs
  <2>2. \A i \in DOMAIN db.sub : c.sub[i].token = db.sub[i].token
    BY <1>6
  <2>3. QED BY <1>1, <1>5, <2>1, <2>2 DEF Known
<1>12. Batch(c)
  <2>1. /\ Len(db.job) <= Len(c.job) /\ Len(db.sub) <= Len(c.sub)
        /\ Len(db.incident) <= Len(c.incident)
    <3>1. Len(db.job) \in Nat /\ Len(db.incident) \in Nat /\ Len(db.sub) \in Nat
      BY <1>1 DEF Database
    <3>2. QED BY <1>5, <3>1
  <2>2. \A i \in Gateways(c) : i \in DOMAIN db.sub /\ c.sub[i] = db.sub[i]
    BY <1>7 DEF Gateways
  <2>3. QED BY <1>5, <1>9, <1>10, <2>1, <2>2 DEF Batch
<1>13. \A x \in ActiveSubs : c.sub[x].state # "lost"
  BY <1>6 DEF ActiveSubs
<1>14. QED BY <1>5, <1>8, <1>11, <1>12, <1>13 DEF c, d, S, on, off

\* What an event does: a good batch, and tokens that wait at no gateway of it.
Published(r) ==
    /\ Batch(r.b) /\ Known(r.b, {})
    /\ GatewayTokens(r.b) \subseteq GatewayTokens(db)
    /\ Going(r.b, r.tokens)

\* Completing a subscription that is not a gateway's.
LEMMA CompleteSub ==
    ASSUME RowsInv, NEW s \in ActiveSubs, s \notin Gateways(db)
    PROVE  LET c == SetSubs(db, {s}, "completed") IN
           /\ Batch(c) /\ Known(c, {})
           /\ GatewayTokens(c) \subseteq GatewayTokens(db) /\ db.sub[s].token \notin GatewayTokens(c)
           /\ c.token = db.token /\ DOMAIN c.sub = DOMAIN db.sub
           /\ \A x \in ActiveSubs : c.sub[x].state # "lost"
<1> DEFINE d == SetSubs(db, {s}, "completed")
           T == {}
           c == SetSubs(d, T, "terminated")
<1>1. d \in Database
  <2> DEFINE S == {s}
             on == "completed"
             e == SetSubs(db, S, on)
  <2>1. db \in Database /\ on \in SubState
    BY DEF RowsInv, SubState
  <2>2. d = e
    OBVIOUS
  <2> HIDE DEF S, on
  <2>3. e \in Database
    BY <2>1, SetSubsResult
  <2>4. QED BY <2>2, <2>3
<1> HIDE DEF d
<1>2. c = d
  <2>1. d.sub \in Seq(SubRow)
    BY <1>1 DEF Database
  <2>2. d.sub = [i \in DOMAIN d.sub |-> IF i \in T THEN [d.sub[i] EXCEPT !.state = "terminated"]
                                                   ELSE d.sub[i]]
    BY <2>1
  <2>3. c = [d EXCEPT !.sub = d.sub]
    BY <2>2 DEF SetSubs
  <2>4. QED BY <1>1, <2>3 DEF Database
<1>3. T \subseteq ActiveSubs \ {s}
  OBVIOUS
<1> HIDE DEF T
<1>4. LET f == SetSubs(SetSubs(db, {s}, "completed"), T, "terminated") IN
      /\ Batch(f) /\ Known(f, {})
      /\ GatewayTokens(f) \subseteq GatewayTokens(db) /\ db.sub[s].token \notin GatewayTokens(f)
      /\ f.token = db.token /\ DOMAIN f.sub = DOMAIN db.sub
      /\ \A x \in ActiveSubs : f.sub[x].state # "lost"
  BY <1>3, CompleteSubs
<1>5. c = SetSubs(SetSubs(db, {s}, "completed"), T, "terminated")
  BY DEF d
<1> HIDE DEF c
<1>6. QED BY <1>2, <1>4, <1>5 DEF d

\* A row that exists need not be named.
LEMMA KnownRow ==
    ASSUME NEW b, NEW k, Known(b, {k}), b.token[k].state # "none"
    PROVE  Known(b, {})
BY DEF Known

\* An event behind a gateway switches the others off.
LEMMA GatewayPublishes ==
    ASSUME RowsInv, Room, NEW g, NEW s \in ActiveSubs
    PROVE  Published(PublishEventOnEventGateway(g, s))
<1> DEFINE k == db.sub[s].token
           T == TokenSubs(k) \ {s}
           b == SetSubs(SetSubs(db, {s}, "completed"), T, "terminated")
           toks == Transition(ElementId(s), k)
           r == PublishEventOnEventGateway(g, s)
<1>1. CASE \E i \in DOMAIN Out[g] : Out[g][i] = ElementId(s)
  <2>1. r.b = b /\ r.tokens = toks
    BY <1>1 DEF PublishEventOnEventGateway
  <2>2. s \in DOMAIN db.sub /\ db \in Database
    BY DEF ActiveSubs, RowsInv
  <2>3. k \in TokenKey /\ ElementId(s) \in Node
    BY <2>2, RowTypes DEF ElementId
  <2>4. Moves(toks, k)
    BY <2>3, TransitionResult DEF Room
  <2>5. T \subseteq ActiveSubs \ {s}
    BY DEF TokenSubs
  <2>6. TokenSubs(db.sub[s].token) \ {s} \subseteq T
    OBVIOUS
  <2> HIDE DEF T
  <2>7. /\ Batch(b) /\ Known(b, {})
        /\ GatewayTokens(b) \subseteq GatewayTokens(db) /\ k \notin GatewayTokens(b)
    BY <2>5, <2>6, CompleteSubs
  <2> HIDE DEF b, k, toks, r
  <2>8. Going(b, toks)
    BY <2>4, <2>7, MovesGo
  <2>9. Published(r)
    BY <2>1, <2>7, <2>8 DEF Published
  <2>10. QED BY <2>9 DEF r
<1>2. CASE ~\E i \in DOMAIN Out[g] : Out[g][i] = ElementId(s)
  <2>1. r.b = db /\ r.tokens = <<>>
    BY <1>2 DEF PublishEventOnEventGateway
  <2>2. <<>> \in Seq(MovingToken) /\ DOMAIN <<>> = {}
    OBVIOUS
  <2>3. Batch(db) /\ Known(db, {})
    BY NoWrite DEF RowsInv
  <2> HIDE DEF r
  <2>4. Published(r)
    BY <2>1, <2>2, <2>3 DEF Published, Going
  <2>5. QED BY <2>4 DEF r
<1>3. QED BY <1>1, <1>2

\* An event at the element that waits for it.
LEMMA ListenerPublishes ==
    ASSUME RowsInv, Room, NEW n \in Node, NEW s \in ActiveSubs, s \notin Gateways(db)
    PROVE  Published(PublishOnListener(n, s))
<1> DEFINE k == db.sub[s].token
           b == SetSubs(db, {s}, "completed")
           toks == Transition(n, k)
           r == PublishOnListener(n, s)
<1>1. r.b = b /\ r.tokens = toks
  BY DEF PublishOnListener
<1>2. k \in TokenKey
  BY RowTypes DEF ActiveSubs, RowsInv
<1>3. Moves(toks, k)
  BY <1>2, TransitionResult DEF Room
<1>4. /\ Batch(b) /\ Known(b, {})
      /\ GatewayTokens(b) \subseteq GatewayTokens(db) /\ k \notin GatewayTokens(b)
  BY CompleteSub
<1> HIDE DEF b, k, toks, r
<1>5. Going(b, toks)
  BY <1>3, <1>4, MovesGo
<1>6. Published(r)
  BY <1>1, <1>4, <1>5 DEF Published
<1>7. QED BY <1>6 DEF r

\* An interrupting boundary event.
LEMMA InterruptPublishes ==
    ASSUME RowsInv, Room, NEW l \in Node, NEW s \in ActiveSubs, s \notin Gateways(db)
    PROVE  Published(Interrupt(l, s))
<1> DEFINE k == db.sub[s].token
           d == SetSubs(db, {s}, "completed")
           J == {j \in DOMAIN db.job : db.job[j].token = k /\ db.job[j].state = "active"}
           e == SetJobs(d, J, "terminated")
           b == CancelBoundarySubscriptions(e, k)
           toks == Transition(l, k)
           r == Interrupt(l, s)
           none == {}
<1>1. r.b = b /\ r.tokens = toks
  BY DEF Interrupt, CancelJobs
<1>2. k \in TokenKey
  BY RowTypes DEF ActiveSubs, RowsInv
<1>3. Moves(toks, k)
  BY <1>2, TransitionResult DEF Room
<1>4. /\ Batch(d) /\ Known(d, none)
      /\ GatewayTokens(d) \subseteq GatewayTokens(db) /\ k \notin GatewayTokens(d)
      /\ \A x \in ActiveSubs : d.sub[x].state # "lost"
  BY CompleteSub
<1> HIDE DEF d, J, none, toks, r
<1>5. Batch(e) /\ Known(e, none) /\ GatewayTokens(e) = GatewayTokens(d)
  BY <1>4, SetJobsBatch DEF JobState
<1>6. e.sub = d.sub
  <2>1. d \in Database
    BY <1>4 DEF Batch
  <2>2. QED BY <2>1 DEF SetJobs, Database
<1> HIDE DEF e
<1>7. Known(e, {}) /\ \A x \in TokenSubs(k) : x \in DOMAIN e.sub => e.sub[x].state # "lost"
  BY <1>4, <1>5, <1>6 DEF TokenSubs, none
<1> HIDE DEF k
<1>8. Batch(b) /\ Known(b, {}) /\ GatewayTokens(b) \subseteq GatewayTokens(e)
  BY <1>5, <1>7, BoundaryBatch
<1> HIDE DEF b
<1>9. GatewayTokens(b) \subseteq GatewayTokens(db) /\ k \notin GatewayTokens(b)
  BY <1>4, <1>5, <1>8
<1>10. Going(b, toks)
  BY <1>3, <1>9, MovesGo
<1>11. Published(r)
  BY <1>1, <1>8, <1>9, <1>10 DEF Published
<1>12. QED BY <1>11 DEF r

\* The event is subscribed to again for an activity that goes on.
LEMMA SubscribeAgain ==
    ASSUME RowsInv, NEW l \in Node, NEW s \in ActiveSubs, s \notin Gateways(db),
           Kind[At(db.sub[s].token)] # "eventGateway"
    PROVE  LET k == db.sub[s].token
               b == Subscribe(SetSubs(db, {s}, "completed"), Token(k, At(k), "waiting"), <<l>>) IN
           /\ Batch(b) /\ Known(b, {})
           /\ GatewayTokens(b) \subseteq GatewayTokens(db) /\ k \notin GatewayTokens(b)
<1> DEFINE k == db.sub[s].token
           d == SetSubs(db, {s}, "completed")
           t == Token(k, At(k), "waiting")
           events == <<l>>
           b == Subscribe(d, t, events)
           none == {}
<1>1. s \in DOMAIN db.sub /\ db.sub[s].state = "active"
  BY DEF ActiveSubs
<1>2. k \in TokenKey /\ At(k) \in Node /\ db.token[k].state # "none"
  <2>1. k \in TokenKey /\ At(k) \in Node
    BY <1>1, TokensOfRows
  <2>2. Known(db, {})
    BY DEF RowsInv
  <2>3. db.token[k].state # "none"
    BY <1>1, <2>2 DEF Known
  <2>4. QED BY <2>1, <2>3
<1>3. t \in MovingToken /\ t.key = k /\ t.at = At(k)
  BY <1>2, TokenTypes DEF TokenState
<1>4. /\ Batch(d) /\ Known(d, none) /\ d.token = db.token
      /\ GatewayTokens(d) \subseteq GatewayTokens(db) /\ k \notin GatewayTokens(d)
  BY CompleteSub
<1>5. events \in Seq(Node)
  OBVIOUS
<1>6. Kind[t.at] # "eventGateway"
  BY <1>3
<1> HIDE DEF t, d, events, none, k
<1>7. /\ Batch(b) /\ Known(b, none \union {t.key}) /\ GatewayTokens(b) = GatewayTokens(d)
      /\ b.token = d.token
  BY <1>3, <1>4, <1>5, <1>6, SubscribeBatch
<1> HIDE DEF b
<1>8. none \union {t.key} = {k}
  BY <1>3 DEF none
<1>9. Known(b, {})
  <2>1. Known(b, {k}) /\ b.token[k].state # "none"
    BY <1>2, <1>4, <1>7, <1>8
  <2>2. QED BY <2>1, KnownRow
<1>10. GatewayTokens(b) \subseteq GatewayTokens(db) /\ k \notin GatewayTokens(b)
  BY <1>4, <1>7
<1>11. QED BY <1>7, <1>9, <1>10 DEF b, d, t, events, k

\* A boundary event's message.
LEMMA BoundaryMessagePublishes ==
    ASSUME RowsInv, Room, NEW l \in Node, NEW s \in ActiveSubs, s \notin Gateways(db),
           Kind[At(db.sub[s].token)] # "eventGateway"
    PROVE  Published(FireBoundaryMessage(l, s))
<1>1. CASE l \in Interrupting
  BY <1>1, InterruptPublishes DEF FireBoundaryMessage
<1>2. CASE l \notin Interrupting
  <2> DEFINE k == db.sub[s].token
             u == Fresh(1)
             n == Token(u, l, "running")
             d == Subscribe(SetSubs(db, {s}, "completed"), Token(k, At(k), "waiting"), <<l>>)
             saved == <<n>>
             b == SaveTokens(d, saved)
             toks == Transition(l, u)
             r == FireBoundaryMessage(l, s)
             none == {}
  <2>1. u \in Unused
    BY FreshOne
  <2>2. u \in TokenKey /\ u \notin GatewayTokens(db)
    BY <2>1, UnusedFacts
  <2>3. n \in MovingToken /\ n.key = u
    BY <2>2, TokenTypes DEF TokenState
  <2>4. r.b = b /\ r.tokens = toks
    <3>1. r = [b |-> b, tokens |-> Transition(l, n.key)]
      BY <1>2 DEF FireBoundaryMessage
    <3> HIDE DEF r, b, n
    <3>2. QED BY <2>3, <3>1
  <2>5. Moves(toks, u)
    BY <2>2, TransitionResult DEF Room
  <2>6. Batch(d) /\ Known(d, none) /\ GatewayTokens(d) \subseteq GatewayTokens(db)
    BY SubscribeAgain
  <2> HIDE DEF d, n, u, toks, r, none
  <2>7. saved \in Seq(MovingToken) /\ DOMAIN saved = {1} /\ saved[1] = n
    BY <2>3
  <2> HIDE DEF saved
  <2>8. CarriesNone(d, saved)
    BY <2>2, <2>3, <2>6, <2>7 DEF CarriesNone
  <2>9. Batch(b) /\ Known(b, {}) /\ GatewayTokens(b) = GatewayTokens(d)
    <3> DEFINE K == none \ {saved[h].key : h \in DOMAIN saved}
    <3>1. Batch(b) /\ Known(b, K) /\ GatewayTokens(b) = GatewayTokens(d)
      BY <2>6, <2>7, <2>8, SaveTokensBatch
    <3>2. K = {}
      BY DEF none
    <3> HIDE DEF K
    <3>3. QED BY <3>1, <3>2
  <2> HIDE DEF b
  <2>10. GatewayTokens(b) \subseteq GatewayTokens(db) /\ u \notin GatewayTokens(b)
    BY <2>2, <2>6, <2>9
  <2>11. Going(b, toks)
    BY <2>5, <2>10, MovesGo
  <2>12. Published(r)
    BY <2>4, <2>9, <2>10, <2>11 DEF Published
  <2>13. QED BY <2>12 DEF r
<1>3. QED BY <1>1, <1>2

\* A boundary event's timer.
LEMMA BoundaryTimerPublishes ==
    ASSUME RowsInv, Room, NEW l \in Node, NEW s \in ActiveSubs, s \notin Gateways(db),
           Kind[At(db.sub[s].token)] # "eventGateway"
    PROVE  Published(FireBoundaryTimer(l, s))
<1>1. CASE l \in Interrupting
  BY <1>1, InterruptPublishes DEF FireBoundaryTimer
<1>2. CASE l \notin Interrupting
  <2> DEFINE k == db.sub[s].token
             b == Subscribe(SetSubs(db, {s}, "completed"), Token(k, At(k), "waiting"), <<l>>)
             toks == Transition(l, k)
             r == FireBoundaryTimer(l, s)
  <2>1. k \in TokenKey
    BY RowTypes DEF ActiveSubs, RowsInv
  <2>2. Moves(toks, k)
    BY <2>1, TransitionResult DEF Room
  <2>3. r.b = b /\ r.tokens = toks
    BY <1>2 DEF FireBoundaryTimer
  <2>4. /\ Batch(b) /\ Known(b, {}) /\ GatewayTokens(b) \subseteq GatewayTokens(db)
        /\ k \notin GatewayTokens(b)
    BY SubscribeAgain
  <2> HIDE DEF b, k, toks, r
  <2>5. Going(b, toks)
    BY <2>2, <2>4, MovesGo
  <2>6. Published(r)
    BY <2>3, <2>4, <2>5 DEF Published
  <2>7. QED BY <2>6 DEF r
<1>3. QED BY <1>1, <1>2

\* What an event made of the batch is flushed and run.
LEMMA PublishedRuns ==
    ASSUME PathInv, NEW p \in Proc, NEW r, Published(r), FlushAndRun(p, r.b, r.tokens)
    PROVE  PathInv'
BY FlushRuns DEF Published

\* A boundary event is a node.
LEMMA ListenersAreNodes ==
    ASSUME NEW n \in Node, NEW L, NEW l \in FirstBoundary(n, L)
    PROVE  l \in Node
<1>1. Boundary[n] \in Seq(Node)
  BY ProcessDefinition
<1>2. QED BY <1>1 DEF FirstBoundary

\* The gateway on which a subscription waits is where its token is.
LEMMA GatewaySubs ==
    ASSUME RowsInv, NEW s \in Gateways(db)
    PROVE  At(db.sub[s].token) = db.sub[s].at /\ Kind[db.sub[s].at] = "eventGateway"
<1>1. db.token[db.sub[s].token] = [at |-> db.sub[s].at, state |-> "waiting"]
  BY DEF RowsInv, GatewaysWait
<1>2. Kind[db.sub[s].at] = "eventGateway"
  BY DEF Gateways
<1>3. QED BY <1>1, <1>2 DEF At

\* PublishMessage keeps the invariant.
LEMMA PublishMessageOnePath ==
    ASSUME PathInv, NEW c \in Client, PublishMessage(c)
    PROVE  PathInv'
<1> DEFINE s == proc[c].arg
           n == At(db.sub[s].token)
           d == SetSubs(db, {s}, "failed")
           b == [d EXCEPT !.instance = "failed"]
           none == {}
<1>1. RowsInv /\ ProcInv /\ c \in Proc
  BY DEF PathInv, Proc
<1>2. proc[c].pc = "lock" /\ proc[c].op = "message" /\ Room
  BY DEF PublishMessage, Handles
<1>3. s \in DOMAIN db.sub
  BY <1>1, <1>2 DEF ProcInv, Pending
<1>4. \/ Refuse(c)
      \/ /\ db.sub[s].state = "active"
         /\ \/ LET r == PublishEventOnEventGateway(n, s) IN FlushAndRun(c, r.b, r.tokens)
            \/ Kind[n] \in CatchKinds /\ LET r == PublishOnListener(n, s) IN FlushAndRun(c, r.b, r.tokens)
            \/ FlushAndReturn(c, b)
            \/ /\ Kind[n] = "task"
               /\ \E l \in MessageListener(n, s) :
                     LET r == FireBoundaryMessage(l, s) IN FlushAndRun(c, r.b, r.tokens)
  BY DEF PublishMessage
<1>5. CASE Refuse(c)
  BY <1>1, <1>5, RefuseStep
<1>6. CASE db.sub[s].state = "active"
  <2>1. s \in ActiveSubs /\ n \in Node
    BY <1>1, <1>3, <1>6, TokensOfRows DEF ActiveSubs
  <2>2. Kind[n] # "eventGateway" => s \notin Gateways(db)
    BY <1>1, GatewaySubs
  <2>3. CASE LET r == PublishEventOnEventGateway(n, s) IN FlushAndRun(c, r.b, r.tokens)
    <3> DEFINE r == PublishEventOnEventGateway(n, s)
    <3>1. Published(r)
      BY <1>1, <1>2, <2>1, GatewayPublishes
    <3>2. FlushAndRun(c, r.b, r.tokens)
      BY <2>3
    <3> HIDE DEF r
    <3>3. QED BY <1>1, <3>1, <3>2, PublishedRuns
  <2>4. CASE Kind[n] \in CatchKinds /\ LET r == PublishOnListener(n, s) IN FlushAndRun(c, r.b, r.tokens)
    <3> DEFINE r == PublishOnListener(n, s)
    <3>1. s \notin Gateways(db)
      BY <2>2, <2>4 DEF CatchKinds
    <3>2. Published(r)
      BY <1>1, <1>2, <2>1, <3>1, ListenerPublishes
    <3>3. FlushAndRun(c, r.b, r.tokens)
      BY <2>4
    <3> HIDE DEF r
    <3>4. QED BY <1>1, <3>2, <3>3, PublishedRuns
  <2>5. CASE FlushAndReturn(c, b)
    <3> DEFINE S == {s}
               off == "failed"
               e == SetSubs(db, S, off)
               f == [e EXCEPT !.instance = off]
    <3>1. Batch(db) /\ Known(db, none)
      BY <1>1, NoWrite DEF RowsInv
    <3>2. /\ S \subseteq {x \in DOMAIN db.sub : db.sub[x].state # "lost"}
          /\ off \in {"terminated", "failed"} /\ off \in InstanceState
      BY <1>3, <1>6 DEF InstanceState
    <3>3. FlushAndReturn(c, f)
      BY <2>5
    <3> HIDE DEF S, off, none
    <3>4. Batch(e) /\ Known(e, none) /\ GatewayTokens(e) \subseteq GatewayTokens(db)
      BY <3>1, <3>2, SetSubsBatch
    <3> HIDE DEF e
    <3>5. Batch(f) /\ Known(f, none) /\ GatewayTokens(f) = GatewayTokens(e)
      BY <3>2, <3>4, InstanceBatch
    <3> HIDE DEF f
    <3>6. Known(f, {}) /\ GatewayTokens(f) \subseteq GatewayTokens(db) \union Unused
      BY <3>4, <3>5 DEF none
    <3>7. QED BY <1>1, <3>3, <3>5, <3>6, FlushReturns
  <2>6. CASE /\ Kind[n] = "task"
             /\ \E l \in MessageListener(n, s) :
                   LET r == FireBoundaryMessage(l, s) IN FlushAndRun(c, r.b, r.tokens)
    <3>1. PICK l \in MessageListener(n, s) :
              LET r == FireBoundaryMessage(l, s) IN FlushAndRun(c, r.b, r.tokens)
      BY <2>6
    <3> DEFINE r == FireBoundaryMessage(l, s)
    <3>2. l \in Node
      BY <2>1, ListenersAreNodes DEF MessageListener
    <3>3. s \notin Gateways(db) /\ Kind[n] # "eventGateway"
      BY <2>2, <2>6
    <3>4. Published(r)
      BY <1>1, <1>2, <2>1, <3>2, <3>3, BoundaryMessagePublishes
    <3>5. FlushAndRun(c, r.b, r.tokens)
      BY <3>1
    <3> HIDE DEF r
    <3>6. QED BY <1>1, <3>4, <3>5, PublishedRuns
  <2>7. QED BY <1>4, <1>5, <2>3, <2>4, <2>5, <2>6
<1>7. QED BY <1>4, <1>5, <1>6

\* TriggerTimer keeps the invariant: it knows the gateway by the node of the call.
LEMMA TriggerTimerOnePath ==
    ASSUME PathInv, TriggerTimer
    PROVE  PathInv'
<1> DEFINE c == TimerLoop
           s == proc[c].arg
           n == proc[c].node
           k == db.sub[s].token
<1>1. RowsInv /\ ProcInv /\ c \in Proc
  BY DEF PathInv, Proc
<1>2. proc[c].pc = "lock" /\ proc[c].op = "timer" /\ Room
  BY DEF TriggerTimer, Handles
<1>3. /\ s \in DOMAIN db.sub /\ n \in Node
      /\ s \in Gateways(db) => n = db.sub[s].at
  BY <1>1, <1>2 DEF ProcInv, Pending
<1>4. \/ Refuse(c)
      \/ FlushFails(db) /\ Return(c)
      \/ /\ db.sub[s].state = "active"
         /\ \/ LET r == PublishEventOnEventGateway(n, s) IN FlushAndRun(c, r.b, r.tokens)
            \/ Kind[n] \in CatchKinds /\ LET r == PublishOnListener(n, s) IN FlushAndRun(c, r.b, r.tokens)
            \/ /\ Kind[n] = "task"
               /\ \E l \in TimerListener(At(k)) :
                     LET r == FireBoundaryTimer(l, s) IN FlushAndRun(c, r.b, r.tokens)
  BY DEF TriggerTimer
<1>5. CASE Refuse(c)
  BY <1>1, <1>5, RefuseStep
<1>6. CASE FlushFails(db) /\ Return(c)
  BY <1>1, <1>6, FailedFlush DEF RowsInv
<1> HIDE DEF c
<1>7. CASE db.sub[s].state = "active"
  <2>1. s \in ActiveSubs /\ At(k) \in Node
    BY <1>1, <1>3, <1>7, TokensOfRows DEF ActiveSubs
  <2>2. Kind[n] # "eventGateway" => s \notin Gateways(db)
    BY <1>1, <1>3, GatewaySubs
  <2>3. CASE LET r == PublishEventOnEventGateway(n, s) IN FlushAndRun(c, r.b, r.tokens)
    <3> DEFINE r == PublishEventOnEventGateway(n, s)
    <3>1. Published(r)
      BY <1>1, <1>2, <2>1, GatewayPublishes
    <3>2. FlushAndRun(c, r.b, r.tokens)
      BY <2>3
    <3> HIDE DEF r
    <3>3. QED BY <1>1, <3>1, <3>2, PublishedRuns
  <2>4. CASE Kind[n] \in CatchKinds /\ LET r == PublishOnListener(n, s) IN FlushAndRun(c, r.b, r.tokens)
    <3> DEFINE r == PublishOnListener(n, s)
    <3>1. s \notin Gateways(db)
      BY <2>2, <2>4 DEF CatchKinds
    <3>2. Published(r)
      BY <1>1, <1>2, <1>3, <2>1, <3>1, ListenerPublishes
    <3>3. FlushAndRun(c, r.b, r.tokens)
      BY <2>4
    <3> HIDE DEF r
    <3>4. QED BY <1>1, <3>2, <3>3, PublishedRuns
  <2>5. CASE /\ Kind[n] = "task"
             /\ \E l \in TimerListener(At(k)) :
                   LET r == FireBoundaryTimer(l, s) IN FlushAndRun(c, r.b, r.tokens)
    <3>1. PICK l \in TimerListener(At(k)) :
              LET r == FireBoundaryTimer(l, s) IN FlushAndRun(c, r.b, r.tokens)
      BY <2>5
    <3> DEFINE r == FireBoundaryTimer(l, s)
    <3>2. l \in Node
      BY <2>1, ListenersAreNodes DEF TimerListener
    <3>3. Boundary[At(k)] # <<>>
      <4>1. PICK i \in DOMAIN Boundary[At(k)] : TRUE
        BY <3>1 DEF TimerListener, FirstBoundary
      <4>2. QED BY <4>1
    <3>4. s \notin Gateways(db) /\ Kind[At(k)] # "eventGateway"
      BY <2>1, <2>2, <2>5, <3>3, ProcessDefinition
    <3>5. Published(r)
      BY <1>1, <1>2, <2>1, <3>2, <3>4, BoundaryTimerPublishes
    <3>6. FlushAndRun(c, r.b, r.tokens)
      BY <3>1
    <3> HIDE DEF r
    <3>7. QED BY <1>1, <3>5, <3>6, PublishedRuns
  <2>6. QED BY <1>4, <1>5, <1>6, <2>3, <2>4, <2>5
<1>8. QED BY <1>4, <1>5, <1>6, <1>7

-----------------------------------------------------------------------------
(* Calls that begin, and the start of an instance.                         *)

\* A call that is made keeps the invariant.
LEMMA CallStep ==
    ASSUME PathInv, NEW p \in Proc, NEW op, NEW arg, NEW n, Call(p, op, arg, n),
           op \in {"complete", "fail", "message", "resolve", "cancel", "modify", "timer"},
           arg \in Nat, n \in Node \union {"none"},
           op = "modify" /\ arg # 0 => At(arg) \in Node,
           op \in {"complete", "fail"} => arg \in DOMAIN db.job,
           op \in {"message", "timer"} => arg \in DOMAIN db.sub,
           op = "resolve" => arg \in DOMAIN db.incident,
           op \in {"modify", "timer"} => n \in Node,
           op = "timer" /\ arg \in Gateways(db) => n = db.sub[arg].at
    PROVE  PathInv'
<1> DEFINE v == IF op = "modify" /\ arg # 0 THEN At(arg) ELSE "none"
           x == [Idle EXCEPT !.pc = "lock", !.op = op, !.arg = arg, !.node = n, !.at = v]
<1>1. proc' = [proc EXCEPT ![p] = x] /\ db' = db
  BY DEF Call
<1>2. v \in Node \union {"none"}
  OBVIOUS
<1> HIDE DEF v
<1>3. /\ x \in Goroutine /\ x.pc = "lock" /\ x.op = op /\ x.arg = arg /\ x.node = n
      /\ x.tokens = Idle.tokens
  BY <1>2, IdleTypes DEF Goroutine
<1> HIDE DEF x
<1>4. Pending(db, x) /\ CarriesNone(db, x.tokens)
  BY <1>3, IdleTypes DEF Pending
<1>5. Batch(db) /\ Known(db, {})
  BY NoWrite DEF PathInv, RowsInv
<1>6. QED BY <1>1, <1>3, <1>4, <1>5, GoroutineStep

\* The clients call with what they know.
LEMMA ClientCallsOnePath ==
    ASSUME PathInv, NEW c \in Client, ClientCalls(c)
    PROVE  PathInv'
<1>1. c \in Proc /\ RowsInv /\ db \in Database
  BY DEF Proc, PathInv, RowsInv
<1>2. DOMAIN db.job \subseteq Nat /\ DOMAIN db.sub \subseteq Nat /\ DOMAIN db.incident \subseteq Nat
  <2>1. db.job \in Seq(JobRow) /\ db.sub \in Seq(SubRow) /\ db.incident \in Seq(IncidentRow)
    BY <1>1 DEF Database
  <2>2. QED BY <2>1
<1>3. ASSUME NEW op \in {"complete", "fail"}, NEW j \in DOMAIN db.job, Call(c, op, j, "none")
      PROVE  PathInv'
  BY <1>1, <1>2, <1>3, CallStep
<1>4. ASSUME NEW s \in ActiveMessages, Call(c, "message", s, "none")
      PROVE  PathInv'
  <2>1. s \in DOMAIN db.sub
    BY <1>4 DEF ActiveMessages, ActiveSubs
  <2>2. QED BY <1>1, <1>2, <1>4, <2>1, CallStep
<1>5. ASSUME NEW i \in DOMAIN db.incident, Call(c, "resolve", i, "none")
      PROVE  PathInv'
  BY <1>1, <1>2, <1>5, CallStep
<1>6. CASE Call(c, "cancel", 0, "none")
  BY <1>1, <1>6, CallStep
<1>7. ASSUME NEW k \in ActiveTokens \union {0}, NEW n \in ModifyAt, Call(c, "modify", k, n)
      PROVE  PathInv'
  <2>1. n \in Node
    BY ProcessDefinition
  <2>2. k \in Nat /\ (k # 0 => At(k) \in Node)
    BY <1>1, TokensOfRows, EngineAssumption DEF ActiveTokens, TokenKey
  <2>3. QED BY <1>1, <1>7, <2>1, <2>2, CallStep
<1>8. QED BY <1>3, <1>4, <1>5, <1>6, <1>7 DEF ClientCalls

\* The timer loop calls with the element of the timer.
LEMMA TimerFiresOnePath ==
    ASSUME PathInv, TimerFires
    PROVE  PathInv'
<1>1. TimerLoop \in Proc /\ RowsInv /\ db \in Database
  BY DEF Proc, PathInv, RowsInv
<1>2. PICK s \in DOMAIN db.sub : \E n \in {db.sub[s].at, At(db.sub[s].token)} :
              n # "none" /\ Call(TimerLoop, "timer", s, n)
  BY DEF TimerFires
<1>3. PICK n \in {db.sub[s].at, At(db.sub[s].token)} : n # "none" /\ Call(TimerLoop, "timer", s, n)
  BY <1>2
<1>4. s \in Nat
  <2>1. db.sub \in Seq(SubRow)
    BY <1>1 DEF Database
  <2>2. QED BY <2>1
<1>5. n \in Node
  <2>1. db.sub[s].at \in Node /\ db.sub[s].token \in TokenKey
    BY <1>1, RowTypes
  <2>2. db.token[db.sub[s].token].at \in Node \union {"none"}
    <3>1. db.token[db.sub[s].token] \in TokenRow
      BY <1>1, <2>1, RowTypes
    <3>2. QED BY <3>1 DEF TokenRow
  <2>3. QED BY <1>3, <2>1, <2>2 DEF At
<1>6. s \in Gateways(db) => n = db.sub[s].at
  BY <1>1, <1>3, GatewaySubs
<1>7. QED BY <1>1, <1>3, <1>4, <1>5, <1>6, CallStep

\* CreateInstance keeps the invariant.
LEMMA CreateInstanceOnePath ==
    ASSUME PathInv, NEW c \in Client, CreateInstance(c)
    PROVE  PathInv'
<1> DEFINE toks == [i \in DOMAIN StartEvents |-> Token(Fresh(i), StartEvents[i], "running")]
           d == [db EXCEPT !.instance = "ready"]
           b == SaveTokens(d, toks)
           none == {}
<1>1. c \in Proc /\ RowsInv
  BY DEF Proc, PathInv
<1>2. FlushAndRun(c, b, toks) /\ Len(StartEvents) <= Cardinality(Unused)
  BY DEF CreateInstance
<1>3. StartEvents \in Seq(Node)
  BY ProcessDefinition
<1>4. ASSUME NEW i \in DOMAIN StartEvents
      PROVE  Token(Fresh(i), StartEvents[i], "running") \in MovingToken /\ toks[i].key \in Unused
  <2>1. Fresh(i) \in Unused /\ StartEvents[i] \in Node
    BY <1>2, <1>3, <1>4, FreshResult
  <2>2. Fresh(i) \in TokenKey
    BY <2>1 DEF Unused
  <2>3. QED BY <1>4, <2>1, <2>2, TokenTypes DEF TokenState
<1>5. toks \in Seq(MovingToken) /\ DOMAIN toks = DOMAIN StartEvents
  <2> DEFINE N == Len(StartEvents)
  <2>1. N \in Nat /\ DOMAIN StartEvents = 1..N
    BY <1>3
  <2>2. toks = [i \in 1..N |-> toks[i]] /\ \A i \in 1..N : toks[i] \in MovingToken
    BY <1>4, <2>1
  <2> HIDE DEF toks, N
  <2>3. QED BY <2>1, <2>2
<1> HIDE DEF toks
<1>6. \A i \in DOMAIN toks : toks[i].key \notin GatewayTokens(db)
  BY <1>1, <1>4, <1>5, UnusedFacts
<1>7. Batch(db) /\ Known(db, none)
  BY <1>1, NoWrite DEF RowsInv
<1> HIDE DEF none
<1>8. Batch(d) /\ Known(d, none) /\ GatewayTokens(d) = GatewayTokens(db)
  BY <1>7, InstanceBatch DEF InstanceState
<1> HIDE DEF d
<1>9. CarriesNone(d, toks)
  BY <1>6, <1>8 DEF CarriesNone
<1>10. Batch(b) /\ Known(b, {}) /\ GatewayTokens(b) = GatewayTokens(d)
  <2> DEFINE K == none \ {toks[h].key : h \in DOMAIN toks}
  <2>1. Batch(b) /\ Known(b, K) /\ GatewayTokens(b) = GatewayTokens(d)
    BY <1>5, <1>8, <1>9, SaveTokensBatch
  <2>2. K = {}
    BY DEF none
  <2> HIDE DEF K
  <2>3. QED BY <2>1, <2>2
<1> HIDE DEF b
<1>11. Going(b, toks)
  BY <1>5, <1>6, <1>8, <1>10 DEF Going
<1>12. QED BY <1>1, <1>2, <1>8, <1>10, <1>11, FlushRuns

-----------------------------------------------------------------------------
(* The main loop.                                                          *)

\* What a turn of the main loop saves, for whichever outcome of the node.
LEMMA OutcomeSaved ==
    ASSUME RowsInv, Room, NEW t \in MovingToken, t.key \notin GatewayTokens(db),
           t.key \notin Unused, NEW r \in ProcessFlowNode(t), NEW i \in InstanceState
    PROVE  LET b == SaveTokens([r.b EXCEPT !.instance = i], r.tokens) IN
           /\ r.b \in Database
           /\ Batch(b) /\ Known(b, {})
           /\ GatewayTokens(b) \subseteq GatewayTokens(db) \union Unused
           /\ Running(r.tokens) \in Seq(MovingToken)
           /\ CarriesNone(b, Running(r.tokens)) /\ CarriesNone(db, Running(r.tokens))
<1> DEFINE b == SaveTokens([r.b EXCEPT !.instance = i], r.tokens)
<1>1. CASE Kind[t.at] = "eventGateway"
  <2>1. /\ r.b \in Database /\ r.tokens \in Seq(MovingToken)
        /\ Batch(b) /\ Known(b, {})
        /\ GatewayTokens(b) \subseteq GatewayTokens(db) \union Unused
        /\ \A j \in DOMAIN r.tokens : r.tokens[j].state # "running"
    BY <1>1, GatewaySaved
  <2> HIDE DEF b
  <2>2. Going(b, r.tokens) /\ Going(db, r.tokens)
    BY <2>1 DEF Going
  <2>3. /\ Running(r.tokens) \in Seq(MovingToken)
        /\ CarriesNone(b, Running(r.tokens)) /\ CarriesNone(db, Running(r.tokens))
    BY <2>2, GoingRuns
  <2>4. QED BY <2>1, <2>3 DEF b
<1>2. CASE Kind[t.at] # "eventGateway"
  <2> DEFINE k == t.key
  <2>1. k \in TokenKey \ GatewayTokens(db)
    BY DEF MovingToken
  <2>2. Plain(r, k)
    BY <1>2, OutcomesArePlain
  <2>3. r.b \in Database /\ r.tokens \in Seq(MovingToken) /\ Moves(r.tokens, k)
    BY <2>2 DEF Plain, Batch, Moves
  <2> HIDE DEF k
  <2>4. /\ Batch(b) /\ Known(b, {}) /\ GatewayTokens(b) \subseteq GatewayTokens(db)
        /\ CarriesNone(b, r.tokens)
    BY <2>1, <2>2, PlainSaved
  <2> HIDE DEF b
  <2>5. Going(db, r.tokens)
    BY <2>1, <2>3, MovesGo
  <2>6. Going(b, r.tokens)
    BY <2>3, <2>4 DEF Going, CarriesNone
  <2>7. /\ Running(r.tokens) \in Seq(MovingToken)
        /\ CarriesNone(b, Running(r.tokens)) /\ CarriesNone(db, Running(r.tokens))
    BY <2>5, <2>6, GoingRuns
  <2>8. QED BY <2>3, <2>4, <2>7 DEF b
<1>3. QED BY <1>1, <1>2

\* A turn of the main loop: the batch, and what the goroutine goes on with.
LEMMA LoopStep ==
    ASSUME PathInv, NEW p \in Proc, proc[p].pc = "loop",
           NEW b, Batch(b), Known(b, {}), db' = b,
           GatewayTokens(b) \subseteq GatewayTokens(db) \union Unused,
           NEW toks \in Seq(MovingToken), CarriesNone(b, toks), NEW e \in BOOLEAN,
           proc' = [proc EXCEPT ![p].tokens = toks, ![p].failed = e]
    PROVE  PathInv'
<1> DEFINE x == [proc[p] EXCEPT !.tokens = toks, !.failed = e]
<1>1. proc \in [Proc -> Goroutine]
  BY DEF PathInv, ProcInv
<1>2. proc[p] \in Goroutine
  BY <1>1
<1>3. proc' = [proc EXCEPT ![p] = x]
  BY <1>1
<1>4. x \in Goroutine /\ x.pc = "loop" /\ x.tokens = toks
  BY <1>2 DEF Goroutine
<1> HIDE DEF x
<1>5. Pending(b, x)
  BY <1>4 DEF Pending
<1>6. QED BY <1>3, <1>4, <1>5, GoroutineStep

\* Two sequences without a gateway's token make one without.
LEMMA MoreTokens ==
    ASSUME NEW b, NEW s \in Seq(MovingToken), NEW u \in Seq(MovingToken),
           CarriesNone(b, s), CarriesNone(b, u)
    PROVE  s \o u \in Seq(MovingToken) /\ CarriesNone(b, s \o u)
<1>1. /\ s \o u \in Seq(MovingToken)
      /\ \A i \in DOMAIN (s \o u) : \/ i \in DOMAIN s /\ (s \o u)[i] = s[i]
                                    \/ i - Len(s) \in DOMAIN u /\ (s \o u)[i] = u[i - Len(s)]
  OBVIOUS
<1>2. QED BY <1>1 DEF CarriesNone

\* A turn of the main loop keeps the invariant, whether its flush fails or not.
LEMMA RunStepOnePath ==
    ASSUME PathInv, NEW p \in Proc, RunStep(p)
    PROVE  PathInv'
<1> DEFINE t    == Head(proc[p].tokens)
           rest == Tail(proc[p].tokens)
           errs == proc[p].failed
           After(toks, e) == proc' = [proc EXCEPT ![p].tokens = toks, ![p].failed = e]
           State(r) == IF errs THEN "failed" ELSE IF r.ends THEN "completed" ELSE "active"
           Saved(r) == SaveTokens([r.b EXCEPT !.instance = State(r)], r.tokens)
           More(r)  == IF State(r) = "completed" THEN <<>> ELSE rest \o Running(r.tokens)
           none == {}
<1>1. RowsInv /\ ProcInv /\ proc[p].pc = "loop" /\ proc[p].tokens # <<>> /\ Room
  BY DEF PathInv, RunStep
<1>2. proc[p].tokens \in Seq(MovingToken) /\ errs \in BOOLEAN
  <2>1. proc[p] \in Goroutine
    BY <1>1 DEF ProcInv
  <2>2. QED BY <2>1 DEF Goroutine
<1>3. /\ t \in MovingToken /\ rest \in Seq(MovingToken)
      /\ 1 \in DOMAIN proc[p].tokens /\ t = proc[p].tokens[1]
      /\ \A i \in DOMAIN rest : i + 1 \in DOMAIN proc[p].tokens /\ rest[i] = proc[p].tokens[i + 1]
  BY <1>1, <1>2
<1>4. t.key \notin GatewayTokens(db) /\ t.key \notin Unused
  BY <1>1, <1>3 DEF ProcInv, CarriesNone, Unused
<1>5. ASSUME NEW b, Batch(b), GatewayTokens(b) \subseteq GatewayTokens(db) \union Unused
      PROVE  CarriesNone(b, rest)
  <2>1. CarriesNone(b, proc[p].tokens)
    BY <1>5, OthersStay
  <2>2. QED BY <1>3, <2>1 DEF CarriesNone
<1>6. ASSUME NEW d, Batch(d), Known(d, {}), GatewayTokens(d) = GatewayTokens(db)
      PROVE  LET i == WriteTokenIncident(d, t) IN
             Batch(i) /\ Known(i, {}) /\ GatewayTokens(i) = GatewayTokens(db)
  <2> DEFINE i == WriteTokenIncident(d, t)
  <2>1. Known(d, none)
    BY <1>6
  <2> HIDE DEF none, t
  <2>2. Batch(i) /\ Known(i, none \ {t.key}) /\ GatewayTokens(i) = GatewayTokens(d)
    BY <1>3, <1>4, <1>6, <2>1, WriteIncidentBatch
  <2>3. none \ {t.key} = {}
    BY DEF none
  <2> HIDE DEF i
  <2>4. Batch(i) /\ Known(i, {}) /\ GatewayTokens(i) = GatewayTokens(db)
    BY <1>6, <2>2, <2>3
  <2>5. QED BY <2>4 DEF i
<1>7. <<>> \in Seq(MovingToken) /\ \A b : CarriesNone(b, <<>>)
  BY DEF CarriesNone
<1>8. ASSUME NEW d, Batch(d), Known(d, {}), db' = d, GatewayTokens(d) = GatewayTokens(db),
             After(rest, TRUE)
      PROVE  PathInv'
  <2>1. CarriesNone(d, rest) /\ GatewayTokens(d) \subseteq GatewayTokens(db) \union Unused
    BY <1>5, <1>8
  <2> HIDE DEF rest
  <2>2. QED BY <1>1, <1>3, <1>8, <2>1, LoopStep
<1>9. ASSUME NEW r \in ProcessFlowNode(t),
             \/ db' = Saved(r) /\ After(More(r), errs)
             \/ FlushFails(Saved(r)) /\ After(More(r), TRUE)
             \/ db' = WriteTokenIncident(LostTimers(Saved(r)), t) /\ After(More(r), TRUE)
      PROVE  PathInv'
  <2> DEFINE b == Saved(r)
             toks == Running(r.tokens)
             i == State(r)
             more == More(r)
  <2>1. i \in InstanceState
    BY DEF InstanceState
  <2>2. /\ Batch(b) /\ Known(b, {})
        /\ GatewayTokens(b) \subseteq GatewayTokens(db) \union Unused
        /\ toks \in Seq(MovingToken) /\ CarriesNone(b, toks) /\ CarriesNone(db, toks)
    <3> DEFINE e == SaveTokens([r.b EXCEPT !.instance = i], r.tokens)
    <3>1. b = e /\ r \in ProcessFlowNode(t)
      BY <1>9
    <3> HIDE DEF t, i, toks, b
    <3>2. /\ Batch(e) /\ Known(e, {})
          /\ GatewayTokens(e) \subseteq GatewayTokens(db) \union Unused
          /\ Running(r.tokens) \in Seq(MovingToken)
          /\ CarriesNone(e, Running(r.tokens)) /\ CarriesNone(db, Running(r.tokens))
      BY <1>1, <1>3, <1>4, <2>1, <3>1, OutcomeSaved
    <3> HIDE DEF e
    <3>3. QED BY <3>1, <3>2 DEF toks
  <2>3. ASSUME NEW d, Batch(d), GatewayTokens(d) \subseteq GatewayTokens(db) \union Unused,
               CarriesNone(d, toks)
        PROVE  more \in Seq(MovingToken) /\ CarriesNone(d, more)
    <3>1. CarriesNone(d, rest)
      BY <1>5, <2>3
    <3> HIDE DEF rest, toks
    <3>2. rest \o toks \in Seq(MovingToken) /\ CarriesNone(d, rest \o toks)
      BY <1>3, <2>2, <2>3, <3>1, MoreTokens
    <3>3. more = <<>> \/ more = rest \o toks
      BY DEF toks
    <3> HIDE DEF more
    <3>4. QED BY <1>7, <3>2, <3>3
  <2>4. \/ db' = b /\ After(more, errs)
        \/ FlushFails(b) /\ After(more, TRUE)
        \/ db' = WriteTokenIncident(LostTimers(b), t) /\ After(more, TRUE)
    BY <1>9
  <2> HIDE DEF b, more, t, errs, toks
  <2>5. CASE db' = b /\ After(more, errs)
    <3>1. more \in Seq(MovingToken) /\ CarriesNone(b, more)
      BY <2>2, <2>3
    <3>2. QED BY <1>1, <1>2, <2>2, <2>5, <3>1, LoopStep
  <2> DEFINE l == LostTimers(b)
  <2>6. Batch(l) /\ Known(l, {}) /\ GatewayTokens(l) = GatewayTokens(db)
    <3>1. b \in Database
      BY <2>2 DEF Batch
    <3>2. QED BY <1>1, <3>1, LostBatch
  <2> HIDE DEF l
  <2>7. ASSUME NEW d, Batch(d), Known(d, {}), GatewayTokens(d) = GatewayTokens(db), db' = d,
               After(more, TRUE)
        PROVE  PathInv'
    <3>1. CarriesNone(d, toks) /\ GatewayTokens(d) \subseteq GatewayTokens(db) \union Unused
      BY <2>2, <2>7 DEF CarriesNone
    <3>2. more \in Seq(MovingToken) /\ CarriesNone(d, more)
      BY <2>3, <2>7, <3>1
    <3>3. QED BY <1>1, <2>7, <3>1, <3>2, LoopStep
  <2>8. CASE FlushFails(b) /\ After(more, TRUE)
    <3>1. db' = l
      BY <2>8 DEF FlushFails, l
    <3>2. QED BY <2>6, <2>7, <2>8, <3>1
  <2>9. CASE db' = WriteTokenIncident(LostTimers(b), t) /\ After(more, TRUE)
    <3> DEFINE j == WriteTokenIncident(l, t)
    <3>1. Batch(j) /\ Known(j, {}) /\ GatewayTokens(j) = GatewayTokens(db)
      BY <1>6, <2>6
    <3>2. db' = j
      BY <2>9 DEF l
    <3> HIDE DEF j
    <3>3. QED BY <2>7, <2>9, <3>1, <3>2
  <2>10. QED BY <2>4, <2>5, <2>8, <2>9
<1>10. ASSUME NEW d \in {db} \union {LostTimers(r.b) : r \in ProcessFlowNode(t)},
              db' = WriteTokenIncident(d, t) \/ db' = d,
              After(rest, TRUE)
       PROVE  PathInv'
  <2>1. Batch(d) /\ Known(d, {}) /\ GatewayTokens(d) = GatewayTokens(db)
    <3>1. CASE d = db
      BY <1>1, <3>1, NoWrite DEF RowsInv
    <3>2. ASSUME NEW r \in ProcessFlowNode(t), d = LostTimers(r.b)
          PROVE  Batch(d) /\ Known(d, {}) /\ GatewayTokens(d) = GatewayTokens(db)
      <4> DEFINE i == "active"
      <4>1. i \in InstanceState
        BY DEF InstanceState
      <4> HIDE DEF t, i
      <4>2. r.b \in Database
        BY <1>1, <1>3, <1>4, <3>2, <4>1, OutcomeSaved
      <4>3. QED BY <1>1, <3>2, <4>2, LostBatch
    <3>3. QED BY <1>10, <3>1, <3>2
  <2>2. CASE db' = d
    BY <1>8, <1>10, <2>1, <2>2
  <2>3. CASE db' = WriteTokenIncident(d, t)
    <3> DEFINE j == WriteTokenIncident(d, t)
    <3>1. Batch(j) /\ Known(j, {}) /\ GatewayTokens(j) = GatewayTokens(db)
      BY <1>6, <2>1
    <3>2. db' = j
      BY <2>3
    <3> HIDE DEF j, t, rest
    <3>3. QED BY <1>8, <1>10, <3>1, <3>2
  <2>4. QED BY <1>10, <2>2, <2>3
<1>11. ASSUME NEW d \in CutShort, NEW i \in InstanceState,
              db' = SaveTokens([d EXCEPT !.instance = i], Complete(t)),
              After(IF errs THEN rest ELSE <<>>, errs)
       PROVE  PathInv'
  <2> DEFINE c == [d EXCEPT !.instance = i]
             toks == Complete(t)
             b == SaveTokens(c, toks)
             more == IF errs THEN rest ELSE <<>>
  <2>1. Batch(d) /\ Known(d, none) /\ GatewayTokens(d) \subseteq GatewayTokens(db)
    BY <1>1, <1>11, CancelBatches
  <2>2. toks \in Seq(MovingToken) /\ \A j \in DOMAIN toks : toks[j].key = t.key
    <3>1. Complete(t) = <<Token(t.key, t.at, "completed")>>
      BY DEF Complete
    <3>2. t.key \in TokenKey /\ t.at \in Node
      BY <1>3 DEF MovingToken
    <3> HIDE DEF t
    <3>3. Token(t.key, t.at, "completed") \in MovingToken /\ Token(t.key, t.at, "completed").key = t.key
      BY <3>2, TokenTypes DEF TokenState
    <3>4. QED BY <3>1, <3>3
  <2>3. db' = b /\ After(more, errs)
    BY <1>11
  <2> HIDE DEF none, toks, more, t, errs
  <2>4. Batch(c) /\ Known(c, none) /\ GatewayTokens(c) = GatewayTokens(d)
    BY <2>1, InstanceBatch
  <2> HIDE DEF c
  <2>5. CarriesNone(c, toks)
    BY <1>4, <2>1, <2>2, <2>4 DEF CarriesNone
  <2>6. Batch(b) /\ Known(b, {}) /\ GatewayTokens(b) = GatewayTokens(c)
    <3> DEFINE K == none \ {toks[h].key : h \in DOMAIN toks}
    <3>1. Batch(b) /\ Known(b, K) /\ GatewayTokens(b) = GatewayTokens(c)
      BY <2>2, <2>4, <2>5, SaveTokensBatch
    <3>2. K = {}
      BY DEF none
    <3> HIDE DEF K
    <3>3. QED BY <3>1, <3>2
  <2> HIDE DEF b
  <2>7. GatewayTokens(b) \subseteq GatewayTokens(db) \union Unused
    BY <2>1, <2>4, <2>6
  <2>8. more \in Seq(MovingToken) /\ CarriesNone(b, more)
    <3>1. CarriesNone(b, rest)
      BY <1>5, <2>6, <2>7
    <3>2. QED BY <1>3, <1>7, <3>1 DEF more
  <2>9. QED BY <1>1, <1>2, <2>3, <2>6, <2>7, <2>8, LoopStep
<1>12. \/ \E r \in ProcessFlowNode(t) :
             \/ db' = Saved(r) /\ After(More(r), errs)
             \/ FlushFails(Saved(r)) /\ After(More(r), TRUE)
             \/ db' = WriteTokenIncident(LostTimers(Saved(r)), t) /\ After(More(r), TRUE)
       \/ /\ \E d \in {db} \union {LostTimers(r.b) : r \in ProcessFlowNode(t)} :
                db' = WriteTokenIncident(d, t) \/ db' = d
          /\ After(rest, TRUE)
       \/ /\ \E d \in CutShort :
                db' = SaveTokens([d EXCEPT !.instance = IF errs THEN "failed" ELSE "completed"],
                                 Complete(t))
          /\ After(IF errs THEN rest ELSE <<>>, errs)
  BY DEF RunStep
<1>13. (IF errs THEN "failed" ELSE "completed") \in InstanceState
  BY DEF InstanceState
<1> HIDE DEF t, rest, errs, State, Saved, More, After
<1>14. QED BY <1>9, <1>10, <1>11, <1>12, <1>13

\* RunProcessInstance keeps the invariant up to its main loop ...
LEMMA RunBeginsOnePath ==
    ASSUME PathInv, NEW p \in Proc, RunBegins(p)
    PROVE  PathInv'
<1>1. RowsInv /\ ProcInv
  BY DEF PathInv
<1>2. CASE Refuse(p)
  BY <1>2, RefuseStep
<1>3. CASE FlushFails(db) /\ Return(p)
  BY <1>1, <1>3, FailedFlush DEF RowsInv
<1>4. CASE /\ db' = [db EXCEPT !.instance = "active"]
           /\ proc' = [proc EXCEPT ![p].pc = "loop"]
  <2> DEFINE b == [db EXCEPT !.instance = "active"]
             x == [proc[p] EXCEPT !.pc = "loop"]
             none == {}
  <2>1. proc \in [Proc -> Goroutine] /\ proc[p] \in Goroutine
    BY <1>1 DEF ProcInv
  <2>2. proc' = [proc EXCEPT ![p] = x] /\ db' = b
    BY <1>4, <2>1
  <2>3. x \in Goroutine /\ x.pc = "loop" /\ x.tokens = proc[p].tokens
    BY <2>1 DEF Goroutine
  <2> HIDE DEF x
  <2>4. Batch(db) /\ Known(db, none)
    BY <1>1, NoWrite DEF RowsInv
  <2> HIDE DEF none
  <2>5. Batch(b) /\ Known(b, none) /\ GatewayTokens(b) = GatewayTokens(db)
    BY <2>4, InstanceBatch DEF InstanceState
  <2> HIDE DEF b
  <2>6. Known(b, {}) /\ GatewayTokens(b) \subseteq GatewayTokens(db) \union Unused
    BY <2>5 DEF none
  <2>7. Pending(b, x) /\ CarriesNone(b, x.tokens)
    BY <1>1, <2>3, <2>5 DEF Pending, ProcInv, CarriesNone
  <2>8. QED BY <2>2, <2>3, <2>5, <2>6, <2>7, GoroutineStep
<1>5. QED BY <1>2, <1>3, <1>4 DEF RunBegins

\* ... and at its end.
LEMMA RunEndsOnePath ==
    ASSUME PathInv, NEW p \in Proc, RunEnds(p)
    PROVE  PathInv'
<1>1. Batch(db) /\ Known(db, {})
  BY NoWrite DEF PathInv, RowsInv
<1>2. Return(p) /\ db' = db
  BY DEF RunEnds
<1>3. QED BY <1>1, <1>2, ReturnStep

\* A node that dies keeps the invariant: the database is left alone.
LEMMA DiesOnePath ==
    ASSUME PathInv, Dies
    PROVE  PathInv'
<1>1. Batch(db) /\ Known(db, {}) /\ db' = db
  BY NoWrite DEF PathInv, RowsInv, Dies
<1>2. RowsInv'
  BY <1>1, RowsStep
<1>3. proc' \in [Proc -> Goroutine] /\ \A p \in Proc : proc'[p] = Idle
  BY IdleTypes DEF Dies
<1>4. \A p \in Proc : Pending(db', proc'[p]) /\ CarriesNone(db', proc'[p].tokens)
  BY <1>3, IdleTypes
<1>5. \A p \in Proc : (Pending(db, proc[p]) /\ CarriesNone(db, proc[p].tokens))'
  BY <1>4 DEF Pending, CarriesNone, GatewayTokens, Gateways
<1>6. QED BY <1>2, <1>3, <1>5 DEF PathInv, ProcInv

\* A node that starts runs only tokens that are running.
LEMMA StartOnePath ==
    ASSUME PathInv, Start
    PROVE  PathInv'
<1> DEFINE K == {k \in TokenKey : db.token[k].state = "running"}
           ks == InOrder(K)
           toks == [i \in DOMAIN ks |-> Token(ks[i], At(ks[i]), "running")]
<1>1. RowsInv /\ db' = db
  BY DEF PathInv, Start
<1>2. Batch(db) /\ Known(db, {})
  BY <1>1, NoWrite DEF RowsInv
<1>3. CASE UNCHANGED proc
  BY <1>1, <1>3 DEF PathInv, RowsInv, ProcInv, Known, GatewaysWait, OnePath, Gateways,
                    GatewayTokens, Pending, CarriesNone
<1>4. ASSUME NEW c \in Client, ThenRun(c, toks)
      PROVE  PathInv'
  <2> DEFINE F == [k \in K |-> Token(k, At(k), "running")]
             w == [i \in DOMAIN ks |-> F[ks[i]]]
  <2>1. ASSUME NEW k \in K
        PROVE  F[k] \in MovingToken /\ F[k].key \notin GatewayTokens(db)
    <3>1. k \in TokenKey /\ At(k) \in Node
      BY <1>1, <2>1, TokensOfRows DEF ActiveTokens
    <3>2. k \notin GatewayTokens(db)
      BY <1>1, <2>1, GatewayFacts DEF RowsInv
    <3>3. F[k] = Token(k, At(k), "running")
      BY <2>1
    <3>4. QED BY <3>1, <3>2, <3>3, TokenTypes DEF TokenState
  <2>2. K \subseteq TokenKey
    OBVIOUS
  <2>3. \A i \in DOMAIN ks : ks[i] \in K
    <3>1. IsFiniteSet(K) /\ K \subseteq Nat
      <4>1. MaxTokens \in Int /\ 1 \in Int
        BY EngineAssumption
      <4>2. IsFiniteSet(TokenKey) /\ TokenKey \subseteq Nat
        BY <4>1, FS_Interval, EngineAssumption DEF TokenKey
      <4> HIDE DEF K
      <4>3. QED BY <2>2, <4>2, FS_Subset
    <3> HIDE DEF K
    <3>2. QED BY <3>1, InOrderResult
  <2>4. toks = w
    BY <2>3
  <2> HIDE DEF F, K
  <2>5. w \in Seq(MovingToken) /\ \A i \in DOMAIN w : \E k \in K : w[i] = F[k]
    BY <2>1, <2>2, OrderedTokens
  <2> HIDE DEF w, toks
  <2>6. Going(db, toks)
    BY <2>1, <2>4, <2>5 DEF Going
  <2>7. c \in Proc
    BY DEF Proc
  <2>8. QED BY <1>1, <1>2, <1>4, <2>6, <2>7, RunStarts
<1>5. QED BY <1>3, <1>4 DEF Start

\* The invariant holds at first, when there are no rows.
LEMMA PathInit == Init => PathInv
<1> SUFFICES ASSUME Init PROVE PathInv
  OBVIOUS
<1>1. /\ db.instance = "none" /\ db.token = [k \in TokenKey |-> [at |-> "none", state |-> "none"]]
      /\ db.job = <<>> /\ db.sub = <<>> /\ db.incident = <<>>
      /\ db \in Database
  BY DEF Init, Database, InstanceState, TokenRow
<1>2. Known(db, {}) /\ GatewaysWait(db) /\ OnePath(db)
  BY <1>1 DEF Known, GatewaysWait, OnePath, Gateways
<1>3. proc \in [Proc -> Goroutine] /\ \A p \in Proc : proc[p] = Idle
  BY IdleTypes DEF Init
<1>4. QED BY <1>1, <1>2, <1>3, IdleTypes DEF PathInv, RowsInv, ProcInv

\* The invariant is inductive.
LEMMA PathStep == PathInv /\ [Next]_engineVars => PathInv'
<1> SUFFICES ASSUME PathInv, [Next]_engineVars PROVE PathInv'
  OBVIOUS
<1>1. CASE UNCHANGED engineVars
  BY <1>1 DEF engineVars, PathInv, RowsInv, ProcInv, Known, GatewaysWait, OnePath, Gateways,
              GatewayTokens, Pending, CarriesNone
<1>2. ASSUME NEW c \in Client,
             \/ CreateInstance(c) \/ ClientCalls(c)
             \/ JobCompleteByKey(c) \/ JobFailByKey(c) \/ PublishMessage(c)
             \/ ResolveIncident(c) \/ CancelInstance(c) \/ ModifyInstance(c)
             \/ JobAssignReads(c) \/ JobAssignWrites(c)
      PROVE  PathInv'
  BY <1>2, CreateInstanceOnePath, ClientCallsOnePath, JobCompleteOnePath, JobFailOnePath,
     PublishMessageOnePath, ResolveIncidentOnePath, CancelInstanceOnePath,
     ModifyInstanceOnePath, JobAssignOnePath
<1>3. CASE TimerFires \/ TriggerTimer
  BY <1>3, TimerFiresOnePath, TriggerTimerOnePath
<1>4. ASSUME NEW p \in Proc, RunBegins(p) \/ RunStep(p) \/ RunEnds(p) \/ Panic(p)
      PROVE  PathInv'
  BY <1>4, RunBeginsOnePath, RunStepOnePath, RunEndsOnePath, DiesOnePath DEF Panic
<1>5. CASE Crash \/ Start
  BY <1>5, DiesOnePath, StartOnePath DEF Crash
<1>6. QED BY <1>1, <1>2, <1>3, <1>4, <1>5 DEF Next

\* The rows and goroutines of the engine, through all of its actions: tokens that
\* wait at an event-based gateway have no other row and are carried by nobody.
THEOREM PathInvariance == Spec => []PathInv
<1>1. Init => PathInv
  BY PathInit
<1>2. PathInv /\ [Next]_engineVars => PathInv'
  BY PathStep
<1>3. QED BY <1>1, <1>2, PTL DEF Spec

\* Of the events behind an event-based gateway at most one happens
\* (publishEventOnEventGateway), whatever messages and timers race for it, calls
\* modify or cancel the instance, flushes fail and nodes crash.
THEOREM GatewaysTakeOnePath == Spec => []ExactlyOnePath
<1>1. PathInv => ExactlyOnePath
  BY DEF PathInv, RowsInv, OnePath, ExactlyOnePath
<1>2. QED BY <1>1, PathInvariance, PTL

-----------------------------------------------------------------------------
(* Who holds the instance.                                                 *)

\* A goroutine is in the main loop exactly while it holds the instance, and a
\* node that is down has no goroutine in a call.
LockInv ==
    /\ lock \in Proc \union {NoOne, Nobody}
    /\ \A p \in Proc : proc[p].pc = "loop" <=> lock = p
    /\ up \in BOOLEAN
    /\ ~up => \A p \in Proc : proc[p].pc = "idle"
    /\ failures \in 0..MaxFailures
    /\ crashes \in 0..MaxCrashes

MayHaveFailed == \/ failures' = failures
                 \/ failures < MaxFailures /\ failures' = failures + 1

\* The goroutine p goes on outside of the main loop.
Moved(p) ==
    /\ \E x : x.pc # "loop" /\ proc' = [proc EXCEPT ![p] = x]
    /\ MayHaveFailed

\* The ends of a call, in RunProcessInstance or without it.
LEMMA CallsMove ==
    ASSUME NEW p \in Proc, NEW b, NEW toks,
           \/ FlushAndReturn(p, b) \/ FlushAndRun(p, b, toks) \/ Refuse(p)
           \/ FlushFails(b) /\ Return(p)
    PROVE  Moved(p)
<1>1. Idle.pc = "idle" /\ [Idle EXCEPT !.pc = "run", !.tokens = Running(toks)].pc = "run"
  BY DEF Idle
<1>2. Return(p) => \E x : x.pc # "loop" /\ proc' = [proc EXCEPT ![p] = x]
  BY <1>1 DEF Return
<1>3. ThenRun(p, toks) => \E x : x.pc # "loop" /\ proc' = [proc EXCEPT ![p] = x]
  <2> DEFINE x == [Idle EXCEPT !.pc = "run", !.tokens = Running(toks)]
  <2>1. x.pc # "loop" /\ (ThenRun(p, toks) => proc' = [proc EXCEPT ![p] = x])
    BY <1>1 DEF ThenRun
  <2> HIDE DEF x
  <2>2. QED BY <2>1
<1>4. FlushFails(b) => MayHaveFailed
  BY DEF FlushFails, MayHaveFailed
<1>5. UNCHANGED failures => MayHaveFailed
  BY DEF MayHaveFailed
<1>6. QED BY <1>2, <1>3, <1>4, <1>5 DEF Moved, FlushAndReturn, FlushAndRun, Refuse

\* A goroutine that is not in the main loop, and does not enter it, leaves the
\* lock to its owner; it may leave a free lock to nobody.
LEMMA OutsideStep ==
    ASSUME PathInv, LockInv, NEW p \in Proc, Moved(p), proc[p].pc # "loop",
           up \/ proc[p].pc # "idle",
           lock' = lock \/ (lock = NoOne /\ lock' = Nobody), up' = up, crashes' = crashes
    PROVE  LockInv'
<1>1. PICK x : x.pc # "loop" /\ proc' = [proc EXCEPT ![p] = x]
  BY DEF Moved
<1>2. proc \in [Proc -> Goroutine]
  BY DEF PathInv, ProcInv
<1>3. \A q \in Proc : proc'[q] = IF q = p THEN x ELSE proc[q]
  BY <1>1, <1>2
<1>4. up
  BY DEF LockInv
<1>5. lock' \in Proc \union {NoOne, Nobody} /\ \A q \in Proc : lock' = q <=> lock = q
  BY EngineAssumption DEF LockInv
<1>6. \A q \in Proc : proc'[q].pc = "loop" <=> lock' = q
  BY <1>1, <1>3, <1>5 DEF LockInv
<1>7. failures' \in 0..MaxFailures
  BY EngineAssumption DEF LockInv, Moved, MayHaveFailed
<1>8. QED BY <1>4, <1>5, <1>6, <1>7 DEF LockInv

\* All of what clients and the timer loop do outside of the main loop.
LEMMA OutsideActions ==
    ASSUME PathInv, LockInv,
           \/ \E c \in Client :
                 \/ CreateInstance(c) \/ ClientCalls(c)
                 \/ JobCompleteByKey(c) \/ JobFailByKey(c) \/ PublishMessage(c)
                 \/ ResolveIncident(c) \/ CancelInstance(c) \/ ModifyInstance(c)
                 \/ JobAssignReads(c) \/ JobAssignWrites(c)
           \/ TimerFires \/ TriggerTimer
    PROVE  LockInv'
<1>1. Client \subseteq Proc /\ TimerLoop \in Proc
  BY DEF Proc
<1>2. ASSUME NEW p \in Proc, NEW op, NEW arg, NEW n, Call(p, op, arg, n)
      PROVE  LockInv'
  <2> DEFINE v == IF op = "modify" /\ arg # 0 THEN At(arg) ELSE "none"
             x == [Idle EXCEPT !.pc = "lock", !.op = op, !.arg = arg, !.node = n, !.at = v]
  <2>1. x.pc = "lock"
    BY DEF Idle
  <2>2. proc' = [proc EXCEPT ![p] = x] /\ up /\ proc[p].pc = "idle" /\ UNCHANGED <<lock, up, failures, crashes>>
    BY <1>2 DEF Call
  <2> HIDE DEF x
  <2>3. Moved(p)
    BY <2>1, <2>2 DEF Moved, MayHaveFailed
  <2>4. QED BY <2>2, <2>3, OutsideStep
<1>3. ASSUME NEW c \in Client, CreateInstance(c) PROVE LockInv'
  <2>1. /\ up /\ proc[c].pc = "idle" /\ UNCHANGED <<lock, up, crashes>>
        /\ \E b, toks : FlushAndRun(c, b, toks)
    BY <1>3 DEF CreateInstance
  <2>2. Moved(c)
    BY <1>1, <2>1, CallsMove
  <2>3. QED BY <1>1, <2>1, <2>2, OutsideStep
<1>4. ASSUME NEW c \in Client, ClientCalls(c) PROVE LockInv'
  BY <1>1, <1>2, <1>4 DEF ClientCalls
<1>5. ASSUME NEW c \in Client, JobAssignReads(c) PROVE LockInv'
  <2>1. PICK j \in DOMAIN db.job :
          proc' = [proc EXCEPT ![c] = [Idle EXCEPT !.pc = "assign", !.arg = j,
                                                   !.node = db.job[j].state]]
    BY <1>5 DEF JobAssignReads
  <2> DEFINE x == [Idle EXCEPT !.pc = "assign", !.arg = j, !.node = db.job[j].state]
  <2>2. x.pc = "assign"
    BY DEF Idle
  <2>3. proc' = [proc EXCEPT ![c] = x] /\ up /\ proc[c].pc = "idle" /\ UNCHANGED <<lock, up, failures, crashes>>
    BY <1>5, <2>1 DEF JobAssignReads
  <2> HIDE DEF x
  <2>4. Moved(c)
    BY <2>2, <2>3 DEF Moved, MayHaveFailed
  <2>5. QED BY <1>1, <2>3, <2>4, OutsideStep
<1>6. ASSUME NEW c \in Client, JobAssignWrites(c) PROVE LockInv'
  <2>1. Return(c) /\ proc[c].pc = "assign" /\ UNCHANGED <<lock, up, failures, crashes>>
    BY <1>6 DEF JobAssignWrites
  <2>2. Moved(c)
    BY <2>1 DEF Return, Idle, Moved, MayHaveFailed
  <2>3. QED BY <1>1, <2>1, <2>2, OutsideStep
<1>7. ASSUME NEW c \in Client,
             \/ JobCompleteByKey(c) \/ JobFailByKey(c) \/ PublishMessage(c)
             \/ ResolveIncident(c) \/ CancelInstance(c) \/ ModifyInstance(c)
      PROVE  LockInv'
  <2>1. proc[c].pc = "lock" /\ UNCHANGED <<lock, up, crashes>>
    BY <1>7 DEF JobCompleteByKey, JobFailByKey, PublishMessage, ResolveIncident, CancelInstance,
                ModifyInstance, Handles
  <2>2. Moved(c)
    <3>1. CASE CancelInstance(c)
      <4>1. CASE /\ failures < MaxFailures /\ failures' = failures + 1 /\ Return(c)
        BY <4>1 DEF Return, Idle, Moved, MayHaveFailed
      <4>2. CASE Refuse(c) \/ \E b : FlushAndReturn(c, b)
        BY <1>1, <4>2, CallsMove
      <4>3. QED BY <3>1, <4>1, <4>2 DEF CancelInstance
    <3>2. CASE Refuse(c) \/ (\E b : FlushAndReturn(c, b)) \/ \E b, toks : FlushAndRun(c, b, toks)
      BY <1>1, <3>2, CallsMove
    <3>3. CASE JobCompleteByKey(c)
      BY <3>2, <3>3 DEF JobCompleteByKey
    <3>4. CASE JobFailByKey(c)
      BY <3>2, <3>4 DEF JobFailByKey
    <3>5. CASE PublishMessage(c)
      BY <3>2, <3>5 DEF PublishMessage
    <3>6. CASE ResolveIncident(c)
      BY <3>2, <3>6 DEF ResolveIncident
    <3>7. CASE ModifyInstance(c)
      BY <3>2, <3>7 DEF ModifyInstance
    <3>8. QED BY <1>7, <3>1, <3>3, <3>4, <3>5, <3>6, <3>7
  <2>3. QED BY <1>1, <2>1, <2>2, OutsideStep
<1>8. CASE TimerFires
  BY <1>1, <1>2, <1>8 DEF TimerFires
<1>9. CASE TriggerTimer
  <2> DEFINE c == TimerLoop
  <2>1. /\ proc[c].pc = "lock" /\ lock = NoOne /\ UNCHANGED <<up, crashes>>
        /\ lock' = lock \/ lock' = Nobody
    BY <1>9 DEF TriggerTimer, Handles
  <2>2. Moved(c)
    <3>1. \/ Refuse(c) \/ (\E b : FlushFails(b) /\ Return(c))
          \/ \E b, toks : FlushAndRun(c, b, toks)
      BY <1>9 DEF TriggerTimer
    <3>2. QED BY <1>1, <3>1, CallsMove
  <2>3. QED BY <1>1, <2>1, <2>2, OutsideStep
<1>10. QED BY <1>3, <1>4, <1>5, <1>6, <1>7, <1>8, <1>9

\* What a goroutine does with the lock in RunProcessInstance.
LEMMA LoopActions ==
    ASSUME PathInv, LockInv, NEW p \in Proc, RunBegins(p) \/ RunStep(p) \/ RunEnds(p)
    PROVE  LockInv'
<1>1. proc \in [Proc -> Goroutine] /\ proc[p] \in Goroutine
  BY DEF PathInv, ProcInv
<1>2. up
  BY DEF LockInv, RunBegins, RunStep, RunEnds
<1>3. CASE RunStep(p)
  <2>1. PICK toks, e : proc' = [proc EXCEPT ![p].tokens = toks, ![p].failed = e]
    BY <1>3 DEF RunStep
  <2>2. \A q \in Proc : proc'[q].pc = proc[q].pc
    BY <1>1, <2>1 DEF Goroutine
  <2>3. UNCHANGED <<lock, up, crashes>> /\ MayHaveFailed
    BY <1>3 DEF RunStep, FlushFails, MayHaveFailed
  <2>4. failures' \in 0..MaxFailures
    BY <2>3, EngineAssumption DEF LockInv, MayHaveFailed
  <2>5. QED BY <1>2, <2>2, <2>3, <2>4 DEF LockInv
<1>4. CASE RunEnds(p)
  <2>1. /\ \A q \in Proc : proc'[q] = IF q = p THEN Idle ELSE proc[q]
        /\ lock = p /\ lock' = NoOne /\ UNCHANGED <<up, failures, crashes>>
    BY <1>1, <1>4 DEF RunEnds, Return, LockInv
  <2>2. Idle.pc = "idle"
    BY DEF Idle
  <2>3. \A q \in Proc : proc'[q].pc = "loop" <=> lock' = q
    BY <2>1, <2>2, EngineAssumption DEF LockInv
  <2>4. QED BY <1>2, <2>1, <2>3 DEF LockInv
<1>5. CASE RunBegins(p)
  <2>1. CASE (Refuse(p) \/ (FlushFails(db) /\ Return(p))) /\ UNCHANGED lock
    <3>1. proc[p].pc = "run" /\ UNCHANGED <<lock, up, crashes>>
      BY <1>5, <2>1 DEF RunBegins
    <3>2. Moved(p)
      BY <2>1, CallsMove
    <3>3. QED BY <3>1, <3>2, OutsideStep
  <2>2. CASE lock' = p /\ proc' = [proc EXCEPT ![p].pc = "loop"] /\ UNCHANGED failures
    <3>1. \A q \in Proc : proc'[q].pc = IF q = p THEN "loop" ELSE proc[q].pc
      BY <1>1, <2>2 DEF Goroutine
    <3>2. lock = NoOne /\ UNCHANGED <<up, crashes>>
      BY <1>5 DEF RunBegins
    <3>3. \A q \in Proc : proc'[q].pc = "loop" <=> lock' = q
      BY <2>2, <3>1, <3>2, EngineAssumption DEF LockInv
    <3>4. QED BY <1>2, <2>2, <3>2, <3>3 DEF LockInv
  <2>3. \/ (Refuse(p) \/ (FlushFails(db) /\ Return(p))) /\ UNCHANGED lock
        \/ lock' = p /\ proc' = [proc EXCEPT ![p].pc = "loop"] /\ UNCHANGED failures
    BY <1>5, Zenon DEF RunBegins
  <2>4. QED BY <2>1, <2>2, <2>3
<1>6. QED BY <1>3, <1>4, <1>5

\* Every step keeps the lock with its owner.
LEMMA LockStep == PathInv /\ LockInv /\ [Next]_engineVars => LockInv'
<1> SUFFICES ASSUME PathInv, LockInv, [Next]_engineVars PROVE LockInv'
  OBVIOUS
<1>1. Idle.pc = "idle"
  BY DEF Idle
<1>2. CASE UNCHANGED engineVars
  BY <1>2 DEF engineVars, LockInv
<1>3. CASE Dies /\ (crashes' = crashes \/ (crashes < MaxCrashes /\ crashes' = crashes + 1))
  <2>1. \A q \in Proc : proc'[q].pc = "idle"
    BY <1>1, <1>3 DEF Dies
  <2>2. crashes' \in 0..MaxCrashes
    BY <1>3, EngineAssumption DEF LockInv
  <2>3. QED BY <1>3, <2>1, <2>2, EngineAssumption DEF Dies, LockInv
<1>4. CASE Start
  <2>1. ~up /\ up' = TRUE /\ UNCHANGED <<lock, failures, crashes>>
    BY <1>4 DEF Start
  <2>2. \A q \in Proc : proc[q].pc = "idle" /\ lock # q
    BY <2>1 DEF LockInv
  <2>3. \A q \in Proc : proc'[q].pc # "loop"
    <3>1. CASE UNCHANGED proc
      BY <2>2, <3>1
    <3>2. ASSUME NEW c \in Client, NEW toks, ThenRun(c, toks)
          PROVE  \A q \in Proc : proc'[q].pc # "loop"
      <4>1. proc \in [Proc -> Goroutine]
        BY DEF PathInv, ProcInv
      <4> DEFINE x == [Idle EXCEPT !.pc = "run", !.tokens = Running(toks)]
      <4>2. x.pc = "run" /\ proc' = [proc EXCEPT ![c] = x]
        BY <3>2 DEF Idle, ThenRun
      <4> HIDE DEF x
      <4>3. QED BY <2>2, <4>1, <4>2
    <3>3. QED BY <1>4, <3>1, <3>2 DEF Start
  <2>4. QED BY <2>1, <2>2, <2>3 DEF LockInv
<1>5. CASE Crash \/ \E p \in Proc : Panic(p)
  BY <1>3, <1>5 DEF Crash, Panic
<1>6. CASE \E p \in Proc : RunBegins(p) \/ RunStep(p) \/ RunEnds(p)
  BY <1>6, LoopActions
<1>7. QED BY <1>2, <1>4, <1>5, <1>6, OutsideActions DEF Next

\* The variables of the engine keep their types, and a goroutine is in the main
\* loop of RunProcessInstance exactly while it holds the instance.
THEOREM EngineTypes == Spec => []TypeOK
<1>1. Init => LockInv
  BY EngineAssumption DEF Init, LockInv, Idle
<1>2. PathInv /\ LockInv => TypeOK
  <2> SUFFICES ASSUME PathInv, LockInv PROVE TypeOK
    OBVIOUS
  <2>1. db \in Database /\ proc \in [Proc -> Goroutine]
    BY DEF PathInv, RowsInv, ProcInv
  <2>2. /\ \A j \in DOMAIN db.job : db.job[j] \in JobRow
        /\ \A s \in DOMAIN db.sub : db.sub[s] \in SubRow
        /\ \A i \in DOMAIN db.incident : db.incident[i] \in IncidentRow
    BY <2>1, RowTypes
  <2>3. \A p \in Proc : proc[p].pc \in {"idle", "lock", "run", "loop", "assign"}
    BY <2>1 DEF Goroutine
  <2>4. db.instance \in InstanceState /\ db.token \in [TokenKey -> TokenRow]
    BY <2>1 DEF Database
  <2>5. TokenRow = [at : Node \union {"none"},
                    state : {"none", "running", "waiting", "completed", "canceled", "failed"}]
    <3>1. TokenState \union {"none"} = {"none", "running", "waiting", "completed", "canceled", "failed"}
      BY DEF TokenState
    <3>2. QED BY <3>1 DEF TokenRow
  <2>6. QED BY <2>2, <2>3, <2>4, <2>5
            DEF TypeOK, LockInv, InstanceState, JobRow, JobState, SubRow, SubState, IncidentRow
<1>3. QED BY <1>1, <1>2, PathInvariance, LockStep, PTL DEF Spec
====
