-------------------------- MODULE GoroutinesProofs --------------------------
(***************************************************************************)
(* What is proved about three parts of the controller that are goroutines  *)
(* around channels and timers and share nothing: the dispatcher, for every *)
(* pair of windows and every number of events; the worker pool, for any    *)
(* number of workers and jobs; the resync ticker, for any settings and any *)
(* number of updates and tickers.                                          *)
(***************************************************************************)
EXTENDS Dispatcher, WorkerPool, ResyncTicker, TLAPS

-----------------------------------------------------------------------------
(* The dispatcher.                                                         *)

\* A stop-and-drain of a timer that is parked or counting does not block,
\* and leaves the timer stopped with an empty channel.
LEMMA StopAndDrainClean ==
  ASSUME NEW t \in Timer, NEW elapsed \in Nat, NEW window \in Nat,
         Parked(t) \/ Counts(t, elapsed, window)
  PROVE  /\ ~DrainBlocks(t)
         /\ StopAndDrain(t) = [left |-> 0, c |-> 0]
<1>1. CASE t.left = 0
  BY <1>1 DEF Parked, Counts, DrainBlocks, StopAndDrain, noTimeout
<1>2. CASE t.left # 0
  <2>1. t.c = 0
    BY <1>2 DEF Timer, Parked, Counts
  <2> QED
    BY <1>2, <2>1 DEF DrainBlocks, StopAndDrain
<1> QED
  BY <1>1, <1>2

\* A timer reset after a stop-and-drain counts its whole window.
LEMMA FreshTimerCounts ==
  ASSUME NEW window \in Nat \ {0}
  PROVE  /\ Reset([left |-> 0, c |-> 0], window) \in Timer
         /\ Counts(Reset([left |-> 0, c |-> 0], window), 0, window)
  BY DEF Reset, Timer, Counts

\* A timer reset to noTimeout after its channel was emptied is parked.
LEMMA FreshTimerParked ==
  ASSUME NEW left \in Nat \cup {noTimeout}
  PROVE  /\ Reset([left |-> left, c |-> 0], noTimeout) \in Timer
         /\ Parked(Reset([left |-> left, c |-> 0], noTimeout))
  BY DEF Reset, Timer, Parked

\* One unit of time moves a counting timer one step through its window.
LEMMA AdvanceCounts ==
  ASSUME NEW t \in Timer, NEW elapsed \in Nat, NEW window \in Nat,
         Counts(t, elapsed, window), t.c = 0
  PROVE  /\ Advance(t) \in Timer
         /\ Counts(Advance(t), elapsed + 1, window)
         /\ elapsed < window
<1>1. t.left \in Nat \ {0} /\ elapsed + t.left = window
  BY DEF Counts
<1>2. CASE t.left = 1
  <2>1. Advance(t) = [left |-> 0, c |-> 1]
    BY <1>2 DEF Advance, noTimeout
  <2> QED
    BY <1>1, <1>2, <2>1 DEF Timer, Counts
<1>3. CASE t.left # 1
  <2>1. t.c = 0
    BY DEF Timer
  <2>2. Advance(t) = [left |-> t.left - 1, c |-> 0]
    BY <1>1, <1>3, <2>1 DEF Advance, noTimeout
  <2> QED
    BY <1>1, <1>3, <2>2 DEF Timer, Counts
<1> QED
  BY <1>2, <1>3

\* The dispatcher starts with both timers parked and nothing pending.
LEMMA InitInv == Init => IInv
<1> SUFFICES ASSUME Init
             PROVE  IInv
  OBVIOUS
<1>1. ~dispatchPending /\ dispatchPending \in BOOLEAN
  BY Zenon DEF Init
<1>2. /\ pc = "select" /\ batchCount = 0 /\ event = 0 /\ totalDispatched = 0
      /\ received = 0 /\ covered = 0 /\ age = 0 /\ quiet = 0
      /\ slidingTimer \in Timer /\ maxTimer \in Timer
      /\ Parked(slidingTimer) /\ Parked(maxTimer)
  BY DEF Init, Timer, Parked, noTimeout
<1> QED
  BY <1>1, <1>2 DEF IInv, TypeOK, DrainNeverBlocks, EveryEventAccounted

\* Every case of the dispatcher's select, and the passing of time, keeps both
\* timers in step with the pending batch.
LEMMA NextInv == IInv /\ [Next]_vars => IInv'
<1> SUFFICES ASSUME IInv, [Next]_vars
             PROVE  IInv'
  OBVIOUS
<1> USE WindowAssumption
<1> USE DEF IInv, TypeOK, DrainNeverBlocks, EveryEventAccounted
<1>1. ASSUME pc = "select", received' = received + 1, event' = received + 1,
             quiet' = 0, StartBatch, UNCHANGED <<totalDispatched, covered>>
      PROVE  IInv'
  <2>1. /\ ~DrainBlocks(slidingTimer) /\ ~DrainBlocks(maxTimer)
        /\ StopAndDrain(slidingTimer) = [left |-> 0, c |-> 0]
        /\ StopAndDrain(maxTimer) = [left |-> 0, c |-> 0]
    BY <1>1, StopAndDrainClean DEF StartBatch
  <2>2. /\ slidingTimer' \in Timer /\ Counts(slidingTimer', 0, SlidingWindow)
        /\ maxTimer' \in Timer /\ Counts(maxTimer', 0, MaxWindow)
    BY <1>1, <2>1, FreshTimerCounts DEF StartBatch
  <2>3. dispatchPending' /\ dispatchPending' \in BOOLEAN
    BY <1>1, <2>1, Zenon DEF StartBatch
  <2>4. batchCount = 0 /\ batchCount' = 1 /\ pc' = "select" /\ age' = 0
    BY <1>1, <2>1 DEF StartBatch
  <2> QED
    BY <1>1, <2>2, <2>3, <2>4
<1>2. ASSUME pc = "select", received' = received + 1, event' = received + 1,
             quiet' = 0, ExtendBatch, UNCHANGED <<totalDispatched, covered>>
      PROVE  IInv'
  <2>1. /\ ~DrainBlocks(slidingTimer)
        /\ StopAndDrain(slidingTimer) = [left |-> 0, c |-> 0]
    BY <1>2, StopAndDrainClean DEF ExtendBatch
  <2>2. slidingTimer' \in Timer /\ Counts(slidingTimer', 0, SlidingWindow)
    BY <1>2, <2>1, FreshTimerCounts, Zenon DEF ExtendBatch
  <2> QED
    BY <1>2, <2>1, <2>2 DEF ExtendBatch
<1>3. CASE ReceiveEvent
  BY <1>1, <1>2, <1>3 DEF ReceiveEvent
<1>4. CASE SlidingExpired
  <2>1. dispatchPending
    BY <1>4 DEF SlidingExpired, Parked
  <2>2. ~DrainBlocks(maxTimer) /\ StopAndDrain(maxTimer) = [left |-> 0, c |-> 0]
    BY <1>4, <2>1, StopAndDrainClean DEF SlidingExpired
  <2>3. Receive(slidingTimer) = [left |-> slidingTimer.left, c |-> 0]
    BY DEF Receive, Timer
  <2>4. /\ slidingTimer' \in Timer /\ Parked(slidingTimer')
        /\ maxTimer' \in Timer /\ Parked(maxTimer')
    <3>1. slidingTimer' = Reset([left |-> slidingTimer.left, c |-> 0], noTimeout)
      BY <1>4, <2>3, Zenon DEF SlidingExpired
    <3>2. maxTimer' = Reset([left |-> 0, c |-> 0], noTimeout)
      BY <1>4, <2>2, Zenon DEF SlidingExpired
    <3>3. slidingTimer.left \in Nat \cup {noTimeout} /\ 0 \in Nat \cup {noTimeout}
      BY DEF Timer
    <3> QED
      BY <3>1, <3>2, <3>3, FreshTimerParked, Zenon
  <2> QED
    BY <1>4, <2>1, <2>2, <2>4 DEF SlidingExpired, locals, history
<1>5. CASE MaxExpired
  <2>1. dispatchPending
    BY <1>5 DEF MaxExpired, Parked
  <2>2. /\ ~DrainBlocks(slidingTimer)
        /\ StopAndDrain(slidingTimer) = [left |-> 0, c |-> 0]
    BY <1>5, <2>1, StopAndDrainClean DEF MaxExpired
  <2>3. Receive(maxTimer) = [left |-> maxTimer.left, c |-> 0]
    BY DEF Receive, Timer
  <2>4. /\ slidingTimer' \in Timer /\ Parked(slidingTimer')
        /\ maxTimer' \in Timer /\ Parked(maxTimer')
    <3>1. maxTimer' = Reset([left |-> maxTimer.left, c |-> 0], noTimeout)
      BY <1>5, <2>3, Zenon DEF MaxExpired
    <3>2. slidingTimer' = Reset([left |-> 0, c |-> 0], noTimeout)
      BY <1>5, <2>2, Zenon DEF MaxExpired
    <3>3. maxTimer.left \in Nat \cup {noTimeout} /\ 0 \in Nat \cup {noTimeout}
      BY DEF Timer
    <3> QED
      BY <3>1, <3>2, <3>3, FreshTimerParked, Zenon
  <2> QED
    BY <1>5, <2>1, <2>2, <2>4 DEF MaxExpired, locals, history
<1>6. CASE Publish
  <2>1. ~dispatchPending' /\ dispatchPending' \in BOOLEAN
    BY <1>6, Zenon DEF Publish
  <2>2. Parked(slidingTimer) /\ Parked(maxTimer)
    BY <1>6, Zenon DEF Publish
  <2>3. Parked(slidingTimer)' /\ Parked(maxTimer)'
    BY <1>6, <2>2 DEF Publish, timers, Parked
  <2>4. /\ batchCount' = 0 /\ pc' = "select" /\ covered' = received /\ age' = 0 /\ quiet' = 0
        /\ totalDispatched' \in Nat /\ UNCHANGED <<slidingTimer, maxTimer, event, received>>
    BY <1>6 DEF Publish, timers
  <2> QED
    BY <2>1, <2>3, <2>4
<1>7. CASE StopSignalled
  BY <1>7 DEF StopSignalled, timers, locals, history
<1>8. CASE TimePasses
  <2>1. Counts(slidingTimer, quiet, SlidingWindow) /\ Counts(maxTimer, age, MaxWindow)
    BY <1>8 DEF TimePasses
  <2>2. /\ slidingTimer' \in Timer
        /\ Counts(slidingTimer', quiet + 1, SlidingWindow)
        /\ quiet < SlidingWindow
    BY <1>8, <2>1, AdvanceCounts DEF TimePasses
  <2>3. /\ maxTimer' \in Timer
        /\ Counts(maxTimer', age + 1, MaxWindow)
        /\ age < MaxWindow
    BY <1>8, <2>1, AdvanceCounts DEF TimePasses
  <2>4. quiet' = quiet + 1 /\ age' = age + 1
    BY <1>8, <2>2, <2>3 DEF TimePasses
  <2> QED
    BY <1>8, <2>2, <2>3, <2>4 DEF TimePasses, locals
<1>9. CASE UNCHANGED vars
  BY <1>9 DEF vars, timers, locals, history, Parked, Counts
<1> QED
  BY <1>3, <1>4, <1>5, <1>6, <1>7, <1>8, <1>9 DEF Next

\* The inductive invariant holds in every reachable state of the dispatcher,
\* for all windows and any number of events.
THEOREM Invariance == Spec => []IInv
<1>1. Init => IInv
  BY InitInv
<1>2. IInv /\ [Next]_vars => IInv'
  BY NextInv
<1> QED
  BY <1>1, <1>2, PTL DEF Spec

\* No stop-and-drain of the dispatcher's timers ever blocks it.
THEOREM DispatcherNeverBlocks == Spec => []DrainNeverBlocks
<1>1. IInv => DrainNeverBlocks
  BY DEF IInv
<1> QED
  BY <1>1, Invariance, PTL

\* The oldest event of a batch is held for at most proxyUpdateMaxWindow.
THEOREM BoundedHolding == Spec => []HeldAtMostMaxWindow
<1>1. IInv => HeldAtMostMaxWindow
  BY WindowAssumption DEF IInv, TypeOK, HeldAtMostMaxWindow, Counts
<1> QED
  BY <1>1, Invariance, PTL

\* Coalescing loses no event.
THEOREM NoEventLost == Spec => []EveryEventAccounted
<1>1. IInv => EveryEventAccounted
  BY DEF IInv
<1> QED
  BY <1>1, Invariance, PTL

\* A batch is published only when its sliding or its max window has passed.
THEOREM WindowRespected == Spec => PublishesOnlyAfterWindow
<1>1. IInv /\ [Next]_vars
        => [pc = "select" /\ pc' = "publish" =>
              quiet >= SlidingWindow \/ age >= MaxWindow]_vars
  <2> SUFFICES ASSUME IInv, Next, pc = "select", pc' = "publish"
               PROVE  quiet >= SlidingWindow \/ age >= MaxWindow
    OBVIOUS
  <2>1. SlidingExpired \/ MaxExpired
    BY DEF Next, ReceiveEvent, StartBatch, ExtendBatch, Publish, StopSignalled, TimePasses
  <2>2. CASE SlidingExpired
    BY <2>2, WindowAssumption DEF SlidingExpired, IInv, TypeOK, Counts, Parked
  <2>3. CASE MaxExpired
    BY <2>3, WindowAssumption DEF MaxExpired, IInv, TypeOK, Counts, Parked
  <2> QED
    BY <2>1, <2>2, <2>3
<1> QED
  BY <1>1, Invariance, PTL DEF Spec, PublishesOnlyAfterWindow

\* The dispatcher implements the abstract coalescer.
THEOREM Refinement == Spec => Coalesces
<1>1. Init => Abs!Init
  BY DEF Init, Abs!Init
<1>2. IInv /\ [Next]_vars => [Abs!Next]_(Abs!vars)
  <2> SUFFICES ASSUME IInv, [Next]_vars
               PROVE  [Abs!Next]_(Abs!vars)
    OBVIOUS
  <2> USE WindowAssumption DEF IInv, TypeOK, EveryEventAccounted, Abs!vars
  <2>1. CASE ReceiveEvent
    <3>1. pc' # "publish" /\ age' = age
      BY <2>1 DEF ReceiveEvent, StartBatch, ExtendBatch
    <3> QED
      BY <2>1, <3>1 DEF ReceiveEvent, Abs!Next, Abs!Accept
  <2>2. CASE SlidingExpired
    <3>1. dispatchPending
      BY <2>2 DEF SlidingExpired, Parked
    <3>2. ~DrainBlocks(maxTimer)
      BY <2>2, <3>1, StopAndDrainClean DEF SlidingExpired
    <3> QED
      BY <2>2, <3>1, <3>2 DEF SlidingExpired, history, Abs!Next, Abs!Dispatch, Abs!Held
  <2>3. CASE MaxExpired
    <3>1. dispatchPending
      BY <2>3 DEF MaxExpired, Parked
    <3>2. ~DrainBlocks(slidingTimer)
      BY <2>3, <3>1, StopAndDrainClean DEF MaxExpired
    <3> QED
      BY <2>3, <3>1, <3>2 DEF MaxExpired, history, Abs!Next, Abs!Dispatch, Abs!Held
  <2>4. CASE Publish
    BY <2>4 DEF Publish
  <2>5. CASE StopSignalled
    BY <2>5 DEF StopSignalled, history
  <2>6. CASE TimePasses
    <3>1. Counts(maxTimer, age, MaxWindow)
      BY <2>6 DEF TimePasses
    <3>2. age < MaxWindow
      BY <2>6, <3>1, AdvanceCounts DEF TimePasses
    <3> QED
      BY <2>6, <3>2 DEF TimePasses, Abs!Next, Abs!Tick, Abs!Held
  <2>7. CASE UNCHANGED vars
    BY <2>7 DEF vars, history
  <2> QED
    BY <2>1, <2>2, <2>3, <2>4, <2>5, <2>6, <2>7, Zenon DEF Next
<1> QED
  BY <1>1, <1>2, Invariance, PTL DEF Spec, Coalesces, Abs!Spec

-----------------------------------------------------------------------------
(* The worker pool.                                                        *)

\* A new pool has an empty channel and idle workers.
LEMMA PoolInitInv == PoolInit => PoolInv
<1> SUFFICES ASSUME PoolInit
             PROVE  PoolInv
  OBVIOUS
<1>1. jobs \in Seq(Jobs) /\ Len(jobs) = 0 /\ DOMAIN jobs = {}
  BY DEF PoolInit
<1>2. PoolTypeOK
  <2>1. stop \in BOOLEAN /\ stopReturned \in BOOLEAN
    BY Zenon DEF PoolInit
  <2>2. Len(jobs) <= nWorkers
    BY <1>1, PoolAssumption
  <2>3. /\ job \in [Jobs -> {"new", "posting", "queued", "running", "done"}]
        /\ work \in [Workers -> Jobs \cup {noJob}]
        /\ exited \subseteq Workers
    BY DEF PoolInit
  <2> QED
    BY <1>1, <2>1, <2>2, <2>3 DEF PoolTypeOK
<1>3. InOnePlace
  BY <1>1, PoolAssumption DEF PoolInit, InOnePlace
<1> QED
  BY <1>2, <1>3 DEF PoolInit, PoolInv

\* Entering AddJob moves no job into the channel or onto a worker.
LEMMA CallInv ==
  ASSUME PoolInv, NEW j \in Jobs, Call(j)
  PROVE  PoolInv'
<1>1. PoolTypeOK'
  BY DEF PoolInv, PoolTypeOK, Call
<1>2. InOnePlace'
  BY DEF PoolInv, PoolTypeOK, InOnePlace, Call
<1> QED
  BY <1>1, <1>2 DEF PoolInv, Call

\* A send on the channel puts the job behind the others, and nowhere else.
LEMMA AddJobInv ==
  ASSUME PoolInv, NEW j \in Jobs, AddJob(j)
  PROVE  PoolInv'
<1>1. /\ jobs \in Seq(Jobs)
      /\ Len(jobs) \in Nat
      /\ DOMAIN jobs = 1 .. Len(jobs)
      /\ jobs' \in Seq(Jobs)
      /\ Len(jobs') = Len(jobs) + 1
      /\ DOMAIN jobs' = 1 .. (Len(jobs) + 1)
      /\ jobs'[Len(jobs) + 1] = j
      /\ \A i \in 1 .. Len(jobs) : jobs'[i] = jobs[i]
  BY DEF AddJob, PoolInv, PoolTypeOK
<1>2. PoolTypeOK'
  BY <1>1, PoolAssumption DEF AddJob, PoolInv, PoolTypeOK
<1>3. /\ job[j] = "posting"
      /\ job'[j] = "queued"
      /\ \A k \in Jobs : k # j => job'[k] = job[k]
      /\ UNCHANGED <<work, exited, stopReturned>>
  BY DEF AddJob, PoolInv, PoolTypeOK
<1>4. /\ \A k \in Jobs : job[k] = "queued" <=> \E i \in 1 .. Len(jobs) : jobs[i] = k
      /\ \A i, k \in 1 .. Len(jobs) : jobs[i] = jobs[k] => i = k
  BY <1>1 DEF PoolInv, InOnePlace
<1>5. \A i \in 1 .. Len(jobs) : jobs[i] # j
  BY <1>3, <1>4
<1>6. \A k \in Jobs : job'[k] = "queued" <=> \E i \in DOMAIN jobs' : jobs'[i] = k
  <2> SUFFICES ASSUME NEW k \in Jobs
               PROVE  job'[k] = "queued" <=> \E i \in 1 .. (Len(jobs) + 1) : jobs'[i] = k
    BY <1>1
  <2>1. CASE k = j
    <3>1. Len(jobs) + 1 \in 1 .. (Len(jobs) + 1)
      BY <1>1
    <3> QED
      BY <2>1, <3>1, <1>1, <1>3
  <2>2. CASE k # j
    <3>1. ASSUME NEW i \in 1 .. (Len(jobs) + 1), jobs'[i] = k
          PROVE  i \in 1 .. Len(jobs) /\ jobs[i] = k
      BY <2>2, <3>1, <1>1
    <3>2. ASSUME NEW i \in 1 .. Len(jobs), jobs[i] = k
          PROVE  i \in 1 .. (Len(jobs) + 1) /\ jobs'[i] = k
      BY <3>2, <1>1
    <3>3. job'[k] = job[k]
      BY <2>2, <1>3
    <3> QED
      BY <3>1, <3>2, <3>3, <1>4
  <2> QED
    BY <2>1, <2>2
<1>7. \A k \in Jobs : job'[k] = "running" <=> \E w \in Workers : work'[w] = k
  BY <1>3 DEF PoolInv, InOnePlace
<1>8. \A i, k \in DOMAIN jobs' : jobs'[i] = jobs'[k] => i = k
  <2> SUFFICES ASSUME NEW i \in 1 .. (Len(jobs) + 1), NEW k \in 1 .. (Len(jobs) + 1),
                      jobs'[i] = jobs'[k]
               PROVE  i = k
    BY <1>1
  <2>1. i \in 1 .. Len(jobs) \/ i = Len(jobs) + 1
    BY <1>1
  <2>2. k \in 1 .. Len(jobs) \/ k = Len(jobs) + 1
    BY <1>1
  <2> QED
    BY <2>1, <2>2, <1>1, <1>4, <1>5
<1>9. InOnePlace'
  BY <1>3, <1>6, <1>7, <1>8 DEF PoolInv, InOnePlace
<1> QED
  BY <1>2, <1>3, <1>9 DEF PoolInv, Workers

\* A receive from the channel moves its first job onto one idle worker.
LEMMA TakeInv ==
  ASSUME PoolInv, NEW w \in Workers, Take(w)
  PROVE  PoolInv'
<1> DEFINE h == Head(jobs)
<1>1. /\ jobs \in Seq(Jobs)
      /\ Len(jobs) \in Nat \ {0}
      /\ h \in Jobs
      /\ h = jobs[1]
      /\ DOMAIN jobs = 1 .. Len(jobs)
      /\ jobs' \in Seq(Jobs)
      /\ Len(jobs') = Len(jobs) - 1
      /\ DOMAIN jobs' = 1 .. (Len(jobs) - 1)
      /\ \A i \in 1 .. (Len(jobs) - 1) : jobs'[i] = jobs[i + 1]
  BY DEF Take, PoolInv, PoolTypeOK
<1>2. /\ job' = [job EXCEPT ![h] = "running"]
      /\ work' = [work EXCEPT ![w] = h]
      /\ work[w] = noJob
      /\ w \notin exited
      /\ UNCHANGED <<exited, stop, stopReturned>>
  BY DEF Take, Idle
<1> HIDE DEF h
<1>3. /\ \A k \in Jobs : job[k] = "queued" <=> \E i \in 1 .. Len(jobs) : jobs[i] = k
      /\ \A i, k \in 1 .. Len(jobs) : jobs[i] = jobs[k] => i = k
  BY <1>1, Zenon DEF PoolInv, InOnePlace
<1>4. 1 \in 1 .. Len(jobs) /\ job[h] = "queued"
  BY <1>1, <1>3
<1>5. \A v \in Workers : work[v] # h
  BY <1>1, <1>4 DEF PoolInv, InOnePlace
<1>6. PoolTypeOK'
  BY <1>1, <1>2, PoolAssumption DEF PoolInv, PoolTypeOK, Workers
<1>7. \A i \in 1 .. (Len(jobs) - 1) : i + 1 \in 1 .. Len(jobs) /\ i + 1 # 1
  BY <1>1
<1>8. \A i \in 1 .. (Len(jobs) - 1) : jobs'[i] # h
  BY <1>1, <1>3, <1>4, <1>7
<1>9. /\ job'[h] = "running"
      /\ \A k \in Jobs : k # h => job'[k] = job[k]
  BY <1>1, <1>2 DEF PoolInv, PoolTypeOK
<1>10. \A k \in Jobs : job'[k] = "queued" <=> \E i \in DOMAIN jobs' : jobs'[i] = k
  <2> SUFFICES ASSUME NEW k \in Jobs
               PROVE  job'[k] = "queued" <=> \E i \in 1 .. (Len(jobs) - 1) : jobs'[i] = k
    BY <1>1, Zenon
  <2>1. CASE k = h
    BY <2>1, <1>8, <1>9
  <2>2. CASE k # h
    <3>1. ASSUME NEW i \in 1 .. Len(jobs), jobs[i] = k
          PROVE  \E m \in 1 .. (Len(jobs) - 1) : jobs'[m] = k
      <4>1. i - 1 \in 1 .. (Len(jobs) - 1) /\ (i - 1) + 1 = i
        BY <1>1, <2>2, <3>1
      <4>2. jobs'[i - 1] = k
        BY <4>1, <1>1, <3>1
      <4> QED
        BY <4>1, <4>2
    <3>2. ASSUME NEW i \in 1 .. (Len(jobs) - 1), jobs'[i] = k
          PROVE  \E m \in 1 .. Len(jobs) : jobs[m] = k
      BY <1>1, <1>7, <3>2
    <3> QED
      BY <2>2, <3>1, <3>2, <1>3, <1>9
  <2> QED
    BY <2>1, <2>2, Zenon
<1>11. \A k \in Jobs : job'[k] = "running" <=> \E v \in Workers : work'[v] = k
  <2> SUFFICES ASSUME NEW k \in Jobs
               PROVE  job'[k] = "running" <=> \E v \in Workers : work'[v] = k
    OBVIOUS
  <2>1. CASE k = h
    BY <2>1, <1>2, <1>9, Zenon DEF PoolInv, PoolTypeOK
  <2>2. CASE k # h
    BY <2>2, <1>2, <1>9, PoolAssumption DEF PoolInv, PoolTypeOK, InOnePlace
  <2> QED
    BY <2>1, <2>2
<1>12. \A i, k \in DOMAIN jobs' : jobs'[i] = jobs'[k] => i = k
  <2> SUFFICES ASSUME NEW i \in 1 .. (Len(jobs) - 1), NEW k \in 1 .. (Len(jobs) - 1),
                      jobs'[i] = jobs'[k]
               PROVE  i = k
    BY <1>1
  <2>1. jobs'[i] = jobs[i + 1] /\ jobs'[k] = jobs[k + 1]
    BY <1>1, Zenon
  <2>2. i + 1 \in 1 .. Len(jobs) /\ k + 1 \in 1 .. Len(jobs)
    BY <1>7, Zenon
  <2>3. i + 1 = k + 1
    BY <1>3, <2>1, <2>2, Zenon
  <2>4. i \in Nat /\ k \in Nat
    BY <1>1
  <2> QED
    BY <2>3, <2>4
<1>13. \A u, v \in Workers : work'[u] = work'[v] /\ work'[u] # noJob => u = v
  BY <1>2, <1>5 DEF PoolInv, PoolTypeOK, InOnePlace
<1>14. InOnePlace'
  BY <1>10, <1>11, <1>12, <1>13 DEF InOnePlace, Workers
<1> QED
  BY <1>2, <1>6, <1>14 DEF PoolInv, PoolTypeOK, Workers

\* A job that returns leaves its worker, which is the only one that had it.
LEMMA RunReturnsInv ==
  ASSUME PoolInv, NEW w \in Workers, RunReturns(w)
  PROVE  PoolInv'
<1> USE DEF PoolInv, PoolTypeOK
<1>1. work[w] \in Jobs /\ job[work[w]] = "running"
  BY DEF RunReturns, InOnePlace
<1>2. PoolTypeOK'
  BY <1>1 DEF RunReturns
<1>3. \A i \in DOMAIN jobs : jobs[i] # work[w]
  BY <1>1, Zenon DEF InOnePlace
<1>4. InOnePlace'
  BY <1>1, <1>3, PoolAssumption DEF RunReturns, InOnePlace
<1> QED
  BY <1>2, <1>4 DEF RunReturns

\* Every step of callers, workers and Stop keeps the invariant.
LEMMA PoolNextInv == PoolInv /\ [PoolNext]_poolVars => PoolInv'
<1> SUFFICES ASSUME PoolInv, [PoolNext]_poolVars
             PROVE  PoolInv'
  OBVIOUS
<1>1. ASSUME NEW w \in Workers, Exit(w)
      PROVE  PoolInv'
  BY <1>1 DEF PoolInv, PoolTypeOK, InOnePlace, Exit, Idle
<1>2. CASE Stop
  BY <1>2, Zenon DEF PoolInv, PoolTypeOK, InOnePlace, Stop
<1>3. CASE StopReturns
  BY <1>3, Zenon DEF PoolInv, PoolTypeOK, InOnePlace, StopReturns
<1>4. CASE UNCHANGED poolVars
  BY <1>4 DEF PoolInv, PoolTypeOK, InOnePlace, poolVars
<1> QED
  BY <1>1, <1>2, <1>3, <1>4, CallInv, AddJobInv, TakeInv, RunReturnsInv, Zenon DEF PoolNext

\* The invariant holds in every reachable state, for any number of workers.
THEOREM PoolInvariance == PoolSpec => []PoolInv
<1>1. PoolInit => PoolInv
  BY PoolInitInv
<1>2. PoolInv /\ [PoolNext]_poolVars => PoolInv'
  BY PoolNextInv
<1> QED
  BY <1>1, <1>2, PTL DEF PoolSpec

\* A job is never handed to two workers, nor both queued and run: AddJob's
\* send and work's receive move it from one place to the next.
THEOREM JobInOnePlace == PoolSpec => []InOnePlace
<1>1. PoolInv => InOnePlace
  BY Zenon DEF PoolInv
<1> QED
  BY <1>1, PoolInvariance, PTL

\* After Stop has returned no job is running.
THEOREM NothingRunsAfterStop == PoolSpec => []StopIsFinal
<1>1. PoolInv => StopIsFinal
  <2> SUFFICES ASSUME PoolInv, stopReturned, NEW j \in Jobs
               PROVE  job[j] # "running"
    BY DEF StopIsFinal
  <2>1. \A w \in Workers : work[w] # j
    BY PoolAssumption DEF PoolInv
  <2> QED
    BY <2>1 DEF PoolInv, InOnePlace
<1> QED
  BY <1>1, PoolInvariance, PTL

-----------------------------------------------------------------------------
(* The resync ticker.                                                      *)

\* A setting that a ticker may be started with.
Allowed(setting) ==
  setting \in Settings /\ duration[setting] \in Nat /\ duration[setting] >= minTickInterval

Active == Starting \cup Ticking

\* What the types do not say: tickers are numbered as they start, and the
\* watcher only stops one to start another with an allowed interval.
TypeInv ==
  /\ watcher \in [pc : {"select", "send", "clear", "exited"}, then : Settings \cup {"none", "exit"}]
  /\ watcher.pc \in {"send", "clear"} => watcher.then \in {"none", "exit"} \/ Allowed(watcher.then)
  /\ running \in BOOLEAN /\ resync \in BOOLEAN /\ hasty \in BOOLEAN
  /\ started \in 0..MaxTickers
  /\ tickers \in [TickerIds -> [pc : {"none", "starting", "ticking", "gone"}, interval : Nat]]
  /\ \A i \in TickerIds : /\ i > started => tickers[i].pc = "none"
                          /\ tickers[i].pc # "none" => tickers[i].interval >= minTickInterval
  /\ wanted \in Nat

\* The one ticker, if a ticker is wanted.
OneActive(n) ==
  /\ n = 0 => Active = {}
  /\ n # 0 => \E i \in TickerIds : Active = {i} /\ tickers[i].interval = n

\* While no update was hasty: in its select the watcher has the ticker it wants,
\* and knows whether it is in its loop; while it sends, the one ticker is there
\* to receive; then there is none.
OneTicker ==
  ~hasty =>
    /\ watcher.pc = "select" => /\ OneActive(wanted)
                                /\ running = (Ticking # {})
    /\ watcher.pc = "send" /\ watcher.then # "exit" =>
         /\ Starting = {} /\ \E i \in TickerIds : Ticking = {i}
         /\ wanted = IF watcher.then = "none" THEN 0 ELSE duration[watcher.then]
    /\ watcher.pc = "clear" /\ watcher.then # "exit" =>
         /\ Active = {}
         /\ wanted = IF watcher.then = "none" THEN 0 ELSE duration[watcher.then]

USE DEF TickerIds, AtSelect, Starting, Ticking, Allowed, Active

\* What a setting that the watcher takes for an interval is.
LEMMA DurationOfSetting ==
  ASSUME NEW s \in Settings
  PROVE  duration[s] # Invalid => duration[s] \in Nat
BY IntervalAssumption

\* Start establishes the types.
LEMMA InitTypes == TickerInit => TypeInv
<1> SUFFICES ASSUME TickerInit PROVE TypeInv
  OBVIOUS
<1>1. configured \in Settings /\ (GetConfigResyncInterval(configured) >= minTickInterval => Allowed(configured))
  BY IntervalAssumption DEF TickerInit, GetConfigResyncInterval
<1>2. started \in 0..MaxTickers
  BY IntervalAssumption DEF TickerInit
<1>3. started = 1 => Allowed(configured)
  BY <1>1 DEF TickerInit
<1>4. started = 0 \/ started = 1
  BY Zenon DEF TickerInit
<1>5. tickers \in [TickerIds -> [pc : {"none", "starting", "ticking", "gone"}, interval : Nat]]
  BY <1>2, <1>3, <1>4, IntervalAssumption DEF TickerInit
<1>6. watcher = [pc |-> "select", then |-> "none"] /\ running = FALSE /\ resync = FALSE /\ hasty = FALSE
  BY Zenon DEF TickerInit
<1>7. wanted \in Nat
  BY <1>3, <1>4, Zenon DEF TickerInit
<1>8. \A i \in TickerIds : /\ i > started => tickers[i].pc = "none"
                           /\ tickers[i].pc # "none" => tickers[i].interval >= minTickInterval
  BY <1>2, <1>3, <1>4, IntervalAssumption DEF TickerInit
<1> QED
  BY <1>2, <1>5, <1>6, <1>7, <1>8, Zenon DEF TypeInv

\* Starting a ticker keeps the types.
LEMMA StartTypes ==
  ASSUME TypeInv, NEW s, Allowed(s), GoStartTicker(s)
  PROVE  /\ started' \in 0..MaxTickers /\ started' = started + 1
         /\ tickers' \in [TickerIds -> [pc : {"none", "starting", "ticking", "gone"}, interval : Nat]]
         /\ \A i \in TickerIds : /\ i > started' => tickers'[i].pc = "none"
                                 /\ tickers'[i].pc # "none" => tickers'[i].interval >= minTickInterval
         /\ started + 1 \in TickerIds
         /\ tickers'[started + 1] = [pc |-> "starting", interval |-> duration[s]]
         /\ \A i \in TickerIds \ {started + 1} : tickers'[i] = tickers[i]
         /\ tickers[started + 1].pc = "none"
<1>1. started \in Nat /\ started + 1 \in TickerIds /\ started' = started + 1
  BY IntervalAssumption DEF TypeInv, GoStartTicker
<1>2. tickers' = [tickers EXCEPT ![started + 1] = [pc |-> "starting", interval |-> duration[s]]]
  BY DEF GoStartTicker
<1> QED
  BY <1>1, <1>2, IntervalAssumption DEF TypeInv

\* Every step keeps the types.
LEMMA NextTypes == TypeInv /\ [TickerNext]_tickerVars => TypeInv'
<1> SUFFICES ASSUME TypeInv, [TickerNext]_tickerVars PROVE TypeInv'
  OBVIOUS
<1>1. ASSUME NEW new \in Settings, ConfigUpdate(new) PROVE TypeInv'
  <2>1. hasty' \in BOOLEAN /\ UNCHANGED <<running, resync>>
    BY <1>1, Zenon DEF ConfigUpdate
  <2>2. CASE UNCHANGED <<watcher, started, tickers, wanted>>
    BY <2>1, <2>2 DEF TypeInv
  <2>3. CASE duration[new] # Invalid /\ duration[new] >= minTickInterval /\ Restart(new) /\ wanted' = duration[new]
    <3>1. Allowed(new)
      BY <2>3, DurationOfSetting, Zenon
    <3>2. CASE running
      BY <2>1, <2>3, <3>1, <3>2 DEF TypeInv, Restart
    <3>3. CASE ~running
      BY <2>1, <2>3, <3>1, <3>3, StartTypes, Zenon DEF TypeInv, Restart
    <3> QED
      BY <3>2, <3>3
  <2>4. CASE watcher' = [pc |-> "send", then |-> "none"] /\ wanted' = 0 /\ UNCHANGED <<started, tickers>>
    BY <2>1, <2>4 DEF TypeInv
  <2> QED
    BY <1>1, <2>2, <2>3, <2>4, Zenon DEF ConfigUpdate
<1>2. ASSUME NEW i \in TickerIds, StopSignal(i) PROVE TypeInv'
  BY <1>2, Zenon DEF TypeInv, StopSignal
<1>3. ASSUME NEW i \in TickerIds, SetRunning(i) PROVE TypeInv'
  BY <1>3 DEF TypeInv, SetRunning
<1>4. ASSUME NEW i \in TickerIds, Tick(i) PROVE TypeInv'
  BY <1>4, Zenon DEF TypeInv, Tick
<1>5. CASE Quit
  BY <1>5 DEF TypeInv, Quit
<1>6. CASE ClearRunning
  <2>1. watcher' \in [pc : {"select", "send", "clear", "exited"}, then : Settings \cup {"none", "exit"}]
          /\ watcher'.pc \notin {"send", "clear"}
    BY <1>6 DEF TypeInv, ClearRunning
  <2>2. CASE watcher.then \in {"none", "exit"}
    BY <1>6, <2>1, <2>2, Zenon DEF TypeInv, ClearRunning
  <2>3. CASE watcher.then \notin {"none", "exit"}
    <3>1. Allowed(watcher.then) /\ GoStartTicker(watcher.then)
      BY <1>6, <2>3 DEF TypeInv, ClearRunning
    <3> QED
      BY <1>6, <2>1, <3>1, StartTypes, Zenon DEF TypeInv, ClearRunning
  <2> QED
    BY <2>2, <2>3
<1>7. CASE Processed
  BY <1>7, Zenon DEF TypeInv, Processed
<1>8. CASE UNCHANGED tickerVars
  BY <1>8 DEF TypeInv, tickerVars
<1> QED
  BY <1>1, <1>2, <1>3, <1>4, <1>5, <1>6, <1>7, <1>8 DEF TickerNext

\* startTicker and stopTicker work on well-formed state, whatever the settings.
THEOREM TypesOK == TickerSpec => []TickerTypeOK
<1>1. TypeInv => TickerTypeOK
  BY DEF TypeInv, TickerTypeOK
<1> QED
  BY <1>1, InitTypes, NextTypes, PTL DEF TickerSpec

-----------------------------------------------------------------------------
\* The unsynchronised flag running is only set while a ticker is in its loop,
\* for any number of tickers and updates.
THEOREM FlagIsSafe == TickerSpec => []RunningHasTicker
<1>1. TickerInit => RunningHasTicker
  BY DEF TickerInit, RunningHasTicker
<1>2. TypeInv /\ RunningHasTicker /\ [TickerNext]_tickerVars => RunningHasTicker'
  <2> SUFFICES ASSUME TypeInv, RunningHasTicker, [TickerNext]_tickerVars PROVE RunningHasTicker'
    OBVIOUS
  <2>1. ASSUME NEW new \in Settings, ConfigUpdate(new) PROVE RunningHasTicker'
    <3>1. watcher.pc = "select" /\ UNCHANGED running
      BY <2>1, Zenon DEF ConfigUpdate
    <3>2. CASE UNCHANGED tickers
      BY <3>1, <3>2 DEF RunningHasTicker
    <3>3. CASE Restart(new) /\ ~running
      BY <3>1, <3>3 DEF RunningHasTicker
    <3> QED
      BY <2>1, <3>2, <3>3, Zenon DEF ConfigUpdate, Restart
  <2>2. ASSUME NEW i \in TickerIds, StopSignal(i) PROVE RunningHasTicker'
    BY <2>2 DEF StopSignal, RunningHasTicker, TypeInv
  <2>3. ASSUME NEW i \in TickerIds, SetRunning(i) PROVE RunningHasTicker'
    BY <2>3 DEF SetRunning, RunningHasTicker, TypeInv
  <2>4. ASSUME NEW i \in TickerIds, Tick(i) PROVE RunningHasTicker'
    BY <2>4, Zenon DEF Tick, RunningHasTicker
  <2>5. CASE Quit
    BY <2>5 DEF Quit, RunningHasTicker
  <2>6. CASE ClearRunning
    BY <2>6 DEF ClearRunning, RunningHasTicker
  <2>7. CASE Processed
    BY <2>7, Zenon DEF Processed, RunningHasTicker
  <2>8. CASE UNCHANGED tickerVars
    BY <2>8, Zenon DEF tickerVars, RunningHasTicker
  <2> QED
    BY <2>1, <2>2, <2>3, <2>4, <2>5, <2>6, <2>7, <2>8 DEF TickerNext
<1> QED
  BY <1>1, <1>2, InitTypes, NextTypes, PTL DEF TickerSpec

-----------------------------------------------------------------------------
\* Starting a ticker where there is none makes it the one that is wanted.
LEMMA StartOne ==
  ASSUME TypeInv, NEW s, Allowed(s), GoStartTicker(s), Active = {}
  PROVE  Active' = {started + 1} /\ tickers'[started + 1].interval = duration[s] /\ Ticking' = {}
<1>1. /\ started + 1 \in TickerIds
      /\ tickers'[started + 1] = [pc |-> "starting", interval |-> duration[s]]
      /\ \A i \in TickerIds \ {started + 1} : tickers'[i] = tickers[i]
  BY StartTypes, Zenon
<1>2. \A i \in TickerIds \ {started + 1} : tickers'[i].pc \notin {"starting", "ticking"}
  BY <1>1, Zenon
<1>3. tickers'[started + 1].pc = "starting" /\ tickers'[started + 1].interval = duration[s]
  BY <1>1
<1> QED
  BY <1>1, <1>2, <1>3, Zenon

\* Start has the ticker it wants.
LEMMA InitOne == TickerInit => OneTicker
<1> SUFFICES ASSUME TickerInit PROVE OneTicker
  OBVIOUS
<1>1. TypeInv
  BY InitTypes, Zenon
<1>2. running = FALSE /\ watcher.pc = "select" /\ Ticking = {}
  BY DEF TickerInit
<1>3. CASE started = 0
  <2>1. wanted = 0 /\ \A i \in TickerIds : tickers[i] = [pc |-> "none", interval |-> 0]
    BY <1>3, IntervalAssumption DEF TickerInit
  <2>2. Active = {}
    BY <2>1
  <2> QED
    BY <1>2, <2>1, <2>2, Zenon DEF OneTicker, OneActive
<1>4. CASE started = 1
  <2>1. Active = {1} /\ 1 \in TickerIds /\ tickers[1].interval = wanted
    BY <1>4, IntervalAssumption DEF TickerInit
  <2>2. wanted # 0
    BY <1>1, <1>4, <2>1, IntervalAssumption DEF TickerInit, TypeInv
  <2> QED
    BY <1>2, <2>1, <2>2, Zenon DEF OneTicker, OneActive
<1> QED
  BY <1>3, <1>4 DEF TickerInit

\* Every step keeps it so, unless it is hasty.
LEMMA NextOne == TypeInv /\ OneTicker /\ [TickerNext]_tickerVars => OneTicker'
<1> SUFFICES ASSUME TypeInv, OneTicker, [TickerNext]_tickerVars, ~hasty' PROVE OneTicker'
  BY DEF OneTicker
<1>1. ASSUME NEW new \in Settings, ConfigUpdate(new) PROVE OneTicker'
  <2>1. /\ ~hasty /\ Starting = {} /\ (duration[new] = 0 => running)
        /\ watcher.pc = "select" /\ UNCHANGED running
    BY <1>1, Zenon DEF ConfigUpdate
  <2>2. OneActive(wanted) /\ running = (Ticking # {}) /\ Active = Ticking
    BY <2>1, Zenon DEF OneTicker
  <2>3. CASE UNCHANGED <<watcher, tickers, wanted>>
    BY <2>1, <2>2, <2>3 DEF OneTicker, OneActive
  <2>4. CASE Restart(new) /\ duration[new] # Invalid /\ duration[new] >= minTickInterval /\ wanted' = duration[new]
    <3>1. Allowed(new)
      BY <2>4, DurationOfSetting, Zenon
    <3>2. CASE running
      <4>1. watcher' = [pc |-> "send", then |-> new] /\ UNCHANGED tickers
        BY <2>4, <3>2 DEF Restart
      <4>2. \E i \in TickerIds : Ticking = {i}
        BY <2>2, <3>2, Zenon DEF OneActive
      <4> QED
        BY <2>1, <2>4, <4>1, <4>2, IntervalAssumption, Zenon DEF OneTicker
    <3>3. CASE ~running
      <4>1. GoStartTicker(new) /\ UNCHANGED watcher
        BY <2>4, <3>3 DEF Restart
      <4>2. Active' = {started + 1} /\ tickers'[started + 1].interval = duration[new] /\ Ticking' = {}
        BY <2>2, <3>1, <3>3, <4>1, StartOne, Zenon
      <4>3. started + 1 \in TickerIds
        BY <3>1, <4>1, StartTypes, Zenon
      <4>4. duration[new] # 0
        BY <3>1, IntervalAssumption
      <4> QED
        BY <2>1, <2>4, <3>3, <4>1, <4>2, <4>3, <4>4, Zenon DEF OneTicker, OneActive
    <3> QED
      BY <3>2, <3>3
  <2>5. CASE duration[new] = 0 /\ watcher' = [pc |-> "send", then |-> "none"] /\ wanted' = 0 /\ UNCHANGED tickers
    <3>1. \E i \in TickerIds : Ticking = {i}
      BY <2>1, <2>2, <2>5, Zenon DEF OneActive
    <3> QED
      BY <2>1, <2>5, <3>1 DEF OneTicker
  <2> QED
    BY <1>1, <2>3, <2>4, <2>5, Zenon DEF ConfigUpdate
<1>2. ASSUME NEW i \in TickerIds, StopSignal(i) PROVE OneTicker'
  <2>1. watcher.pc = "send" /\ i \in Ticking /\ ~hasty /\ UNCHANGED wanted
    BY <1>2 DEF StopSignal
  <2>2. watcher'.pc = "clear" /\ watcher'.then = watcher.then
    BY <1>2, Zenon DEF StopSignal, TypeInv
  <2>3. CASE watcher.then = "exit"
    BY <2>2, <2>3, Zenon DEF OneTicker
  <2>4. CASE watcher.then # "exit"
    <3>1. Starting = {} /\ Ticking = {i}
      BY <2>1, <2>4 DEF OneTicker
    <3>2. Active' = {}
      BY <1>2, <3>1 DEF StopSignal, TypeInv
    <3> QED
      BY <2>1, <2>2, <2>4, <3>2, Zenon DEF OneTicker
  <2> QED
    BY <2>3, <2>4
<1>3. ASSUME NEW i \in TickerIds, SetRunning(i) PROVE OneTicker'
  <2>1. i \in Starting /\ ~hasty /\ running' /\ UNCHANGED <<watcher, wanted>>
    BY <1>3 DEF SetRunning
  <2>2. Active' = Active /\ i \in Ticking' /\ \A j \in TickerIds : tickers'[j].interval = tickers[j].interval
    BY <1>3 DEF SetRunning, TypeInv
  <2>3. running' = (Ticking' # {})
    BY <2>1, <2>2, <1>3, Zenon DEF SetRunning
  <2> QED
    BY <2>1, <2>2, <2>3, Zenon DEF OneTicker, OneActive
<1>4. ASSUME UNCHANGED <<watcher, running, tickers, wanted, hasty>> PROVE OneTicker'
  BY <1>4, Zenon DEF OneTicker, OneActive
<1>5. CASE Quit
  BY <1>5, Zenon DEF Quit, OneTicker
<1>6. CASE ClearRunning
  <2>1. ~hasty /\ watcher.pc = "clear" /\ running' = FALSE /\ UNCHANGED wanted
    BY <1>6, Zenon DEF ClearRunning
  <2>2. CASE watcher.then = "exit"
    <3>1. watcher'.pc = "exited"
      BY <1>6, <2>2 DEF ClearRunning, TypeInv
    <3> QED
      BY <3>1, Zenon DEF OneTicker
  <2>3. CASE watcher.then = "none"
    BY <1>6, <2>1, <2>3, Zenon DEF ClearRunning, OneTicker, OneActive
  <2>4. CASE watcher.then \notin {"none", "exit"}
    <3>1. /\ Allowed(watcher.then) /\ GoStartTicker(watcher.then) /\ watcher' = AtSelect
          /\ Active = {} /\ wanted = duration[watcher.then]
      BY <1>6, <2>1, <2>4, Zenon DEF ClearRunning, TypeInv, OneTicker
    <3>2. Active' = {started + 1} /\ tickers'[started + 1].interval = wanted /\ Ticking' = {}
      BY <3>1, StartOne
    <3>3. started + 1 \in TickerIds
      BY <3>1, StartTypes, Zenon
    <3>4. wanted # 0
      BY <3>1, IntervalAssumption
    <3>5. OneActive(wanted)'
      BY <2>1, <3>2, <3>3, <3>4 DEF OneActive
    <3>6. watcher'.pc = "select" /\ running' = (Ticking' # {})
      BY <2>1, <3>1, <3>2, Zenon
    <3> QED
      BY <3>5, <3>6 DEF OneTicker
  <2> QED
    BY <2>2, <2>3, <2>4
<1> QED
  BY <1>1, <1>2, <1>3, <1>4, <1>5, <1>6, Zenon DEF TickerNext, Tick, Processed, tickerVars

INSTANCE FiniteSetTheorems

\* While no update is hasty there is exactly the ticker that watchConfig wants,
\* at the last valid interval, for any number of updates.
THEOREM TickerAsConfigured == TickerSpec => []OneTickerAtWantedInterval
<1>1. TypeInv /\ OneTicker => OneTickerAtWantedInterval
  <2> SUFFICES ASSUME TypeInv, OneTicker, watcher.pc = "select", ~hasty
               PROVE  /\ {tickers[i].interval : i \in Active} = {wanted} \ {0}
                      /\ Cardinality(Active) <= 1
    BY Zenon DEF OneTickerAtWantedInterval
  <2>1. OneActive(wanted)
    BY Zenon DEF OneTicker
  <2>2. CASE wanted = 0
    BY <2>1, <2>2, FS_EmptySet DEF OneActive
  <2>3. CASE wanted # 0
    <3>1. PICK i \in TickerIds : Active = {i} /\ tickers[i].interval = wanted
      BY <2>1, <2>3, Zenon DEF OneActive
    <3>2. Cardinality({i}) = 1
      BY FS_Singleton, Zenon
    <3> QED
      BY <2>3, <3>1, <3>2
  <2> QED
    BY <2>2, <2>3, Zenon
<1> QED
  BY <1>1, InitTypes, NextTypes, InitOne, NextOne, PTL DEF TickerSpec
=============================================================================
