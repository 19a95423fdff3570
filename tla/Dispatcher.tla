------------------------------ MODULE Dispatcher ------------------------------
(***************************************************************************)
(* Broker.runProxyUpdateDispatcher (pkg/ecnet/messaging/broker.go): the    *)
(* goroutine that coalesces broadcast proxy update events with a sliding   *)
(* timer and a max timer, and publishes one event per batch.               *)
(*                                                                         *)
(* A select case runs to its next blocking point in one step.  A Go timer  *)
(* is the time left and its one-slot channel; time advances in ticks.      *)
(***************************************************************************)
EXTENDS Integers

CONSTANTS
  SlidingWindow,   (* proxyUpdateSlidingWindow, in ticks                    *)
  MaxWindow,       (* proxyUpdateMaxWindow, in ticks                        *)
  MaxEvents        (* bound on the number of events the processor sends     *)

ASSUME WindowAssumption ==
  /\ SlidingWindow \in Nat \ {0}
  /\ MaxWindow \in Nat \ {0}
  /\ MaxEvents \in Nat

VARIABLES
  pc,              (* where the goroutine is                                *)
  slidingTimer,
  maxTimer,
  dispatchPending,
  batchCount,
  event,           (* the local variable event: the number of the event     *)
  received,        (* events received on proxyUpdateCh                      *)
  totalDispatched, (* totalDispatchedProxyEventCount                        *)
  covered,         (* events covered by the dispatches made so far          *)
  age,             (* ticks since the first event of the current batch      *)
  quiet            (* ticks since the last event of the current batch       *)

timers  == <<slidingTimer, maxTimer>>
locals  == <<dispatchPending, batchCount, event>>
history == <<received, covered, age, quiet>>
vars    == <<pc, timers, locals, totalDispatched, history>>

-----------------------------------------------------------------------------
(* Go timers.  left = 0 is a timer that is not running; noTimeout stands   *)
(* for the decade that never ends; c counts the ticks in the channel.      *)

noTimeout == -1

Timer == [left : Nat \cup {noTimeout}, c : 0..1]

\* Timer.Reset(d): the channel keeps what it holds.
Reset(t, d) == [left |-> d, c |-> t.c]

\* "if !t.Stop() { <-t.C }" blocks for ever when the timer is not running
\* and its channel is empty.
DrainBlocks(t) == t.left = 0 /\ t.c = 0

\* "if !t.Stop() { <-t.C }" when it does not block.
StopAndDrain(t) == [left |-> 0, c |-> IF t.left = 0 THEN 0 ELSE t.c]

Receive(t) == [left |-> t.left, c |-> 0]

Advance(t) ==
  IF t.left \in {0, noTimeout}
    THEN t
    ELSE [left |-> t.left - 1, c |-> IF t.left = 1 THEN 1 ELSE t.c]

-----------------------------------------------------------------------------
Init ==
  /\ pc = "select"
  /\ slidingTimer = [left |-> noTimeout, c |-> 0]
  /\ maxTimer = [left |-> noTimeout, c |-> 0]
  /\ dispatchPending = FALSE
  /\ batchCount = 0
  /\ event = 0
  /\ totalDispatched = 0
  /\ received = 0
  /\ covered = 0
  /\ age = 0
  /\ quiet = 0

\* Mutant: the timers are left as they were when a batch starts.
StartBatch_TimersNotStarted ==
  /\ ~dispatchPending
  /\ dispatchPending' = TRUE
  /\ batchCount' = batchCount + 1
  /\ age' = 0
  /\ UNCHANGED <<pc, timers>>

\* The first event of a batch starts both windows.
StartBatch ==
  /\ ~dispatchPending
  /\ IF DrainBlocks(slidingTimer) \/ DrainBlocks(maxTimer)
       THEN /\ pc' = "stuck"
            /\ UNCHANGED <<timers, dispatchPending, batchCount>>
       ELSE /\ slidingTimer' = Reset(StopAndDrain(slidingTimer), SlidingWindow)
            /\ maxTimer' = Reset(StopAndDrain(maxTimer), MaxWindow)
            /\ dispatchPending' = TRUE
            /\ batchCount' = batchCount + 1
            /\ UNCHANGED pc
  /\ age' = 0

\* Mutant: every event restarts the max window as well.
ExtendBatch_RestartsMax ==
  /\ dispatchPending
  /\ slidingTimer' = Reset(StopAndDrain(slidingTimer), SlidingWindow)
  /\ maxTimer' = Reset(StopAndDrain(maxTimer), MaxWindow)
  /\ batchCount' = batchCount + 1
  /\ UNCHANGED <<pc, dispatchPending, age>>

\* A later event of a batch slides the sliding window only.
ExtendBatch ==
  /\ dispatchPending
  /\ IF DrainBlocks(slidingTimer)
       THEN /\ pc' = "stuck"
            /\ UNCHANGED <<slidingTimer, batchCount>>
       ELSE /\ slidingTimer' = Reset(StopAndDrain(slidingTimer), SlidingWindow)
            /\ batchCount' = batchCount + 1
            /\ UNCHANGED pc
  /\ UNCHANGED <<maxTimer, dispatchPending, age>>

\* case e := <-b.proxyUpdateCh
ReceiveEvent ==
  /\ pc = "select"
  /\ received < MaxEvents
  /\ received' = received + 1
  /\ event' = received + 1
  /\ quiet' = 0
  /\ StartBatch \/ ExtendBatch
  /\ UNCHANGED <<totalDispatched, covered>>

\* case <-slidingTimer.C, up to the call of Pub
SlidingExpired ==
  /\ pc = "select"
  /\ slidingTimer.c = 1
  /\ slidingTimer' = Reset(Receive(slidingTimer), noTimeout)
  /\ IF DrainBlocks(maxTimer)
       THEN pc' = "stuck" /\ UNCHANGED maxTimer
       ELSE pc' = "publish" /\ maxTimer' = Reset(StopAndDrain(maxTimer), noTimeout)
  /\ UNCHANGED <<locals, totalDispatched, history>>

\* case <-maxTimer.C, up to the call of Pub
MaxExpired ==
  /\ pc = "select"
  /\ maxTimer.c = 1
  /\ maxTimer' = Reset(Receive(maxTimer), noTimeout)
  /\ IF DrainBlocks(slidingTimer)
       THEN pc' = "stuck" /\ UNCHANGED slidingTimer
       ELSE pc' = "publish" /\ slidingTimer' = Reset(StopAndDrain(slidingTimer), noTimeout)
  /\ UNCHANGED <<locals, totalDispatched, history>>

\* The pub-sub accepts the message: the rest of either timer case.
Publish ==
  /\ pc = "publish"
  /\ totalDispatched' = totalDispatched + 1
  /\ dispatchPending' = FALSE
  /\ batchCount' = 0
  /\ covered' = event
  /\ age' = 0
  /\ quiet' = 0
  /\ pc' = "select"
  /\ UNCHANGED <<timers, event, received>>

\* case <-stopCh
StopSignalled ==
  /\ pc = "select"
  /\ pc' = "exited"
  /\ UNCHANGED <<timers, locals, totalDispatched, history>>

\* One unit of time.  A goroutine with a ready select case is scheduled
\* well within one unit, so time does not pass over an unserved timer.
TimePasses ==
  /\ pc = "select"
  /\ dispatchPending
  /\ slidingTimer.c = 0
  /\ maxTimer.c = 0
  /\ slidingTimer' = Advance(slidingTimer)
  /\ maxTimer' = Advance(maxTimer)
  /\ age' = IF age > MaxWindow THEN age ELSE age + 1
  /\ quiet' = IF quiet > SlidingWindow THEN quiet ELSE quiet + 1
  /\ UNCHANGED <<pc, locals, totalDispatched, received, covered>>

Next ==
  \/ ReceiveEvent
  \/ SlidingExpired
  \/ MaxExpired
  \/ Publish
  \/ StopSignalled
  \/ TimePasses

Spec == Init /\ [][Next]_vars

\* The runtime delivers time and runs a goroutine that can run, and the
\* pub-sub goroutine eventually accepts a Pub.  Nothing makes the processor
\* send events, or the process stop.
FairSpec ==
  /\ Spec
  /\ WF_vars(TimePasses)
  /\ WF_vars(SlidingExpired \/ MaxExpired)
  /\ WF_vars(Publish)

-----------------------------------------------------------------------------
TypeOK ==
  /\ pc \in {"select", "publish", "stuck", "exited"}
  /\ slidingTimer \in Timer
  /\ maxTimer \in Timer
  /\ dispatchPending \in BOOLEAN
  /\ batchCount \in Nat
  /\ event \in Nat
  /\ received \in Nat
  /\ totalDispatched \in Nat
  /\ covered \in Nat
  /\ age \in Nat
  /\ quiet \in Nat

\* No receive from a timer channel that follows a failed Stop() blocks the
\* dispatcher: whenever one of the two timers is stopped it is running or its
\* tick is still in the channel, whichever order timers and events came in.
DrainNeverBlocks == pc # "stuck"

\* proxyUpdateMaxWindow "is the max amount of time a proxy update event can be
\* held for batching before being dispatched": however often later events
\* restart the sliding window, the oldest event of a batch is not held longer.
HeldAtMostMaxWindow == pc = "select" /\ dispatchPending => age <= MaxWindow

\* The dispatches made, together with the batch being held, account for every
\* event received: coalescing drops none, and batchCount is exact.
EveryEventAccounted ==
  /\ received = covered + batchCount
  /\ batchCount > 0 <=> dispatchPending

\* A batch is published only after proxyUpdateSlidingWindow without events or
\* proxyUpdateMaxWindow after its first one, never because of a stale tick.
PublishesOnlyAfterWindow ==
  [][pc = "select" /\ pc' = "publish" =>
       quiet >= SlidingWindow \/ age >= MaxWindow]_vars

\* An event that was received is eventually covered by a dispatch, unless the
\* process is told to stop.
EventuallyDispatched ==
  \A n \in 1..MaxEvents : received >= n ~> (covered >= n \/ pc = "exited")

\* The dispatcher implements the coalescer: a timer case is the dispatch, and
\* everything else it does is invisible or hands an event over.
Abs == INSTANCE Coalescer WITH
         covered <- IF pc = "publish" THEN received ELSE covered,
         age     <- IF pc = "publish" THEN 0 ELSE age

Coalesces == Abs!Spec

\* The inductive invariant: outside a batch both timers are at noTimeout;
\* inside one each timer is running or has its tick in the channel, and counts
\* down what is left of its own window.
Parked(t) == t = [left |-> noTimeout, c |-> 0]

Counts(t, elapsed, window) ==
  /\ t.left \in Nat
  /\ t.c = 1 <=> t.left = 0
  /\ elapsed + t.left = window

IInv ==
  /\ TypeOK
  /\ DrainNeverBlocks
  /\ EveryEventAccounted
  /\ event = received
  /\ pc = "publish" => dispatchPending
  /\ ~dispatchPending => age = 0
  /\ IF dispatchPending /\ pc # "publish"
       THEN /\ Counts(slidingTimer, quiet, SlidingWindow)
            /\ Counts(maxTimer, age, MaxWindow)
       ELSE Parked(slidingTimer) /\ Parked(maxTimer)
=============================================================================
