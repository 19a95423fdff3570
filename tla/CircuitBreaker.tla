--------------------------- MODULE CircuitBreaker ---------------------------
(***************************************************************************)
(* The object that makeCircuitBreaker builds for one cluster               *)
(* (modules/outbound-circuit-breaker.js): its variables as a record, its   *)
(* methods as operators from a record to a record.  A ratio is a           *)
(* percentage; an unset number is 0, as in the JavaScript.                 *)
(***************************************************************************)
EXTENDS Naturals

Or(v, default) == IF v = 0 THEN default ELSE v

\* The settings read from ConnectionSettings.http.CircuitBreaking.
Settings(c) ==
  [ minRequestAmount     |-> Or(c.MinRequestAmount, 100),
    statTimeWindow       |-> Or(c.StatTimeWindow, 30),
    slowAmountThreshold  |-> c.SlowAmountThreshold,
    slowRatioThreshold   |-> c.SlowRatioThreshold,
    errorAmountThreshold |-> c.ErrorAmountThreshold,
    errorRatioThreshold  |-> c.ErrorRatioThreshold,
    degradedTimeWindow   |-> Or(c.DegradedTimeWindow, 30),
    degradedStatusCode   |-> Or(c.DegradedStatusCode, 409) ]

SettingsType ==
  [ minRequestAmount : Nat, statTimeWindow : Nat,
    slowAmountThreshold : Nat, slowRatioThreshold : Nat,
    errorAmountThreshold : Nat, errorRatioThreshold : Nat,
    degradedTimeWindow : Nat, degradedStatusCode : Nat ]

BreakerType ==
  [ tick : Nat, delay : Nat, total : Nat, slowAmount : Nat, errorAmount : Nat,
    degraded : BOOLEAN, slowQuota : Nat, errorQuota : Nat ]

\* algo.Quota(threshold - 1), when there is a threshold.
InitialQuota(threshold) == IF threshold > 0 THEN threshold - 1 ELSE 0

NewBreaker(s) ==
  [ tick |-> 0, delay |-> 0, total |-> 0, slowAmount |-> 0, errorAmount |-> 0,
    degraded |-> FALSE,
    slowQuota |-> InitialQuota(s.slowAmountThreshold),
    errorQuota |-> InitialQuota(s.errorAmountThreshold) ]

-----------------------------------------------------------------------------
Increase(b) ==
  [ tick |-> b.tick, delay |-> b.delay, total |-> b.total + 1,
    slowAmount |-> b.slowAmount, errorAmount |-> b.errorAmount,
    degraded |-> b.degraded, slowQuota |-> b.slowQuota, errorQuota |-> b.errorQuota ]

\* (amount < total) && ++amount
CountUpTo(amount, total) == IF amount < total THEN amount + 1 ELSE amount

\* quota.consume(1) gives less than 1 when nothing is left.
Consume(quota) == IF quota > 0 THEN quota - 1 ELSE 0

\* Whether one more bad answer opens the circuit: the quota is used up, or
\* the amount makes up the ratio of a large enough total.
Trips(threshold, quota, ratio, amount, total, minimum) ==
  \/ threshold > 0 /\ quota = 0
  \/ ratio > 0 /\ total >= minimum /\ amount * 100 >= ratio * total

\* Mutant: an answer is counted even when the total was reset meanwhile.
CheckError_Uncapped(s, b, status) ==
  IF (s.errorAmountThreshold > 0 \/ s.errorRatioThreshold > 0) /\ status > 499
    THEN [ tick |-> b.tick, delay |-> b.delay, total |-> b.total,
           slowAmount |-> b.slowAmount, errorAmount |-> b.errorAmount + 1,
           degraded |-> b.degraded \/ Trips(s.errorAmountThreshold, b.errorQuota,
                          s.errorRatioThreshold, b.errorAmount + 1, b.total, s.minRequestAmount),
           slowQuota |-> b.slowQuota, errorQuota |-> Consume(b.errorQuota) ]
    ELSE b

\* A quota is only consumed where there is one.
CheckError(s, b, status) ==
  LET amount == CountUpTo(b.errorAmount, b.total)
  IN  IF (s.errorAmountThreshold > 0 \/ s.errorRatioThreshold > 0) /\ status > 499
        THEN [ tick |-> b.tick, delay |-> b.delay, total |-> b.total,
               slowAmount |-> b.slowAmount, errorAmount |-> amount,
               degraded |-> b.degraded \/ Trips(s.errorAmountThreshold, b.errorQuota,
                              s.errorRatioThreshold, amount, b.total, s.minRequestAmount),
               slowQuota |-> b.slowQuota, errorQuota |-> Consume(b.errorQuota) ]
        ELSE b

\* slow: the answer took slowTimeThreshold seconds or more.
CheckSlow(s, b, slow) ==
  LET amount == CountUpTo(b.slowAmount, b.total)
  IN  IF (s.slowAmountThreshold > 0 \/ s.slowRatioThreshold > 0) /\ slow
        THEN [ tick |-> b.tick, delay |-> b.delay, total |-> b.total,
               slowAmount |-> amount, errorAmount |-> b.errorAmount,
               degraded |-> b.degraded \/ Trips(s.slowAmountThreshold, b.slowQuota,
                              s.slowRatioThreshold, amount, b.total, s.minRequestAmount),
               slowQuota |-> Consume(b.slowQuota), errorQuota |-> b.errorQuota ]
        ELSE b

\* What refreshTimer resets when the degraded time is over; the quotas are
\* not among it.
Close(b) ==
  [ tick |-> 0, delay |-> 0, total |-> 0, slowAmount |-> 0, errorAmount |-> 0,
    degraded |-> FALSE, slowQuota |-> b.slowQuota, errorQuota |-> b.errorQuota ]

\* One more second of a closed circuit.
StatTick(s, b) ==
  IF b.tick + 1 > s.statTimeWindow
    THEN [ tick |-> 0, delay |-> b.delay, total |-> 0, slowAmount |-> 0, errorAmount |-> 0,
           degraded |-> FALSE, slowQuota |-> b.slowQuota, errorQuota |-> b.errorQuota ]
    ELSE [ tick |-> b.tick + 1, delay |-> b.delay, total |-> b.total,
           slowAmount |-> b.slowAmount, errorAmount |-> b.errorAmount,
           degraded |-> FALSE, slowQuota |-> b.slowQuota, errorQuota |-> b.errorQuota ]

\* Mutant: a degraded circuit does not count its seconds.
RefreshTimer_NoDelay(s, b) == IF b.degraded THEN b ELSE StatTick(s, b)

\* The second in which a circuit closes is also the first of its next window.
RefreshTimer(s, b) ==
  IF b.degraded
    THEN IF b.delay + 1 > s.degradedTimeWindow
           THEN StatTick(s, Close(b))
           ELSE [ tick |-> b.tick, delay |-> b.delay + 1, total |-> b.total,
                  slowAmount |-> b.slowAmount, errorAmount |-> b.errorAmount,
                  degraded |-> TRUE, slowQuota |-> b.slowQuota, errorQuota |-> b.errorQuota ]
    ELSE StatTick(s, b)

\* algo.Quota produces its initial amount again every statTimeWindow seconds,
\* by a timer of its own.
RefillSlow(s, b) ==
  [ tick |-> b.tick, delay |-> b.delay, total |-> b.total, slowAmount |-> b.slowAmount,
    errorAmount |-> b.errorAmount, degraded |-> b.degraded,
    slowQuota |-> InitialQuota(s.slowAmountThreshold), errorQuota |-> b.errorQuota ]

RefillError(s, b) ==
  [ tick |-> b.tick, delay |-> b.delay, total |-> b.total, slowAmount |-> b.slowAmount,
    errorAmount |-> b.errorAmount, degraded |-> b.degraded,
    slowQuota |-> b.slowQuota, errorQuota |-> InitialQuota(s.errorAmountThreshold) ]

-----------------------------------------------------------------------------
\* What a breaker's counters keep to, however late an answer comes: no more
\* slow or failed answers than requests of the window, so a ratio is at most
\* 1; both windows are never overrun; a closed circuit has no delay left over.
BreakerOK(s, b) ==
  /\ b \in BreakerType
  /\ b.slowAmount <= b.total
  /\ b.errorAmount <= b.total
  /\ b.tick <= s.statTimeWindow
  /\ b.delay <= s.degradedTimeWindow
  /\ b.delay > 0 => b.degraded
  /\ b.slowQuota <= InitialQuota(s.slowAmountThreshold)
  /\ b.errorQuota <= InitialQuota(s.errorAmountThreshold)
=============================================================================
