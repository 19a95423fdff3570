--------------------------- MODULE OutboundProofs ---------------------------
(* For every configuration and any number of requests: the counters of the *)
(* circuit breakers, from what the methods of a breaker preserve; then what*)
(* a request has tried when it is retried, answered or dropped (the runs'  *)
(* AttemptsSound and TriedExactly), from the invariant PipelineInv.        *)
EXTENDS Outbound, TLAPS

\* makeCircuitBreaker builds a sound breaker.
LEMMA NewBreakerOK ==
  ASSUME NEW s \in SettingsType PROVE BreakerOK(s, NewBreaker(s))
BY DEF SettingsType, BreakerType, BreakerOK, NewBreaker, InitialQuota

\* increase() preserves a sound breaker.
LEMMA IncreaseOK ==
  ASSUME NEW s \in SettingsType, NEW b, BreakerOK(s, b) PROVE BreakerOK(s, Increase(b))
BY DEF SettingsType, BreakerType, BreakerOK, Increase, InitialQuota

\* checkError() preserves it, for an answer of any age.
LEMMA CheckErrorOK ==
  ASSUME NEW s \in SettingsType, NEW b, NEW status, BreakerOK(s, b)
  PROVE  BreakerOK(s, CheckError(s, b, status))
<1> DEFINE amount == CountUpTo(b.errorAmount, b.total)
           trips  == Trips(s.errorAmountThreshold, b.errorQuota, s.errorRatioThreshold,
                           amount, b.total, s.minRequestAmount)
           checks == (s.errorAmountThreshold > 0 \/ s.errorRatioThreshold > 0) /\ status > 499
<1>1. trips \in BOOLEAN
  BY Zenon DEF Trips
<1>2. (b.degraded \/ trips) \in BOOLEAN
  BY Zenon
<1>3. amount \in Nat /\ amount <= b.total
  BY DEF CountUpTo, BreakerOK, BreakerType
<1>4. Consume(b.errorQuota) \in Nat /\ Consume(b.errorQuota) <= b.errorQuota
  BY DEF Consume, BreakerOK, BreakerType
<1>5. CheckError(s, b, status) =
        IF checks
          THEN [ tick |-> b.tick, delay |-> b.delay, total |-> b.total,
                 slowAmount |-> b.slowAmount, errorAmount |-> amount,
                 degraded |-> b.degraded \/ trips,
                 slowQuota |-> b.slowQuota, errorQuota |-> Consume(b.errorQuota) ]
          ELSE b
  BY DEF CheckError
<1> HIDE DEF amount, trips, checks
<1> QED
  BY <1>2, <1>3, <1>4, <1>5 DEF SettingsType, BreakerType, BreakerOK, InitialQuota

\* checkSlow() preserves it, for an answer of any age.
LEMMA CheckSlowOK ==
  ASSUME NEW s \in SettingsType, NEW b, NEW slow, BreakerOK(s, b)
  PROVE  BreakerOK(s, CheckSlow(s, b, slow))
<1> DEFINE amount == CountUpTo(b.slowAmount, b.total)
           trips  == Trips(s.slowAmountThreshold, b.slowQuota, s.slowRatioThreshold,
                           amount, b.total, s.minRequestAmount)
           checks == (s.slowAmountThreshold > 0 \/ s.slowRatioThreshold > 0) /\ slow
<1>1. trips \in BOOLEAN
  BY Zenon DEF Trips
<1>2. (b.degraded \/ trips) \in BOOLEAN
  BY Zenon
<1>3. amount \in Nat /\ amount <= b.total
  BY DEF CountUpTo, BreakerOK, BreakerType
<1>4. Consume(b.slowQuota) \in Nat /\ Consume(b.slowQuota) <= b.slowQuota
  BY DEF Consume, BreakerOK, BreakerType
<1>5. CheckSlow(s, b, slow) =
        IF checks
          THEN [ tick |-> b.tick, delay |-> b.delay, total |-> b.total,
                 slowAmount |-> amount, errorAmount |-> b.errorAmount,
                 degraded |-> b.degraded \/ trips,
                 slowQuota |-> Consume(b.slowQuota), errorQuota |-> b.errorQuota ]
          ELSE b
  BY DEF CheckSlow
<1> HIDE DEF amount, trips, checks
<1> QED
  BY <1>2, <1>3, <1>4, <1>5 DEF SettingsType, BreakerType, BreakerOK, InitialQuota

\* refreshTimer() preserves it, the second that closes the circuit included.
LEMMA RefreshTimerOK ==
  ASSUME NEW s \in SettingsType, NEW b, BreakerOK(s, b) PROVE BreakerOK(s, RefreshTimer(s, b))
<1>1. ASSUME NEW c, BreakerOK(s, c), ~c.degraded PROVE BreakerOK(s, StatTick(s, c))
  BY <1>1 DEF SettingsType, BreakerType, BreakerOK, StatTick, InitialQuota
<1>2. BreakerOK(s, Close(b)) /\ ~Close(b).degraded
  BY DEF SettingsType, BreakerType, BreakerOK, Close, InitialQuota
<1>3. CASE ~b.degraded
  BY <1>1, <1>3 DEF RefreshTimer
<1>4. CASE b.degraded /\ b.delay + 1 > s.degradedTimeWindow
  BY <1>1, <1>2, <1>4 DEF RefreshTimer
<1>5. CASE b.degraded /\ ~(b.delay + 1 > s.degradedTimeWindow)
  BY <1>5 DEF SettingsType, BreakerType, BreakerOK, RefreshTimer, InitialQuota
<1> QED
  BY <1>3, <1>4, <1>5

\* The timers of the quotas preserve it.
LEMMA RefillOK ==
  ASSUME NEW s \in SettingsType, NEW b, BreakerOK(s, b)
  PROVE  BreakerOK(s, RefillSlow(s, RefillError(s, b)))
<1>1. BreakerOK(s, RefillError(s, b))
  BY DEF SettingsType, BreakerType, BreakerOK, RefillError, InitialQuota
<1>2. ASSUME NEW e, BreakerOK(s, e) PROVE BreakerOK(s, RefillSlow(s, e))
  BY <1>2 DEF SettingsType, BreakerType, BreakerOK, RefillSlow, InitialQuota
<1> QED
  BY <1>1, <1>2, Zenon

\* Whatever the clusters, the settings and the requests, the counters of
\* every circuit breaker are sound at every moment: makeCircuitBreaker's
\* ratios never pass 1 and no window is overrun.
THEOREM CountersSound == Spec => []BreakersOK
<1>1. Init => BreakersOK
  BY NewBreakerOK, BreakingAssumption DEF Init, BreakersOK
<1>2. BreakersOK /\ [Next]_vars => BreakersOK'
  <2> SUFFICES ASSUME BreakersOK, [Next]_vars PROVE BreakersOK'
    OBVIOUS
  <2>1. ASSUME NEW c \in DOMAIN breaking PROVE breaking[c] \in SettingsType /\ BreakerOK(breaking[c], breaker[c])
    BY BreakingAssumption DEF BreakersOK
  <2>2. ASSUME UNCHANGED breaker PROVE BreakersOK'
    BY <2>2 DEF BreakersOK
  <2>3. ASSUME NEW r \in Requests, Send(r) PROVE BreakersOK'
    <3>1. CASE UNCHANGED breaker
      BY <2>2, <3>1
    <3>2. ASSUME NEW c \in DOMAIN breaking, breaker' = [breaker EXCEPT ![c] = Increase(@)]
          PROVE  BreakersOK'
      <4>1. \A d \in DOMAIN breaking : breaker'[d] = IF d = c THEN Increase(breaker[c]) ELSE breaker[d]
        BY <3>2 DEF BreakersOK
      <4>2. DOMAIN breaker' = DOMAIN breaking
        BY <3>2 DEF BreakersOK
      <4> QED
        BY <2>1, <4>1, <4>2, IncreaseOK DEF BreakersOK
    <3>3. \/ UNCHANGED breaker
          \/ \E c \in DOMAIN breaking : breaker' = [breaker EXCEPT ![c] = Increase(@)]
      BY <2>3, Zenon DEF Send
    <3> QED
      BY <3>1, <3>2, <3>3
  <2>4. ASSUME NEW r \in Requests, NEW status, NEW slow, Answer(r, status, slow) PROVE BreakersOK'
    <3>1. CASE UNCHANGED breaker
      BY <2>2, <3>1
    <3> DEFINE checked == [b \in DOMAIN breaking |->
                 IF b = req[r].cluster
                   THEN CheckSlow(breaking[b], CheckError(breaking[b], breaker[b], status), slow)
                   ELSE breaker[b]]
    <3>2. CASE breaker' = checked
      BY <2>1, <3>2, CheckErrorOK, CheckSlowOK DEF BreakersOK
    <3>3. UNCHANGED breaker \/ breaker' = checked
      BY <2>4, Zenon DEF Answer
    <3> QED
      BY <3>1, <3>2, <3>3
  <2>5. ASSUME Tick PROVE BreakersOK'
    BY <2>1, <2>5, RefreshTimerOK DEF Tick, BreakersOK
  <2>6. ASSUME NEW c \in DOMAIN breaking, Refill(c) PROVE BreakersOK'
    BY <2>1, <2>6, RefillOK DEF Refill, BreakersOK
  <2>7. ASSUME NEW r \in Requests, (\E in \in Inputs : Accept(r, in)) \/ Resend(r) \/ TcpConnect(r) \/ TcpEnd(r)
        PROVE  BreakersOK'
    <3>1. UNCHANGED breaker
      BY <2>7, Zenon DEF Accept, Resend, TcpConnect, TcpEnd
    <3> QED
      BY <2>2, <3>1
  <2>8. CASE UNCHANGED vars
    BY <2>2, <2>8 DEF vars
  <2> QED
    BY <2>3, <2>4, <2>5, <2>6, <2>7, <2>8 DEF Next
<1> QED
  BY <1>1, <1>2, PTL DEF Spec

-----------------------------------------------------------------------------
(* What is known of the context of a request, q, in each of its states.    *)

IsReq(q) ==
  q = [ pc |-> q.pc, in |-> q.in, port |-> q.port, route |-> q.route, cluster |-> q.cluster,
        failoverCluster |-> q.failoverCluster, origPath |-> q.origPath, path |-> q.path,
        isEgress |-> q.isEgress, cert |-> q.cert, clusterConfig |-> q.clusterConfig,
        failoverObject |-> q.failoverObject, target |-> q.target, retryCount |-> q.retryCount,
        branch |-> q.branch, passes |-> q.passes, status |-> q.status, tries |-> q.tries ]

IsTries(s) == s \in Seq({s[i] : i \in DOMAIN s})

KindOf(s, kind) == {i \in DOMAIN s : s[i].kind = kind}

\* An attempt was made at a cluster that leaves _failoverObject behind.
LeavesStandBy(s) == \E j \in DOMAIN s : RetriesAndStandBy(s[j].cluster)

Configured(c) == c # none /\ c \in DOMAIN ClustersConfigs

IsEndpoint(c, t) == t \in DOMAIN ClustersConfigs[c].Endpoints

PathFor(c, t, in) == ClustersConfigs[c].Endpoints[t].Path \o in.path

\* Each attempt is the one AttemptsSound asks for.
TryOK(s, i, port, in) ==
  /\ \/ s[i].cluster = none
     \/ IsEndpoint(s[i].cluster, s[i].target)
     \/ \E j \in 1..(i - 1) : RetriesAndStandBy(s[j].cluster)
  /\ s[i].kind # "failover" /\ port.Protocol \in {"http", "grpc"} =>
       s[i].path = PathFor(s[i].cluster, s[i].target, in)
  /\ SourceCert(s[i].cluster) # none => s[i].via = "tls"

Budget(s, retryCount) ==
  /\ Cardinality(KindOf(s, "retry")) <= retryCount
  /\ KindOf(s, "retry") # {} =>
       \E i \in DOMAIN s : Cardinality(KindOf(s, "retry")) <= NumRetries(s[i].cluster)
  /\ \A i, j \in KindOf(s, "failover") : s[i].pass = s[j].pass => i = j

\* What holds of the attempts in every state.
TriesInv(q) ==
  /\ IsTries(q.tries)
  /\ \A i \in DOMAIN q.tries : TryOK(q.tries, i, q.port, q.in)
  /\ \A i \in DOMAIN q.tries : q.tries[i].pass <= q.passes
  /\ \A i \in DOMAIN q.tries : q.tries[i].pass \in Nat
  /\ Budget(q.tries, q.retryCount)

\* A pass makes one first attempt, and so does a TCP connection.
FirstInv(q) ==
  Cardinality(KindOf(q.tries, "first")) <= IF q.pc \in {"piped", "closed"} THEN 1 ELSE q.passes

States == {"accept", "route", "replay", "upstream", "backoff", "standby", "tcp", "piped", "closed", "done"}

ReqType(q) ==
  /\ IsReq(q)
  /\ q.pc \in States
  /\ q.cluster \in DOMAIN ClustersConfigs \cup {none}
  /\ q.failoverCluster \in DOMAIN ClustersConfigs \cup {none}
  /\ q.passes \in 0..2
  /\ q.retryCount \in Nat
  /\ q.pc # "accept" => q.in \in Inputs
  /\ q.pc \in {"tcp", "piped", "closed"} => q.port.Protocol \notin {"http", "grpc"}

\* Before its first step a request has the context it was made with.
Fresh(q) ==
  /\ q.route = none /\ q.cluster = none /\ q.failoverCluster = none /\ q.origPath = none
  /\ q.clusterConfig = none /\ q.failoverObject = none /\ q.target = none /\ q.retryCount = 0
  /\ q.branch = "plain" /\ q.passes = 0 /\ q.tries = <<>>
  /\ q.pc # "accept" => q.path = q.in.path

\* Between routing and the last answer of a pass.
Routed(q) ==
  /\ q.passes \in 1..2
  /\ q.passes = 2 => q.failoverCluster = none
  /\ q.origPath = q.in.path
  /\ q.failoverCluster # none => q.failoverCluster # q.cluster
  /\ q.passes = 1 /\ q.route # none =>
       \E f \in failover(q.route.TargetClusters) : q.failoverCluster = clusterCache(f)

Balanced(q) ==
  /\ q.clusterConfig = q.cluster
  /\ q.branch \in {"plain", "retry", "failover"}
  /\ q.branch = "plain" => q.failoverObject = none
  /\ q.branch = "retry" => q.cluster # none
  /\ q.route = none => q.cluster = none
  /\ q.target # none => /\ Configured(q.cluster)
                        /\ IsEndpoint(q.cluster, q.target) \/ LeavesStandBy(q.tries)
  /\ q.target # none /\ q.branch # "failover" =>
       /\ IsEndpoint(q.cluster, q.target)
       /\ q.path = PathFor(q.cluster, q.target, q.in)
  /\ q.failoverObject # none => /\ Configured(q.cluster)
                                /\ IsEndpoint(q.cluster, q.failoverObject) \/ LeavesStandBy(q.tries)
  /\ q.failoverObject # none /\ q.branch = "retry" /\ q.target # none => LeavesStandBy(q.tries)

\* The endpoint that stands by is used once in a pass.
OneStandBy(q) ==
  \A i \in KindOf(q.tries, "failover") : q.tries[i].pass # q.passes

UpstreamInv(q) ==
  q.branch = "failover" =>
    IF q.failoverObject = none THEN KindOf(q.tries, "failover") # {} ELSE OneStandBy(q)

BackoffInv(q) ==
  /\ q.branch = "retry"
  /\ Cardinality(KindOf(q.tries, "retry")) < q.retryCount
  /\ q.retryCount <= NumRetries(q.cluster)

StandbyInv(q) ==
  q.branch = "failover" /\ q.failoverObject = none /\ q.target # none /\ OneStandBy(q)

ReplayInv(q) ==
  /\ q.passes = 1
  /\ q.failoverCluster # none
  /\ q.clusterConfig \in {q.cluster, none}
  /\ q.failoverObject # none => LeavesStandBy(q.tries)
  /\ q.branch = "failover" => KindOf(q.tries, "failover") # {}
  /\ q.route # none

DoneInv(q) ==
  Bad(q.status) =>
    /\ (\A f \in failover(q.route.TargetClusters) : clusterCache(f) # none) => q.passes = 2
    /\ q.branch = "failover" => KindOf(q.tries, "failover") # {}
    /\ /\ q.branch = "retry" /\ q.clusterConfig = q.cluster
       /\ q.status \in ClustersConfigs[q.clusterConfig].RetryOn
       => q.retryCount >= NumRetries(q.clusterConfig)

ReqInv(q) ==
  /\ ReqType(q)
  /\ TriesInv(q)
  /\ FirstInv(q)
  /\ q.pc \in {"accept", "route", "tcp"} => Fresh(q)
  /\ q.pc \in {"upstream", "backoff", "standby", "replay"} => Routed(q)
  /\ q.pc \in {"upstream", "backoff", "standby"} => Balanced(q)
  /\ q.pc = "upstream" => UpstreamInv(q)
  /\ q.pc = "backoff" => BackoffInv(q)
  /\ q.pc = "standby" => StandbyInv(q)
  /\ q.pc = "replay" => ReplayInv(q)
  /\ q.pc = "done" => DoneInv(q)

\* The inductive invariant of the pipelines.
PipelineInv ==
  /\ req = [r \in Requests |-> req[r]]
  /\ \A r \in Requests : ReqInv(req[r])
  /\ circuitBreakers \subseteq DOMAIN breaking

-----------------------------------------------------------------------------
(* A sequence of attempts and one more.                                    *)

\* Append leaves the attempts made before and adds one after them.
LEMMA AppendTries ==
  ASSUME NEW s, IsTries(s), NEW e
  PROVE  /\ IsTries(Append(s, e))
         /\ Len(s) \in Nat
         /\ DOMAIN s = 1..Len(s)
         /\ DOMAIN Append(s, e) = 1..(Len(s) + 1)
         /\ \A i \in 1..Len(s) : Append(s, e)[i] = s[i]
         /\ Append(s, e)[Len(s) + 1] = e
<1> DEFINE S == {s[i] : i \in DOMAIN s}
           T == S \cup {e}
           t == Append(s, e)
<1>1. s \in Seq(S)
  BY DEF IsTries
<1> HIDE DEF S
<1>2. s \in Seq(T) /\ e \in T
  BY <1>1
<1>3. Len(s) \in Nat /\ DOMAIN s = 1..Len(s)
  BY <1>1
<1> HIDE DEF T
<1>4. /\ t \in Seq(T)
      /\ Len(t) = Len(s) + 1
      /\ \A i \in 1..Len(s) : t[i] = s[i]
      /\ t[Len(s) + 1] = e
  BY <1>2
<1>5. DOMAIN t = 1..(Len(s) + 1) /\ t \in [1..(Len(s) + 1) -> T]
  <2> HIDE DEF t
  <2>1. DOMAIN t = 1..Len(t) /\ t \in [1..Len(t) -> T]
    BY <1>4
  <2> QED
    BY <1>4, <2>1, Zenon
<1> HIDE DEF t
<1>6. t \in [1..(Len(s) + 1) -> {t[i] : i \in DOMAIN t}]
  BY <1>5
<1>7. Len(s) + 1 \in Nat
  BY <1>3
<1>8. IsTries(t)
  BY <1>6, <1>7 DEF IsTries
<1> QED
  BY <1>3, <1>4, <1>5, <1>8 DEF t

\* What Append does to the attempts of a kind.
LEMMA AppendKind ==
  ASSUME NEW s, IsTries(s), NEW e, NEW kind
  PROVE  /\ KindOf(Append(s, e), kind) =
              IF e.kind = kind THEN KindOf(s, kind) \cup {Len(s) + 1} ELSE KindOf(s, kind)
         /\ Len(s) + 1 \notin KindOf(s, kind)
<1> DEFINE t == Append(s, e)
<1>1. /\ Len(s) \in Nat
      /\ DOMAIN s = 1..Len(s)
      /\ DOMAIN t = 1..(Len(s) + 1)
      /\ \A i \in 1..Len(s) : t[i] = s[i]
      /\ t[Len(s) + 1] = e
  BY AppendTries
<1> HIDE DEF t
<1>2. \A i : i \in DOMAIN t <=> i \in DOMAIN s \/ i = Len(s) + 1
  BY <1>1
<1>3. \A i : i \in KindOf(t, kind) <=> i \in KindOf(s, kind) \/ (i = Len(s) + 1 /\ e.kind = kind)
  BY <1>1, <1>2 DEF KindOf
<1>4. Len(s) + 1 \notin KindOf(s, kind)
  BY <1>1 DEF KindOf
<1> QED
  BY <1>3, <1>4 DEF t

\* How the attempts of a kind are counted: what the proofs below use of
\* Cardinality, shown from the theorems on finite sets where they end.
CountFacts ==
  /\ \A s, kind : IsTries(s) => Cardinality(KindOf(s, kind)) \in Nat
  /\ \A s, e, kind : IsTries(s) => Cardinality(KindOf(Append(s, e), kind)) =
                                     Cardinality(KindOf(s, kind)) + IF e.kind = kind THEN 1 ELSE 0
  /\ Cardinality({}) = 0

\* The attempts of a kind are finitely many.
LEMMA KindFinite ==
  ASSUME CountFacts, NEW s, IsTries(s), NEW kind
  PROVE  Cardinality(KindOf(s, kind)) \in Nat
BY Zenon DEF CountFacts

\* Append adds one to the number of attempts of its kind.
LEMMA AppendCount ==
  ASSUME CountFacts, NEW s, IsTries(s), NEW e, NEW kind
  PROVE  Cardinality(KindOf(Append(s, e), kind)) =
           Cardinality(KindOf(s, kind)) + IF e.kind = kind THEN 1 ELSE 0
BY Zenon DEF CountFacts

\* No attempts yet.
LEMMA NoTries ==
  ASSUME CountFacts, NEW kind
  PROVE  IsTries(<<>>) /\ DOMAIN <<>> = {} /\ KindOf(<<>>, kind) = {} /\ Cardinality(KindOf(<<>>, kind)) = 0
<1>1. DOMAIN <<>> = {} /\ IsTries(<<>>)
  BY DEF IsTries
<1>2. KindOf(<<>>, kind) = {}
  BY <1>1 DEF KindOf
<1> QED
  BY <1>1, <1>2, Zenon DEF CountFacts

\* What is known of the attempts made before stays so.
LEMMA AppendOK ==
  ASSUME NEW s, IsTries(s), NEW e, NEW port, NEW in,
         \A i \in DOMAIN s : TryOK(s, i, port, in),
         e.cluster = none \/ IsEndpoint(e.cluster, e.target) \/ LeavesStandBy(s),
         e.kind # "failover" /\ port.Protocol \in {"http", "grpc"} =>
           e.path = PathFor(e.cluster, e.target, in),
         SourceCert(e.cluster) # none => e.via = "tls"
  PROVE  \A i \in DOMAIN Append(s, e) : TryOK(Append(s, e), i, port, in)
<1> DEFINE t == Append(s, e)
<1>1. /\ Len(s) \in Nat
      /\ DOMAIN s = 1..Len(s)
      /\ DOMAIN t = 1..(Len(s) + 1)
      /\ \A i \in 1..Len(s) : t[i] = s[i]
      /\ t[Len(s) + 1] = e
  BY AppendTries
<1> HIDE DEF t
<1>2. ASSUME NEW i \in 1..Len(s) PROVE TryOK(t, i, port, in)
  <2>1. t[i] = s[i] /\ \A j \in 1..(i - 1) : t[j] = s[j]
    BY <1>1
  <2>2. TryOK(s, i, port, in)
    BY <1>1
  <2> QED
    BY <2>1, <2>2, Zenon DEF TryOK
<1>3. TryOK(t, Len(s) + 1, port, in)
  <2> DEFINE n == Len(s) + 1
  <2>1. LeavesStandBy(s) => \E j \in 1..(n - 1) : RetriesAndStandBy(t[j].cluster)
    BY <1>1 DEF LeavesStandBy
  <2>2. t[n] = e
    BY <1>1
  <2> HIDE DEF n
  <2>3. TryOK(t, n, port, in)
    BY <2>1, <2>2, Zenon DEF TryOK
  <2> QED
    BY <2>3 DEF n
<1>4. \A i \in DOMAIN t : i \in 1..Len(s) \/ i = Len(s) + 1
  BY <1>1
<1> QED
  BY <1>2, <1>3, <1>4 DEF t

\* A larger count leaves the budget.
LEMMA BudgetMore ==
  ASSUME NEW s, NEW m, NEW n, Budget(s, m), Cardinality(KindOf(s, "retry")) <= n
  PROVE  Budget(s, n)
BY Zenon DEF Budget

\* A first attempt takes nothing from the budget.
LEMMA BudgetFirst ==
  ASSUME NEW s, IsTries(s), NEW n \in Nat, Budget(s, n), NEW e, e.kind = "first"
  PROVE  Budget(Append(s, e), n)
<1> DEFINE t == Append(s, e)
<1>1. KindOf(t, "retry") = KindOf(s, "retry") /\ KindOf(t, "failover") = KindOf(s, "failover")
  BY AppendKind
<1>2. \A i \in DOMAIN s : i \in DOMAIN t /\ t[i] = s[i]
  BY AppendTries
<1>3. KindOf(s, "failover") \subseteq DOMAIN s
  BY DEF KindOf
<1> HIDE DEF t
<1> QED
  BY <1>1, <1>2, <1>3, Zenon DEF Budget, t

\* A retry that was counted stays within the budget of its cluster.
LEMMA BudgetRetry ==
  ASSUME CountFacts, NEW s, IsTries(s), NEW n \in Nat, Budget(s, n), NEW e, e.kind = "retry",
         Cardinality(KindOf(s, "retry")) < n, n <= NumRetries(e.cluster), NumRetries(e.cluster) \in Nat
  PROVE  Budget(Append(s, e), n)
<1> DEFINE t == Append(s, e)
<1>1. KindOf(t, "failover") = KindOf(s, "failover")
  BY AppendKind
<1>2. Cardinality(KindOf(t, "retry")) = Cardinality(KindOf(s, "retry")) + 1
  BY AppendCount
<1>3. Cardinality(KindOf(s, "retry")) \in Nat
  BY KindFinite
<1>4. \A i \in DOMAIN s : t[i] = s[i]
  BY AppendTries
<1>5. Len(s) + 1 \in DOMAIN t /\ t[Len(s) + 1] = e
  BY AppendTries
<1>6. KindOf(s, "failover") \subseteq DOMAIN s
  BY DEF KindOf
<1> HIDE DEF t
<1>7. Cardinality(KindOf(t, "retry")) <= n /\ Cardinality(KindOf(t, "retry")) <= NumRetries(e.cluster)
  BY <1>2, <1>3
<1>8. \A i, j \in KindOf(t, "failover") : t[i].pass = t[j].pass => i = j
  BY <1>1, <1>4, <1>6, Zenon DEF Budget
<1> QED
  BY <1>5, <1>7, <1>8, Zenon DEF Budget, t

\* The endpoint that stood by is used once in each pass.
LEMMA BudgetStandby ==
  ASSUME NEW s, IsTries(s), NEW n \in Nat, Budget(s, n), NEW e, e.kind = "failover",
         \A i \in KindOf(s, "failover") : s[i].pass # e.pass
  PROVE  Budget(Append(s, e), n)
<1> DEFINE t == Append(s, e)
<1>1. KindOf(t, "retry") = KindOf(s, "retry") /\ KindOf(t, "failover") = KindOf(s, "failover") \cup {Len(s) + 1}
  BY AppendKind
<1>2. \A i \in DOMAIN s : i \in DOMAIN t /\ t[i] = s[i]
  BY AppendTries
<1>3. t[Len(s) + 1] = e
  BY AppendTries
<1>4. KindOf(s, "failover") \subseteq DOMAIN s
  BY DEF KindOf
<1> HIDE DEF t
<1>5. \A i, j \in KindOf(t, "failover") : t[i].pass = t[j].pass => i = j
  <2> SUFFICES ASSUME NEW i \in KindOf(t, "failover"), NEW j \in KindOf(t, "failover"), t[i].pass = t[j].pass
               PROVE  i = j
    OBVIOUS
  <2>1. CASE i \in KindOf(s, "failover") /\ j \in KindOf(s, "failover")
    BY <1>2, <1>4, <2>1, Zenon DEF Budget
  <2>2. CASE i \in KindOf(s, "failover") /\ j = Len(s) + 1
    BY <1>2, <1>3, <1>4, <2>2, Zenon
  <2>3. CASE j \in KindOf(s, "failover") /\ i = Len(s) + 1
    BY <1>2, <1>3, <1>4, <2>3, Zenon
  <2> QED
    BY <1>1, <2>1, <2>2, <2>3, Zenon
<1> QED
  BY <1>1, <1>2, <1>5, Zenon DEF Budget, t

-----------------------------------------------------------------------------
(* connect-upstream.js.                                                    *)

\* A request after an attempt, with its attempts.
Tried(u, q, tries) ==
  /\ IsReq(u)
  /\ u.pc = "upstream" /\ u.in = q.in /\ u.port = q.port /\ u.route = q.route
  /\ u.cluster = q.cluster /\ u.failoverCluster = q.failoverCluster
  /\ u.origPath = q.origPath /\ u.path = q.path
  /\ u.clusterConfig = q.clusterConfig /\ u.failoverObject = q.failoverObject
  /\ u.target = q.target /\ u.retryCount = q.retryCount /\ u.branch = q.branch
  /\ u.passes = q.passes /\ u.status = q.status
  /\ u.tries = tries

\* What an attempt changes.
LEMMA TryFields ==
  ASSUME NEW q, IsReq(q), NEW cert, NEW tries, NEW u,
         u = [q EXCEPT !.cert = cert, !.pc = "upstream", !.tries = tries]
  PROVE  Tried(u, q, tries)
BY Zenon DEF IsReq, Tried

\* The pipeline 'upstream' changes the certificate and the attempts, and no
\* other field of the context.
LEMMA UpstreamFields ==
  ASSUME NEW q, IsReq(q), NEW kind, NEW u, u = Upstream(q, kind)
  PROVE  /\ IsReq(u)
         /\ u.pc = "upstream" /\ u.in = q.in /\ u.port = q.port /\ u.route = q.route
         /\ u.cluster = q.cluster /\ u.failoverCluster = q.failoverCluster
         /\ u.origPath = q.origPath /\ u.path = q.path
         /\ u.clusterConfig = q.clusterConfig /\ u.failoverObject = q.failoverObject
         /\ u.target = q.target /\ u.retryCount = q.retryCount /\ u.branch = q.branch
         /\ u.passes = q.passes /\ u.status = q.status
         /\ q.target = none => u.tries = q.tries
         /\ q.target # none =>
              \E e : /\ e.kind = kind /\ e.cluster = q.cluster /\ e.target = q.target
                     /\ e.path = q.path /\ e.pass = q.passes
                     /\ SourceCert(q.cluster) # none => e.via = "tls"
                     /\ u.tries = Append(q.tries, e)
<1> DEFINE cert  == IF q.cert = none THEN SourceCert(q.cluster) ELSE q.cert
           via   == connector(q, cert)
           try   == [kind |-> kind, cluster |-> q.cluster, target |-> q.target, path |-> q.path,
                     via |-> via, pass |-> q.passes]
           tries == IF q.target = none THEN q.tries ELSE Append(q.tries, try)
<1>1. u = [q EXCEPT !.cert = cert, !.pc = "upstream", !.tries = tries]
  BY Zenon DEF Upstream, IsReq
<1>2. SourceCert(q.cluster) # none => via = "tls"
  BY Zenon DEF connector
<1> HIDE DEF cert, via
<1>3. /\ try.kind = kind /\ try.cluster = q.cluster /\ try.target = q.target
      /\ try.path = q.path /\ try.pass = q.passes
      /\ SourceCert(q.cluster) # none => try.via = "tls"
  BY <1>2
<1> HIDE DEF try
<1>4. /\ q.target = none => tries = q.tries
      /\ q.target # none => tries = Append(q.tries, try)
  BY Zenon
<1> HIDE DEF tries
<1>6. Tried(u, q, tries)
  BY <1>1, TryFields, Zenon
<1>5. /\ IsReq(u)
      /\ u.pc = "upstream" /\ u.in = q.in /\ u.port = q.port /\ u.route = q.route
      /\ u.cluster = q.cluster /\ u.failoverCluster = q.failoverCluster
      /\ u.origPath = q.origPath /\ u.path = q.path
      /\ u.clusterConfig = q.clusterConfig /\ u.failoverObject = q.failoverObject
      /\ u.target = q.target /\ u.retryCount = q.retryCount /\ u.branch = q.branch
      /\ u.passes = q.passes /\ u.status = q.status
      /\ u.tries = tries
  BY <1>6, Zenon DEF Tried
<1> QED
  BY <1>3, <1>4, <1>5, Zenon

\* An attempt at an endpoint of the cluster, or at one left standing by, with
\* the right path and within the budget, leaves the attempts sound.
LEMMA UpstreamTries ==
  ASSUME CountFacts, NEW q, IsReq(q), TriesInv(q), q.passes \in Nat, q.retryCount \in Nat,
         NEW kind \in {"first", "retry", "failover"}, NEW u, u = Upstream(q, kind),
         q.target # none => \/ q.cluster = none
                            \/ IsEndpoint(q.cluster, q.target)
                            \/ LeavesStandBy(q.tries),
         q.target # none /\ kind # "failover" /\ q.port.Protocol \in {"http", "grpc"} =>
           q.path = PathFor(q.cluster, q.target, q.in),
         kind = "retry" => /\ Cardinality(KindOf(q.tries, "retry")) < q.retryCount
                           /\ q.retryCount <= NumRetries(q.cluster)
                           /\ NumRetries(q.cluster) \in Nat,
         kind = "failover" => OneStandBy(q)
  PROVE  /\ TriesInv(u)
         /\ LeavesStandBy(q.tries) => LeavesStandBy(u.tries)
         /\ q.target # none /\ RetriesAndStandBy(q.cluster) => LeavesStandBy(u.tries)
         /\ kind # "failover" => KindOf(u.tries, "failover") = KindOf(q.tries, "failover")
         /\ kind # "failover" /\ OneStandBy(q) => OneStandBy(u)
         /\ kind = "failover" /\ q.target # none => KindOf(u.tries, "failover") # {}
         /\ Cardinality(KindOf(u.tries, "first")) <=
              Cardinality(KindOf(q.tries, "first")) + IF kind = "first" THEN 1 ELSE 0
<1>1. u.passes = q.passes /\ u.retryCount = q.retryCount /\ u.port = q.port /\ u.in = q.in
  BY UpstreamFields
<1>2. IsTries(q.tries) /\ Budget(q.tries, q.retryCount)
  BY Zenon DEF TriesInv
<1>3. Cardinality(KindOf(q.tries, "first")) \in Nat
  BY <1>2, KindFinite, Zenon
<1>4. CASE q.target = none
  <2>1. u.tries = q.tries
    BY <1>4, UpstreamFields
  <2>2. TriesInv(u)
    BY <1>1, <2>1, Zenon DEF TriesInv
  <2>3. OneStandBy(q) => OneStandBy(u)
    BY <1>1, <2>1, Zenon DEF OneStandBy
  <2> QED
    BY <1>3, <1>4, <2>1, <2>2, <2>3
<1>5. CASE q.target # none
  <2>1. PICK e : /\ e.kind = kind /\ e.cluster = q.cluster /\ e.target = q.target
                 /\ e.path = q.path /\ e.pass = q.passes
                 /\ SourceCert(q.cluster) # none => e.via = "tls"
                 /\ u.tries = Append(q.tries, e)
    <3>1. q.target # none =>
            \E e : /\ e.kind = kind /\ e.cluster = q.cluster /\ e.target = q.target
                   /\ e.path = q.path /\ e.pass = q.passes
                   /\ SourceCert(q.cluster) # none => e.via = "tls"
                   /\ u.tries = Append(q.tries, e)
      BY UpstreamFields
    <3> QED
      BY <1>5, <3>1, Zenon
  <2> DEFINE s == q.tries
             t == u.tries
  <2>2. /\ IsTries(t)
        /\ Len(s) \in Nat
        /\ DOMAIN s = 1..Len(s)
        /\ DOMAIN t = 1..(Len(s) + 1)
        /\ \A i \in 1..Len(s) : t[i] = s[i]
        /\ t[Len(s) + 1] = e
    BY <1>2, <2>1, AppendTries
  <2>3. \A i \in DOMAIN t : TryOK(t, i, q.port, q.in)
    <3>1. e.cluster = none \/ IsEndpoint(e.cluster, e.target) \/ LeavesStandBy(s)
      BY <1>5, <2>1, Zenon
    <3>2. e.kind # "failover" /\ q.port.Protocol \in {"http", "grpc"} => e.path = PathFor(e.cluster, e.target, q.in)
      BY <1>5, <2>1, Zenon
    <3>3. SourceCert(e.cluster) # none => e.via = "tls"
      BY <2>1, Zenon
    <3>4. \A i \in DOMAIN s : TryOK(s, i, q.port, q.in)
      BY Zenon DEF TriesInv
    <3>5. \A i \in DOMAIN Append(s, e) : TryOK(Append(s, e), i, q.port, q.in)
      BY <1>2, <3>1, <3>2, <3>3, <3>4, AppendOK, Zenon
    <3> QED
      BY <2>1, <3>5
  <2>4. Budget(t, q.retryCount)
    <3>1. CASE kind = "first"
      BY <1>2, <2>1, <3>1, BudgetFirst, Zenon
    <3>2. CASE kind = "retry"
      BY <1>2, <2>1, <3>2, BudgetRetry, Zenon
    <3>3. CASE kind = "failover"
      <4>1. \A i \in KindOf(s, "failover") : s[i].pass # e.pass
        BY <2>1, <3>3, Zenon DEF OneStandBy
      <4> QED
        BY <1>2, <2>1, <3>3, <4>1, BudgetStandby
    <3> QED
      BY <3>1, <3>2, <3>3, Zenon
  <2>5. \A i \in DOMAIN t : t[i].pass \in Nat /\ t[i].pass <= q.passes
    <3>1. \A i \in DOMAIN s : s[i].pass \in Nat /\ s[i].pass <= q.passes
      BY Zenon DEF TriesInv
    <3>2. e.pass \in Nat /\ e.pass <= q.passes
      BY <2>1
    <3> HIDE DEF s, t
    <3>3. \A i \in DOMAIN t : i \in DOMAIN s \/ i = Len(s) + 1
      BY <2>2
    <3> QED
      BY <2>2, <3>1, <3>2, <3>3
  <2>6. TriesInv(u)
    BY <1>1, <2>2, <2>3, <2>4, <2>5, Zenon DEF TriesInv
  <2>7. LeavesStandBy(s) => LeavesStandBy(t)
    <3> HIDE DEF s, t
    <3>1. \A i \in DOMAIN s : i \in DOMAIN t /\ t[i] = s[i]
      BY <2>2
    <3> QED
      BY <3>1, Zenon DEF LeavesStandBy
  <2>8. RetriesAndStandBy(q.cluster) => LeavesStandBy(t)
    <3> HIDE DEF s, t
    <3>1. Len(s) + 1 \in DOMAIN t
      BY <2>2
    <3> QED
      BY <2>1, <2>2, <3>1, Zenon DEF LeavesStandBy
  <2>9. kind # "failover" => KindOf(t, "failover") = KindOf(s, "failover")
    BY <1>2, <2>1, AppendKind
  <2>10. kind # "failover" /\ OneStandBy(q) => OneStandBy(u)
    <3>1. \A i \in KindOf(s, "failover") : t[i] = s[i]
      BY <2>2 DEF KindOf
    <3> QED
      BY <1>1, <2>9, <3>1, Zenon DEF OneStandBy
  <2>11. kind = "failover" => KindOf(t, "failover") # {}
    <3>1. kind = "failover" => KindOf(t, "failover") = KindOf(s, "failover") \cup {Len(s) + 1}
      BY <1>2, <2>1, AppendKind
    <3> QED
      BY <3>1, Zenon
  <2>12. Cardinality(KindOf(t, "first")) = Cardinality(KindOf(s, "first")) + IF kind = "first" THEN 1 ELSE 0
    BY <1>2, <2>1, AppendCount
  <2>13. Cardinality(KindOf(t, "first")) <= Cardinality(KindOf(s, "first")) + IF kind = "first" THEN 1 ELSE 0
    BY <1>3, <2>12
  <2> QED
    BY <2>6, <2>7, <2>8, <2>9, <2>10, <2>11, <2>13, Zenon
<1> QED
  BY <1>4, <1>5, Zenon

-----------------------------------------------------------------------------
(* outbound-http-routing.js.                                               *)

\* A message on its way from routing to load balancing.
Sending(q) ==
  /\ IsReq(q)
  /\ q.in \in Inputs
  /\ q.cluster \in DOMAIN ClustersConfigs \cup {none}
  /\ q.failoverCluster \in DOMAIN ClustersConfigs \cup {none}
  /\ q.retryCount \in Nat
  /\ q.path = q.in.path
  /\ Routed(q)
  /\ TriesInv(q)
  /\ \A i \in DOMAIN q.tries : q.tries[i].pass # q.passes
  /\ Cardinality(KindOf(q.tries, "first")) < q.passes
  /\ q.route = none => q.cluster = none
  /\ q.cluster = none => q.target = none /\ q.failoverObject = none
  /\ q.cluster # none => q.clusterConfig # q.cluster
  /\ q.passes = 1 => q.clusterConfig = none
  /\ q.failoverObject # none => LeavesStandBy(q.tries)
  /\ q.branch = "failover" => KindOf(q.tries, "failover") # {}

\* What routing leaves of the context q in the context p.
SameRequest(p, q) ==
  /\ IsReq(p)
  /\ p.in = q.in /\ p.port = q.port /\ p.clusterConfig = q.clusterConfig
  /\ p.failoverObject = q.failoverObject /\ p.target = q.target /\ p.retryCount = q.retryCount
  /\ p.branch = q.branch /\ p.tries = q.tries

\* A request before it is routed.
Restarted(p, q, path, origPath, passes) ==
  /\ SameRequest(p, q)
  /\ p.passes = passes /\ p.path = path /\ p.origPath = origPath
  /\ p.route = q.route /\ p.cluster = q.cluster /\ p.failoverCluster = q.failoverCluster

\* What the handler of the replayed message does before it routes.
LEMMA ResetFields ==
  ASSUME NEW q, IsReq(q), NEW path, NEW origPath, NEW passes, NEW p,
         p = [q EXCEPT !.path = path, !.origPath = origPath, !.passes = passes]
  PROVE  Restarted(p, q, path, origPath, passes)
BY Zenon DEF Restarted, SameRequest, IsReq

\* The handler of the replayed message resets the path and counts the pass.
LEMMA RouteFields ==
  ASSUME NEW q, IsReq(q), NEW p \in RouteMessage(q)
  PROVE  /\ SameRequest(p, q)
         /\ p.passes = q.passes + 1
         /\ p.path = IF q.origPath = none THEN q.path ELSE q.origPath
         /\ p.origPath = IF q.origPath = none THEN q.path ELSE q.origPath
         /\ q.failoverCluster # none =>
              p.route = q.route /\ p.cluster = q.failoverCluster /\ p.failoverCluster = none
         /\ q.failoverCluster = none =>
              \/ p.route = q.route /\ p.cluster = q.cluster /\ p.failoverCluster = q.failoverCluster
              \/ /\ p.route # none
                 /\ \E c \in NextTarget(p.route.TargetClusters), f \in failover(p.route.TargetClusters) :
                      p.cluster = clusterCache(c) /\ p.failoverCluster = clusterCache(f)
<1> DEFINE path == IF q.origPath = none THEN q.path ELSE q.origPath
           p0   == [q EXCEPT !.path = IF q.origPath = none THEN @ ELSE q.origPath,
                             !.origPath = IF @ = none THEN q.path ELSE @,
                             !.passes = @ + 1]
<1>1. RouteMessage(q) = IF q.failoverCluster # none
                          THEN {[p0 EXCEPT !.cluster = q.failoverCluster, !.failoverCluster = none]}
                          ELSE serviceHandler(p0)
  BY Zenon DEF RouteMessage
<1>6. Restarted(p0, q, IF q.origPath = none THEN q.path ELSE q.origPath,
                IF q.origPath = none THEN q.path ELSE q.origPath, q.passes + 1)
  BY ResetFields, Zenon
<1>2. /\ SameRequest(p0, q)
      /\ p0.passes = q.passes + 1 /\ p0.path = path /\ p0.origPath = path
      /\ p0.route = q.route /\ p0.cluster = q.cluster /\ p0.failoverCluster = q.failoverCluster
  BY <1>6, Zenon DEF Restarted
<1> HIDE DEF p0, path
<1>3. IsReq(p0)
  BY <1>2, Zenon DEF SameRequest
<1>4. CASE q.failoverCluster # none
  <2>1. p = [p0 EXCEPT !.cluster = q.failoverCluster, !.failoverCluster = none]
    BY <1>1, <1>4, Zenon
  <2>2. /\ SameRequest(p, p0)
        /\ p.passes = p0.passes /\ p.path = p0.path /\ p.origPath = p0.origPath
        /\ p.route = p0.route /\ p.cluster = q.failoverCluster /\ p.failoverCluster = none
    BY <1>3, <2>1, Zenon DEF SameRequest, IsReq
  <2> QED
    BY <1>2, <1>4, <2>2, Zenon DEF path, SameRequest
<1>5. CASE q.failoverCluster = none
  <2>1. p \in serviceHandler(p0)
    BY <1>1, <1>5, Zenon
  <2>2. CASE p = p0
    BY <1>2, <1>5, <2>2, Zenon DEF path
  <2>3. CASE p # p0
    <3> DEFINE rule == FindRule(p0.port, p0.in.host, p0.in.method, p0.path)
               Ruled(c, f) == [p0 EXCEPT !.route = rule, !.cluster = clusterCache(c),
                                         !.failoverCluster = clusterCache(f)]
    <3>1. serviceHandler(p0) =
            IF rule = none THEN {p0}
            ELSE {Ruled(c, f) : c \in NextTarget(rule.TargetClusters), f \in failover(rule.TargetClusters)}
      BY DEF serviceHandler
    <3> HIDE DEF rule, Ruled
    <3>2. rule # none
      BY <2>1, <2>3, <3>1
    <3>3. PICK c \in NextTarget(rule.TargetClusters), f \in failover(rule.TargetClusters) : p = Ruled(c, f)
      BY <2>1, <3>1, <3>2
    <3>4. /\ SameRequest(p, p0)
          /\ p.passes = p0.passes /\ p.path = p0.path /\ p.origPath = p0.origPath
          /\ p.route = rule /\ p.cluster = clusterCache(c) /\ p.failoverCluster = clusterCache(f)
      BY <1>3, <3>3, Zenon DEF Ruled, SameRequest, IsReq
    <3> QED
      BY <1>2, <1>5, <3>2, <3>3, <3>4, Zenon DEF path, SameRequest
  <2> QED
    BY <2>2, <2>3
<1> QED
  BY <1>4, <1>5

\* A cluster that stands by is not one that takes its turn.
LEMMA StandByDiffers ==
  ASSUME NEW w, NEW c \in NextTarget(w), NEW f \in failover(w), clusterCache(f) # none
  PROVE  clusterCache(f) # clusterCache(c)
<1>1. f \in DOMAIN ClustersConfigs /\ clusterCache(f) = f /\ f # none
  BY ConfigAssumption DEF clusterCache
<1>2. f \in DOMAIN w /\ w[f] = 0
  BY <1>1 DEF failover, OrNone
<1>3. c = none \/ (c \in DOMAIN w /\ w[c] > 0)
  BY DEF NextTarget, OrNone
<1>4. CASE c = none
  BY <1>1, <1>4, ConfigAssumption DEF clusterCache
<1>5. CASE c \in DOMAIN w /\ w[c] > 0
  <2>1. c # f
    BY <1>2, <1>5
  <2> QED
    BY <1>1, <2>1 DEF clusterCache
<1> QED
  BY <1>3, <1>4, <1>5

\* The first message of a request is routed by the rules of its service.
LEMMA RouteFirst ==
  ASSUME CountFacts, NEW q, ReqInv(q), q.pc = "route", NEW p \in RouteMessage(q)
  PROVE  Sending(p)
<1>1. IsReq(q) /\ q.in \in Inputs /\ q.retryCount \in Nat
  BY Zenon DEF ReqInv, ReqType
<1>2. /\ q.route = none /\ q.cluster = none /\ q.failoverCluster = none /\ q.origPath = none
      /\ q.clusterConfig = none /\ q.failoverObject = none /\ q.target = none /\ q.retryCount = 0
      /\ q.branch = "plain" /\ q.passes = 0 /\ q.tries = <<>> /\ q.path = q.in.path
  BY Zenon DEF ReqInv, Fresh
<1>3. /\ SameRequest(p, q)
      /\ p.passes = q.passes + 1
      /\ p.path = IF q.origPath = none THEN q.path ELSE q.origPath
      /\ p.origPath = IF q.origPath = none THEN q.path ELSE q.origPath
  BY <1>1, RouteFields, Zenon
<1>4. \/ p.route = q.route /\ p.cluster = q.cluster /\ p.failoverCluster = q.failoverCluster
      \/ /\ p.route # none
         /\ \E c \in NextTarget(p.route.TargetClusters), f \in failover(p.route.TargetClusters) :
              p.cluster = clusterCache(c) /\ p.failoverCluster = clusterCache(f)
  BY <1>1, <1>2, RouteFields, Zenon
<1>5. /\ IsReq(p) /\ p.in = q.in /\ p.port = q.port /\ p.clusterConfig = none
      /\ p.failoverObject = none /\ p.target = none /\ p.retryCount = 0
      /\ p.branch = "plain" /\ p.tries = <<>>
  BY <1>2, <1>3, Zenon DEF SameRequest
<1>6. p.passes = 1 /\ p.path = p.in.path /\ p.origPath = p.in.path
  BY <1>2, <1>3, <1>5
<1>7. \A n : clusterCache(n) \in DOMAIN ClustersConfigs \cup {none}
  BY DEF clusterCache
<1>8. /\ p.cluster \in DOMAIN ClustersConfigs \cup {none}
      /\ p.failoverCluster \in DOMAIN ClustersConfigs \cup {none}
  BY <1>2, <1>4, <1>7, Zenon
<1>9. p.route = none => p.cluster = none
  BY <1>2, <1>4, Zenon
<1>10. Routed(p)
  <2>1. p.failoverCluster # none => p.failoverCluster # p.cluster
    BY <1>2, <1>4, StandByDiffers
  <2>2. p.route # none => \E f \in failover(p.route.TargetClusters) : p.failoverCluster = clusterCache(f)
    BY <1>2, <1>4, Zenon
  <2> QED
    BY <1>6, <2>1, <2>2 DEF Routed
<1>11. IsTries(p.tries) /\ DOMAIN p.tries = {} /\ \A kind : KindOf(p.tries, kind) = {} /\ Cardinality(KindOf(p.tries, kind)) = 0
  BY <1>5, NoTries, Zenon
<1>12. Budget(p.tries, p.retryCount)
  BY <1>5, <1>11 DEF Budget
<1>13. TriesInv(p)
  BY <1>11, <1>12, Zenon DEF TriesInv
<1>14. Cardinality(KindOf(p.tries, "first")) < p.passes
  BY <1>6, <1>11
<1>15. p.cluster # none => p.clusterConfig # p.cluster
  BY <1>5
<1>16. p.branch # "failover"
  BY <1>5
<1>17. p.in \in Inputs /\ p.retryCount \in Nat
  BY <1>1, <1>5
<1> QED
  BY <1>5, <1>6, <1>8, <1>9, <1>10, <1>11, <1>13, <1>14, <1>15, <1>16, <1>17, Zenon DEF Sending

\* The second pass of a request goes to the failover cluster.
LEMMA RouteAgain ==
  ASSUME CountFacts, NEW q, ReqInv(q), q.pc = "replay", NEW p \in RouteMessage(q)
  PROVE  Sending(p)
<1>1. /\ IsReq(q) /\ q.in \in Inputs /\ q.retryCount \in Nat
      /\ q.failoverCluster \in DOMAIN ClustersConfigs \cup {none}
  BY DEF ReqInv, ReqType
<1>2. TriesInv(q) /\ Cardinality(KindOf(q.tries, "first")) <= q.passes
  BY Zenon DEF ReqInv, FirstInv
<1>3. q.origPath = q.in.path /\ q.failoverCluster # q.cluster
  BY Zenon DEF ReqInv, Routed, ReplayInv
<1>4. /\ q.passes = 1
      /\ q.failoverCluster # none
      /\ q.clusterConfig \in {q.cluster, none}
      /\ q.failoverObject # none => LeavesStandBy(q.tries)
      /\ q.branch = "failover" => KindOf(q.tries, "failover") # {}
      /\ q.route # none
  BY Zenon DEF ReqInv, ReplayInv
<1>5. /\ SameRequest(p, q)
      /\ p.passes = q.passes + 1
      /\ p.path = IF q.origPath = none THEN q.path ELSE q.origPath
      /\ p.origPath = IF q.origPath = none THEN q.path ELSE q.origPath
      /\ p.route = q.route /\ p.cluster = q.failoverCluster /\ p.failoverCluster = none
  BY <1>1, <1>4, RouteFields, Zenon
<1>6. /\ IsReq(p) /\ p.in = q.in /\ p.port = q.port /\ p.clusterConfig = q.clusterConfig
      /\ p.failoverObject = q.failoverObject /\ p.target = q.target /\ p.retryCount = q.retryCount
      /\ p.branch = q.branch /\ p.tries = q.tries
  BY <1>5, Zenon DEF SameRequest
<1>7. p.passes = 2 /\ p.path = p.in.path /\ p.origPath = p.in.path
  BY <1>1, <1>3, <1>4, <1>5, <1>6, ConfigAssumption
<1>8. Routed(p)
  BY <1>5, <1>7 DEF Routed
<1>9. /\ \A i \in DOMAIN p.tries : p.tries[i].pass # p.passes
      /\ \A i \in DOMAIN p.tries : p.tries[i].pass <= p.passes
  <2>1. \A i \in DOMAIN q.tries : q.tries[i].pass \in Nat /\ q.tries[i].pass <= 1
    BY <1>2, <1>4 DEF TriesInv
  <2> QED
    BY <1>6, <1>7, <2>1
<1>10. TriesInv(p)
  BY <1>2, <1>6, <1>9, Zenon DEF TriesInv
<1>11. Cardinality(KindOf(p.tries, "first")) < p.passes
  <2>1. Cardinality(KindOf(q.tries, "first")) \in Nat
    BY <1>2, KindFinite, Zenon DEF TriesInv
  <2> QED
    BY <1>2, <1>4, <1>6, <1>7, <2>1
<1>12. p.cluster # none /\ p.clusterConfig # p.cluster /\ p.route # none /\ p.passes # 1
  BY <1>3, <1>4, <1>5, <1>6, <1>7
<1> QED
  BY <1>1, <1>4, <1>5, <1>6, <1>7, <1>8, <1>9, <1>10, <1>11, <1>12, Zenon DEF Sending

\* An answer changes the state of the request and the status it is told.
LEMMA ClusterAnswerFields ==
  ASSUME NEW q, IsReq(q), NEW status, NEW u, u = ClusterAnswer(q, status)
  PROVE  /\ SameRequest(u, q)
         /\ u.route = q.route /\ u.cluster = q.cluster /\ u.failoverCluster = q.failoverCluster
         /\ u.origPath = q.origPath /\ u.passes = q.passes
         /\ q.failoverCluster # none /\ Bad(status) => u.pc = "replay"
         /\ ~(q.failoverCluster # none /\ Bad(status)) => u.pc = "done" /\ u.status = status
<1>1. CASE q.failoverCluster # none /\ Bad(status)
  <2>1. u = [q EXCEPT !.pc = "replay"]
    BY <1>1, Zenon DEF ClusterAnswer
  <2> QED
    BY <1>1, <2>1, Zenon DEF SameRequest, IsReq
<1>2. CASE ~(q.failoverCluster # none /\ Bad(status))
  <2>1. u = [q EXCEPT !.pc = "done", !.status = status]
    BY <1>2, Zenon DEF ClusterAnswer
  <2> QED
    BY <1>2, <2>1, Zenon DEF SameRequest, IsReq
<1> QED
  BY <1>1, <1>2

\* What routing does with an answer, after which nothing is left to try in
\* the pass.
LEMMA ClusterAnswerOK ==
  ASSUME NEW q, IsReq(q), q.in \in Inputs, q.retryCount \in Nat,
         q.cluster \in DOMAIN ClustersConfigs \cup {none},
         q.failoverCluster \in DOMAIN ClustersConfigs \cup {none},
         Routed(q), TriesInv(q), Cardinality(KindOf(q.tries, "first")) <= q.passes,
         NEW status, NEW u, u = ClusterAnswer(q, status),
         Bad(status) => q.route # none,
         Bad(status) /\ q.failoverCluster # none => q.clusterConfig \in {q.cluster, none},
         Bad(status) /\ q.failoverObject # none => LeavesStandBy(q.tries),
         Bad(status) /\ q.branch = "failover" => KindOf(q.tries, "failover") # {},
         Bad(status) /\ q.branch = "retry" /\ q.clusterConfig = q.cluster
           /\ status \in ClustersConfigs[q.clusterConfig].RetryOn => q.retryCount >= NumRetries(q.clusterConfig)
  PROVE  ReqInv(u)
<1>1. /\ SameRequest(u, q)
      /\ u.route = q.route /\ u.cluster = q.cluster /\ u.failoverCluster = q.failoverCluster
      /\ u.origPath = q.origPath /\ u.passes = q.passes
      /\ q.failoverCluster # none /\ Bad(status) => u.pc = "replay"
      /\ ~(q.failoverCluster # none /\ Bad(status)) => u.pc = "done" /\ u.status = status
  BY ClusterAnswerFields
<1>2. /\ IsReq(u) /\ u.in = q.in /\ u.port = q.port /\ u.clusterConfig = q.clusterConfig
      /\ u.failoverObject = q.failoverObject /\ u.target = q.target /\ u.retryCount = q.retryCount
      /\ u.branch = q.branch /\ u.tries = q.tries
  BY <1>1, Zenon DEF SameRequest
<1>3. u.pc \in {"replay", "done"}
  BY <1>1
<1>4. ReqType(u)
  <2>1. q.passes \in 0..2
    BY DEF Routed
  <2>2. u.pc \in States /\ u.pc \notin {"tcp", "piped", "closed"}
    BY <1>3 DEF States
  <2> QED
    BY <1>1, <1>2, <2>1, <2>2, Zenon DEF ReqType
<1>5. TriesInv(u)
  BY <1>1, <1>2, Zenon DEF TriesInv
<1>6. FirstInv(u)
  <2>1. u.pc \notin {"piped", "closed"}
    BY <1>3, Zenon
  <2> QED
    BY <1>1, <1>2, <2>1, Zenon DEF FirstInv
<1>7. CASE q.failoverCluster # none /\ Bad(status)
  <2>1. u.pc = "replay"
    BY <1>1, <1>7, Zenon
  <2>2. q.passes = 1
    BY <1>7 DEF Routed
  <2>3. Routed(u)
    BY <1>1, <1>2, Zenon DEF Routed
  <2>4. ReplayInv(u)
    BY <1>1, <1>2, <1>7, <2>2, Zenon DEF ReplayInv
  <2> QED
    BY <1>4, <1>5, <1>6, <2>1, <2>3, <2>4, Zenon DEF ReqInv
<1>8. CASE ~(q.failoverCluster # none /\ Bad(status))
  <2>1. u.pc = "done" /\ u.status = status
    BY <1>1, <1>8
  <2>2. DoneInv(u)
    <3> SUFFICES ASSUME Bad(status) PROVE DoneInv(u)
      BY <2>1, Zenon DEF DoneInv
    <3>1. q.failoverCluster = none
      BY <1>8
    <3>2. (\A f \in failover(u.route.TargetClusters) : clusterCache(f) # none) => u.passes = 2
      <4>1. q.passes = 1 \/ q.passes = 2
        BY DEF Routed
      <4>2. q.passes = 1 => \E f \in failover(q.route.TargetClusters) : clusterCache(f) = none
        BY <3>1, Zenon DEF Routed
      <4> QED
        BY <1>1, <4>1, <4>2, Zenon
    <3>3. u.branch = "failover" => KindOf(u.tries, "failover") # {}
      BY <1>2, Zenon
    <3>4. /\ u.branch = "retry" /\ u.clusterConfig = u.cluster
          /\ u.status \in ClustersConfigs[u.clusterConfig].RetryOn
          => u.retryCount >= NumRetries(u.clusterConfig)
      BY <1>1, <1>2, <2>1, Zenon
    <3> QED
      BY <3>2, <3>3, <3>4, Zenon DEF DoneInv
  <2> QED
    BY <1>4, <1>5, <1>6, <2>1, <2>2, Zenon DEF ReqInv
<1> QED
  BY <1>7, <1>8, Zenon

-----------------------------------------------------------------------------
(* outbound-http-load-balancing.js.                                        *)

\* The endpoints that may stand by once load balancing has looked for one.
StandBy(q) ==
  IF failover(EndpointWeights(q.cluster)) = {none} THEN {q.failoverObject}
  ELSE failover(EndpointWeights(q.cluster))

\* The branch of load balancing.
BranchFor(c, f) == IF NumRetries(c) > 0 THEN "retry" ELSE IF f # none THEN "failover" ELSE "plain"

\* The path of an endpoint.
PrefixOf(c, t) == IF t = none THEN <<>> ELSE ClustersConfigs[c].Endpoints[t].Path

\* The context with the endpoint t chosen and f standing by.
Chosen(q, f, t) ==
  [q EXCEPT !.clusterConfig = q.cluster, !.failoverObject = f, !.target = t,
            !.isEgress = @ \/ PrefixOf(q.cluster, t) # <<>>,
            !.path = PrefixOf(q.cluster, t) \o @,
            !.branch = BranchFor(q.cluster, f)]

\* The choices of the load balancer.
LEMMA ChoicesOf ==
  ASSUME NEW q, q.cluster # none
  PROVE  ChooseTarget(q) = {Chosen(q, f, t) : f \in StandBy(q), t \in NextTarget(EndpointWeights(q.cluster))}
BY SMT DEF ChooseTarget, StandBy, BranchFor, PrefixOf, Chosen

\* What load balancing leaves of the context q in the context p.
SameRoute(p, q) ==
  /\ IsReq(p)
  /\ p.in = q.in /\ p.port = q.port /\ p.route = q.route /\ p.cluster = q.cluster
  /\ p.failoverCluster = q.failoverCluster /\ p.origPath = q.origPath
  /\ p.retryCount = q.retryCount /\ p.passes = q.passes /\ p.tries = q.tries

\* The choice of the load balancer.
LEMMA ChooseFields ==
  ASSUME NEW q, IsReq(q), NEW p \in ChooseTarget(q)
  PROVE  /\ SameRoute(p, q)
         /\ p.clusterConfig = q.cluster
         /\ q.cluster = none => /\ p.failoverObject = q.failoverObject /\ p.target = q.target
                                /\ p.branch = BranchFor(none, q.failoverObject)
         /\ q.cluster # none =>
              /\ p.failoverObject \in StandBy(q)
              /\ p.target \in NextTarget(EndpointWeights(q.cluster))
              /\ p.branch = BranchFor(q.cluster, p.failoverObject)
              /\ p.target # none => p.path = ClustersConfigs[q.cluster].Endpoints[p.target].Path \o q.path
<1>1. CASE q.cluster = none
  <2> DEFINE branch == BranchFor(none, q.failoverObject)
  <2>1. ChooseTarget(q) = {[q EXCEPT !.clusterConfig = none, !.branch = branch]}
    BY <1>1, SMT DEF ChooseTarget, BranchFor
  <2> HIDE DEF branch
  <2>2. p = [q EXCEPT !.clusterConfig = none, !.branch = branch]
    BY <2>1, Zenon
  <2>3. SameRoute(p, q) /\ p.clusterConfig = none /\ p.branch = branch
        /\ p.failoverObject = q.failoverObject /\ p.target = q.target
    BY <2>2, Zenon DEF SameRoute, IsReq
  <2> QED
    BY <1>1, <2>3, Zenon DEF branch
<1>2. CASE q.cluster # none
  <2>1. ChooseTarget(q) = {Chosen(q, f, t) : f \in StandBy(q), t \in NextTarget(EndpointWeights(q.cluster))}
    BY <1>2, ChoicesOf
  <2>2. PICK f \in StandBy(q), t \in NextTarget(EndpointWeights(q.cluster)) : p = Chosen(q, f, t)
    BY <2>1
  <2>3. /\ SameRoute(p, q) /\ p.clusterConfig = q.cluster
        /\ p.failoverObject = f /\ p.target = t /\ p.branch = BranchFor(q.cluster, f)
        /\ p.path = PrefixOf(q.cluster, t) \o q.path
    BY <2>2, Zenon DEF Chosen, SameRoute, IsReq
  <2>4. t # none => PrefixOf(q.cluster, t) = ClustersConfigs[q.cluster].Endpoints[t].Path
    BY Zenon DEF PrefixOf
  <2> QED
    BY <1>2, <2>2, <2>3, <2>4, Zenon
<1> QED
  BY <1>1, <1>2, Zenon

\* What the load balancer knows of its choice.
LEMMA ChooseOK ==
  ASSUME NEW q, Sending(q), NEW p \in ChooseTarget(q)
  PROVE  /\ p.branch \in {"plain", "retry", "failover"}
         /\ p.branch = "plain" => p.failoverObject = none
         /\ p.branch = "retry" => NumRetries(q.cluster) > 0 /\ q.cluster # none
         /\ p.branch = "failover" => p.failoverObject # none
         /\ p.target # none => /\ Configured(q.cluster)
                               /\ q.route # none
                               /\ IsEndpoint(q.cluster, p.target)
                               /\ p.path = PathFor(q.cluster, p.target, q.in)
         /\ p.failoverObject # none =>
              /\ Configured(q.cluster)
              /\ \/ LeavesStandBy(q.tries)
                 \/ /\ IsEndpoint(q.cluster, p.failoverObject)
                    /\ failover(EndpointWeights(q.cluster)) # {none}
<1>1. /\ IsReq(q) /\ q.path = q.in.path
      /\ q.cluster \in DOMAIN ClustersConfigs \cup {none}
      /\ q.route = none => q.cluster = none
      /\ q.cluster = none => q.target = none /\ q.failoverObject = none
      /\ q.failoverObject # none => LeavesStandBy(q.tries)
  BY Zenon DEF Sending
<1>2. CASE q.cluster = none
  <2>1. p.failoverObject = none /\ p.target = none /\ p.branch = BranchFor(none, none)
    BY <1>1, <1>2, ChooseFields, Zenon
  <2>2. BranchFor(none, none) = "plain"
    BY DEF BranchFor, NumRetries
  <2> QED
    BY <2>1, <2>2
<1>3. CASE q.cluster # none
  <2>1. /\ p.failoverObject \in StandBy(q)
        /\ p.target \in NextTarget(EndpointWeights(q.cluster))
        /\ p.branch = BranchFor(q.cluster, p.failoverObject)
        /\ p.target # none => p.path = ClustersConfigs[q.cluster].Endpoints[p.target].Path \o q.path
    BY <1>1, <1>3, ChooseFields, Zenon
  <2>2. Configured(q.cluster) /\ q.route # none
    BY <1>1, <1>3, Zenon DEF Configured
  <2>3. DOMAIN EndpointWeights(q.cluster) = DOMAIN ClustersConfigs[q.cluster].Endpoints
    BY DEF EndpointWeights
  <2>4. p.target # none => IsEndpoint(q.cluster, p.target)
    BY <2>1, <2>3, Zenon DEF NextTarget, OrNone, IsEndpoint
  <2>5. p.target # none => p.path = PathFor(q.cluster, p.target, q.in)
    BY <1>1, <2>1, Zenon DEF PathFor
  <2>6. /\ p.branch \in {"plain", "retry", "failover"}
        /\ p.branch = "plain" => p.failoverObject = none
        /\ p.branch = "retry" => NumRetries(q.cluster) > 0
        /\ p.branch = "failover" => p.failoverObject # none
    BY <2>1, Zenon DEF BranchFor
  <2>7. p.failoverObject # none => \/ LeavesStandBy(q.tries)
                                   \/ /\ IsEndpoint(q.cluster, p.failoverObject)
                                      /\ failover(EndpointWeights(q.cluster)) # {none}
    <3> DEFINE w == EndpointWeights(q.cluster)
    <3>1. CASE failover(w) = {none}
      <4>1. p.failoverObject = q.failoverObject
        BY <2>1, <3>1, Zenon DEF StandBy
      <4> QED
        BY <1>1, <4>1
    <3>2. CASE failover(w) # {none}
      <4>1. p.failoverObject \in failover(w)
        BY <2>1, <3>2, Zenon DEF StandBy
      <4> HIDE DEF w
      <4>2. p.failoverObject # none => p.failoverObject \in DOMAIN w
        BY <4>1, Zenon DEF failover, OrNone
      <4> QED
        BY <2>3, <3>2, <4>2 DEF w, IsEndpoint
    <3> QED
      BY <3>1, <3>2, Zenon
  <2> QED
    BY <1>3, <2>2, <2>4, <2>5, <2>6, <2>7, Zenon
<1> QED
  BY <1>2, <1>3

\* A message that load balancing sends to its first endpoint of the pass.
LEMMA FirstOK ==
  ASSUME CountFacts, NEW q, Sending(q), NEW p \in ChooseTarget(q), NEW u, u = Upstream(p, "first")
  PROVE  ReqInv(u)
<1>1. /\ IsReq(q) /\ q.in \in Inputs /\ q.retryCount \in Nat
      /\ q.cluster \in DOMAIN ClustersConfigs \cup {none}
      /\ q.failoverCluster \in DOMAIN ClustersConfigs \cup {none}
      /\ Routed(q) /\ TriesInv(q)
      /\ \A i \in DOMAIN q.tries : q.tries[i].pass # q.passes
      /\ Cardinality(KindOf(q.tries, "first")) < q.passes
      /\ q.route = none => q.cluster = none
  BY Zenon DEF Sending
<1>2. SameRoute(p, q) /\ p.clusterConfig = q.cluster
  BY <1>1, ChooseFields, Zenon
<1>3. /\ IsReq(p)
      /\ p.in = q.in /\ p.port = q.port /\ p.route = q.route /\ p.cluster = q.cluster
      /\ p.failoverCluster = q.failoverCluster /\ p.origPath = q.origPath
      /\ p.retryCount = q.retryCount /\ p.passes = q.passes /\ p.tries = q.tries
  BY <1>2, Zenon DEF SameRoute
<1>4. /\ IsReq(u)
      /\ u.pc = "upstream" /\ u.in = p.in /\ u.port = p.port /\ u.route = p.route
      /\ u.cluster = p.cluster /\ u.failoverCluster = p.failoverCluster
      /\ u.origPath = p.origPath /\ u.path = p.path
      /\ u.clusterConfig = p.clusterConfig /\ u.failoverObject = p.failoverObject
      /\ u.target = p.target /\ u.retryCount = p.retryCount /\ u.branch = p.branch
      /\ u.passes = p.passes
  BY <1>3, UpstreamFields
<1>5. /\ p.branch \in {"plain", "retry", "failover"}
      /\ p.branch = "plain" => p.failoverObject = none
      /\ p.branch = "retry" => NumRetries(q.cluster) > 0 /\ q.cluster # none
      /\ p.branch = "failover" => p.failoverObject # none
      /\ p.target # none => /\ Configured(q.cluster)
                            /\ q.route # none
                            /\ IsEndpoint(q.cluster, p.target)
                            /\ p.path = PathFor(q.cluster, p.target, q.in)
      /\ p.failoverObject # none =>
           /\ Configured(q.cluster)
           /\ \/ LeavesStandBy(q.tries)
              \/ /\ IsEndpoint(q.cluster, p.failoverObject)
                 /\ failover(EndpointWeights(q.cluster)) # {none}
  BY ChooseOK
<1>6. TriesInv(p)
  BY <1>1, <1>3, Zenon DEF TriesInv
<1>7. OneStandBy(p)
  BY <1>1, <1>3, Zenon DEF OneStandBy, KindOf
<1>8. p.passes \in Nat /\ p.passes \in 0..2 /\ p.retryCount \in Nat
  BY <1>1, <1>3 DEF Routed
<1>9. /\ TriesInv(u)
      /\ LeavesStandBy(p.tries) => LeavesStandBy(u.tries)
      /\ p.target # none /\ RetriesAndStandBy(p.cluster) => LeavesStandBy(u.tries)
      /\ OneStandBy(u)
      /\ Cardinality(KindOf(u.tries, "first")) <= Cardinality(KindOf(p.tries, "first")) + 1
  <2>1. p.target # none => p.cluster = none \/ IsEndpoint(p.cluster, p.target) \/ LeavesStandBy(p.tries)
    BY <1>3, <1>5, Zenon
  <2>2. p.target # none => p.path = PathFor(p.cluster, p.target, p.in)
    BY <1>3, <1>5, Zenon
  <2> QED
    BY <1>3, <1>6, <1>7, <1>8, <2>1, <2>2, UpstreamTries, Zenon
<1>10. FirstInv(u)
  <2>1. Cardinality(KindOf(q.tries, "first")) \in Nat /\ Cardinality(KindOf(u.tries, "first")) \in Nat
    BY <1>1, <1>9, KindFinite, Zenon DEF TriesInv
  <2>2. Cardinality(KindOf(u.tries, "first")) <= u.passes
    BY <1>1, <1>3, <1>4, <1>8, <1>9, <2>1
  <2> QED
    BY <1>4, <2>2 DEF FirstInv
<1>11. ReqType(u)
  <2>1. u.pc \in States /\ u.pc \notin {"tcp", "piped", "closed"}
    BY <1>4 DEF States
  <2> QED
    BY <1>1, <1>3, <1>4, <1>8, <2>1, Zenon DEF ReqType
<1>12. Routed(u)
  BY <1>1, <1>3, <1>4, Zenon DEF Routed
<1>13. Balanced(u)
  <2>1. u.failoverObject # none /\ u.branch = "retry" /\ u.target # none => LeavesStandBy(u.tries)
    <3>1. p.branch = "retry" /\ failover(EndpointWeights(q.cluster)) # {none} => RetriesAndStandBy(q.cluster)
      BY <1>5, Zenon DEF RetriesAndStandBy
    <3> QED
      BY <1>3, <1>4, <1>5, <1>9, <3>1, Zenon
  <2>2. u.failoverObject # none => /\ Configured(u.cluster)
                                   /\ IsEndpoint(u.cluster, u.failoverObject) \/ LeavesStandBy(u.tries)
    BY <1>3, <1>4, <1>5, <1>9, Zenon
  <2>3. u.target # none => /\ Configured(u.cluster)
                           /\ IsEndpoint(u.cluster, u.target)
                           /\ u.path = PathFor(u.cluster, u.target, u.in)
    BY <1>3, <1>4, <1>5, Zenon
  <2>4. /\ u.clusterConfig = u.cluster
        /\ u.branch \in {"plain", "retry", "failover"}
        /\ u.branch = "plain" => u.failoverObject = none
        /\ u.branch = "retry" => u.cluster # none
        /\ u.route = none => u.cluster = none
    BY <1>1, <1>2, <1>3, <1>4, <1>5, Zenon
  <2> QED
    BY <2>1, <2>2, <2>3, <2>4, Zenon DEF Balanced
<1>14. UpstreamInv(u)
  BY <1>4, <1>5, <1>9, Zenon DEF UpstreamInv
<1> QED
  BY <1>4, <1>9, <1>10, <1>11, <1>12, <1>13, <1>14, Zenon DEF ReqInv

\* NumRetries counts.
LEMMA NumRetriesNat ==
  ASSUME NEW c \in DOMAIN ClustersConfigs \cup {none} PROVE NumRetries(c) \in Nat
BY ConfigAssumption DEF NumRetries

\* What is known of a context in the hands of the load balancer.
LEMMA BalancedFacts ==
  ASSUME NEW q, ReqInv(q), q.pc \in {"upstream", "backoff", "standby"}
  PROVE  /\ IsReq(q) /\ q.in \in Inputs /\ q.retryCount \in Nat /\ q.passes \in Nat /\ q.passes \in 0..2
         /\ q.cluster \in DOMAIN ClustersConfigs \cup {none}
         /\ q.failoverCluster \in DOMAIN ClustersConfigs \cup {none}
         /\ TriesInv(q) /\ Routed(q) /\ Balanced(q)
         /\ Cardinality(KindOf(q.tries, "first")) <= q.passes
<1>1. ReqType(q) /\ TriesInv(q) /\ FirstInv(q) /\ Routed(q) /\ Balanced(q)
  BY DEF ReqInv
<1>2. q.pc # "accept" /\ q.pc \notin {"piped", "closed"}
  OBVIOUS
<1>3. q.passes \in 0..2 /\ q.passes \in Nat
  BY <1>1 DEF ReqType
<1> QED
  BY <1>1, <1>2, <1>3, Zenon DEF ReqType, FirstInv

\* The replay of the load balancer, to the same endpoint or to the one that
\* stood by.
LEMMA ResendOK ==
  ASSUME CountFacts, NEW q, ReqInv(q), q.pc \in {"backoff", "standby"}, NEW kind,
         kind = IF q.pc = "backoff" THEN "retry" ELSE "failover", NEW u, u = Upstream(q, kind)
  PROVE  ReqInv(u)
<1>1. /\ IsReq(q) /\ q.in \in Inputs /\ q.retryCount \in Nat /\ q.passes \in Nat /\ q.passes \in 0..2
      /\ q.cluster \in DOMAIN ClustersConfigs \cup {none}
      /\ q.failoverCluster \in DOMAIN ClustersConfigs \cup {none}
      /\ TriesInv(q) /\ Routed(q) /\ Balanced(q)
      /\ Cardinality(KindOf(q.tries, "first")) <= q.passes
  BY BalancedFacts, Zenon
<1>2. /\ IsReq(u)
      /\ u.pc = "upstream" /\ u.in = q.in /\ u.port = q.port /\ u.route = q.route
      /\ u.cluster = q.cluster /\ u.failoverCluster = q.failoverCluster
      /\ u.origPath = q.origPath /\ u.path = q.path
      /\ u.clusterConfig = q.clusterConfig /\ u.failoverObject = q.failoverObject
      /\ u.target = q.target /\ u.retryCount = q.retryCount /\ u.branch = q.branch
      /\ u.passes = q.passes
  BY <1>1, UpstreamFields
<1>3. \/ kind = "retry" /\ q.pc = "backoff" /\ BackoffInv(q)
      \/ kind = "failover" /\ q.pc = "standby" /\ StandbyInv(q)
  BY DEF ReqInv
<1>4. q.target # none => q.cluster = none \/ IsEndpoint(q.cluster, q.target) \/ LeavesStandBy(q.tries)
  BY <1>1, Zenon DEF Balanced
<1>5. q.target # none /\ kind # "failover" => q.path = PathFor(q.cluster, q.target, q.in)
  <2>1. kind # "failover" => q.branch = "retry"
    BY <1>3 DEF BackoffInv
  <2>2. q.branch = "retry" => q.branch # "failover"
    BY Zenon
  <2> QED
    BY <1>1, <2>1, <2>2, Zenon DEF Balanced
<1>6. kind = "retry" => /\ Cardinality(KindOf(q.tries, "retry")) < q.retryCount
                        /\ q.retryCount <= NumRetries(q.cluster)
                        /\ NumRetries(q.cluster) \in Nat
  BY <1>1, <1>3, NumRetriesNat, Zenon DEF BackoffInv
<1>7. kind = "failover" => OneStandBy(q)
  BY <1>3 DEF StandbyInv
<1>8. kind \in {"first", "retry", "failover"}
  BY <1>3, Zenon
<1>9. /\ TriesInv(u)
      /\ LeavesStandBy(q.tries) => LeavesStandBy(u.tries)
      /\ kind = "failover" /\ q.target # none => KindOf(u.tries, "failover") # {}
      /\ Cardinality(KindOf(u.tries, "first")) <= Cardinality(KindOf(q.tries, "first")) + IF kind = "first" THEN 1 ELSE 0
  BY <1>1, <1>4, <1>5, <1>6, <1>7, <1>8, UpstreamTries, Zenon
<1>10. FirstInv(u)
  <2>1. Cardinality(KindOf(q.tries, "first")) \in Nat /\ Cardinality(KindOf(u.tries, "first")) \in Nat
    BY <1>1, <1>9, KindFinite, Zenon DEF TriesInv
  <2>2. kind # "first"
    BY <1>3, Zenon
  <2>3. Cardinality(KindOf(u.tries, "first")) <= u.passes
    BY <1>1, <1>2, <1>9, <2>1, <2>2
  <2> QED
    BY <1>2, <2>3 DEF FirstInv
<1>11. ReqType(u)
  <2>1. u.pc \in States /\ u.pc \notin {"tcp", "piped", "closed"}
    BY <1>2 DEF States
  <2> QED
    BY <1>1, <1>2, <2>1, Zenon DEF ReqType
<1>12. Routed(u)
  BY <1>1, <1>2, Zenon DEF Routed
<1>13. Balanced(u)
  BY <1>1, <1>2, <1>9, Zenon DEF Balanced
<1>14. UpstreamInv(u)
  <2>1. CASE kind = "retry"
    <3>1. u.branch # "failover"
      BY <1>2, <1>3, <2>1 DEF BackoffInv
    <3> QED
      BY <3>1, Zenon DEF UpstreamInv
  <2>2. CASE kind = "failover"
    <3>1. u.failoverObject = none /\ q.target # none
      BY <1>2, <1>3, <2>2 DEF StandbyInv
    <3> QED
      BY <1>9, <2>2, <3>1, Zenon DEF UpstreamInv
  <2> QED
    BY <1>3, <2>1, <2>2
<1> QED
  BY <1>2, <1>9, <1>10, <1>11, <1>12, <1>13, <1>14, Zenon DEF ReqInv

\* A request that waits before it is retried.
Retried(u, q) ==
  /\ IsReq(u)
  /\ u.pc = "backoff" /\ u.in = q.in /\ u.port = q.port /\ u.route = q.route
  /\ u.cluster = q.cluster /\ u.failoverCluster = q.failoverCluster
  /\ u.origPath = q.origPath /\ u.path = q.path
  /\ u.clusterConfig = q.clusterConfig /\ u.failoverObject = q.failoverObject
  /\ u.target = q.target /\ u.retryCount = q.retryCount + 1 /\ u.branch = q.branch
  /\ u.passes = q.passes /\ u.tries = q.tries

\* What an answer to be retried changes.
LEMMA RetryFields ==
  ASSUME NEW q, IsReq(q), NEW u, u = [q EXCEPT !.pc = "backoff", !.retryCount = @ + 1]
  PROVE  Retried(u, q)
BY Zenon DEF IsReq, Retried

\* An answer to be retried: the request waits and the retry is counted.
LEMMA RetryOK ==
  ASSUME CountFacts, NEW q, ReqInv(q), q.pc = "upstream", NEW status, shouldRetry(q, status),
         NEW u, Retried(u, q)
  PROVE  ReqInv(u)
<1>1. /\ IsReq(q) /\ q.in \in Inputs /\ q.retryCount \in Nat /\ q.passes \in Nat /\ q.passes \in 0..2
      /\ q.cluster \in DOMAIN ClustersConfigs \cup {none}
      /\ q.failoverCluster \in DOMAIN ClustersConfigs \cup {none}
      /\ TriesInv(q) /\ Routed(q) /\ Balanced(q)
      /\ Cardinality(KindOf(q.tries, "first")) <= q.passes
  BY BalancedFacts
<1>3. /\ IsReq(u)
      /\ u.pc = "backoff" /\ u.in = q.in /\ u.port = q.port /\ u.route = q.route
      /\ u.cluster = q.cluster /\ u.failoverCluster = q.failoverCluster
      /\ u.origPath = q.origPath /\ u.path = q.path
      /\ u.clusterConfig = q.clusterConfig /\ u.failoverObject = q.failoverObject
      /\ u.target = q.target /\ u.retryCount = q.retryCount + 1 /\ u.branch = q.branch
      /\ u.passes = q.passes /\ u.tries = q.tries
  BY Zenon DEF Retried
<1>4. Cardinality(KindOf(q.tries, "retry")) \in Nat /\ Cardinality(KindOf(q.tries, "retry")) <= q.retryCount
  BY <1>1, KindFinite, Zenon DEF TriesInv, Budget
<1>5. Cardinality(KindOf(q.tries, "retry")) < q.retryCount + 1 /\ Cardinality(KindOf(q.tries, "retry")) <= q.retryCount + 1
  BY <1>1, <1>4
<1>6. TriesInv(u)
  <2>1. Budget(u.tries, u.retryCount)
    <3>1. Budget(q.tries, q.retryCount + 1)
      BY <1>1, <1>5, BudgetMore DEF TriesInv
    <3> QED
      BY <1>3, <3>1, Zenon
  <2> QED
    BY <1>1, <1>3, <2>1, Zenon DEF TriesInv
<1>7. BackoffInv(u)
  <2>1. q.clusterConfig = q.cluster
    BY <1>1, Zenon DEF Balanced
  <2>2. q.branch = "retry" /\ q.retryCount < NumRetries(q.cluster)
    BY <2>1, Zenon DEF shouldRetry
  <2>3. q.retryCount + 1 <= NumRetries(q.cluster)
    BY <1>1, <2>2, NumRetriesNat
  <2> QED
    BY <1>3, <1>5, <2>2, <2>3, Zenon DEF BackoffInv
<1>8. ReqType(u)
  <2>1. u.pc \in States /\ u.pc \notin {"tcp", "piped", "closed"} /\ u.retryCount \in Nat
    BY <1>1, <1>3 DEF States
  <2> QED
    BY <1>1, <1>3, <2>1, Zenon DEF ReqType
<1>9. FirstInv(u)
  BY <1>1, <1>3 DEF FirstInv
<1>10. Routed(u)
  BY <1>1, <1>3, Zenon DEF Routed
<1>11. Balanced(u)
  BY <1>1, <1>3, Zenon DEF Balanced
<1> QED
  BY <1>3, <1>6, <1>7, <1>8, <1>9, <1>10, <1>11, Zenon DEF ReqInv

\* A request that turns to the endpoint standing by.
StoodBy(u, q) ==
  /\ IsReq(u)
  /\ u.pc = "standby" /\ u.in = q.in /\ u.port = q.port /\ u.route = q.route
  /\ u.cluster = q.cluster /\ u.failoverCluster = q.failoverCluster
  /\ u.origPath = q.origPath /\ u.path = q.path
  /\ u.clusterConfig = q.clusterConfig /\ u.failoverObject = none
  /\ u.target = q.failoverObject /\ u.retryCount = q.retryCount /\ u.branch = q.branch
  /\ u.passes = q.passes /\ u.tries = q.tries

\* What an answer that calls for the endpoint standing by changes.
LEMMA StandbyFields ==
  ASSUME NEW q, IsReq(q), NEW u,
         u = [q EXCEPT !.pc = "standby", !.target = q.failoverObject, !.failoverObject = none]
  PROVE  StoodBy(u, q)
BY Zenon DEF IsReq, StoodBy

\* An answer after which the endpoint that stands by is tried.
LEMMA StandbyOK ==
  ASSUME NEW q, ReqInv(q), q.pc = "upstream", NEW status, shouldFailover(q, status),
         NEW u, StoodBy(u, q)
  PROVE  ReqInv(u)
<1>1. /\ IsReq(q) /\ q.in \in Inputs /\ q.retryCount \in Nat /\ q.passes \in Nat /\ q.passes \in 0..2
      /\ q.cluster \in DOMAIN ClustersConfigs \cup {none}
      /\ q.failoverCluster \in DOMAIN ClustersConfigs \cup {none}
      /\ TriesInv(q) /\ Routed(q) /\ Balanced(q)
      /\ Cardinality(KindOf(q.tries, "first")) <= q.passes
  BY BalancedFacts
<1>3. /\ IsReq(u)
      /\ u.pc = "standby" /\ u.in = q.in /\ u.port = q.port /\ u.route = q.route
      /\ u.cluster = q.cluster /\ u.failoverCluster = q.failoverCluster
      /\ u.origPath = q.origPath /\ u.path = q.path
      /\ u.clusterConfig = q.clusterConfig /\ u.failoverObject = none
      /\ u.target = q.failoverObject /\ u.retryCount = q.retryCount /\ u.branch = q.branch
      /\ u.passes = q.passes /\ u.tries = q.tries
  BY Zenon DEF StoodBy
<1>4. q.branch = "failover" /\ q.failoverObject # none
  BY DEF shouldFailover
<1>5. TriesInv(u)
  BY <1>1, <1>3, Zenon DEF TriesInv
<1>6. ReqType(u)
  <2>1. u.pc \in States /\ u.pc \notin {"tcp", "piped", "closed"}
    BY <1>3, Zenon DEF States
  <2> QED
    BY <1>1, <1>3, <2>1, Zenon DEF ReqType
<1>7. FirstInv(u)
  <2>1. u.pc \notin {"piped", "closed"}
    BY <1>3, Zenon
  <2> QED
    BY <1>1, <1>3, <2>1, Zenon DEF FirstInv
<1>8. Routed(u)
  BY <1>1, <1>3, Zenon DEF Routed
<1>9. Balanced(u)
  <2>1. /\ Configured(q.cluster)
        /\ IsEndpoint(q.cluster, q.failoverObject) \/ LeavesStandBy(q.tries)
    BY <1>1, <1>4, Zenon DEF Balanced
  <2> QED
    BY <1>1, <1>3, <1>4, <2>1, Zenon DEF Balanced
<1>10. StandbyInv(u)
  <2>1. UpstreamInv(q)
    BY Zenon DEF ReqInv
  <2>2. OneStandBy(q)
    BY <1>4, <2>1, Zenon DEF UpstreamInv
  <2>3. OneStandBy(u)
    BY <1>3, <2>2, Zenon DEF OneStandBy
  <2> QED
    BY <1>3, <1>4, <2>3, Zenon DEF StandbyInv
<1> QED
  BY <1>3, <1>5, <1>6, <1>7, <1>8, <1>9, <1>10, Zenon DEF ReqInv

\* An answer after which nothing is left to try in the pass.
LEMMA GiveUpOK ==
  ASSUME NEW q, ReqInv(q), q.pc = "upstream", NEW status \in AnswersOf(q),
         ~shouldRetry(q, status), ~shouldFailover(q, status), NEW u, u = ClusterAnswer(q, status)
  PROVE  ReqInv(u)
<1>1. /\ IsReq(q) /\ q.in \in Inputs /\ q.retryCount \in Nat /\ q.passes \in Nat /\ q.passes \in 0..2
      /\ q.cluster \in DOMAIN ClustersConfigs \cup {none}
      /\ q.failoverCluster \in DOMAIN ClustersConfigs \cup {none}
      /\ TriesInv(q) /\ Routed(q) /\ Balanced(q)
      /\ Cardinality(KindOf(q.tries, "first")) <= q.passes
  BY BalancedFacts
<1>2. UpstreamInv(q)
  BY Zenon DEF ReqInv
<1>3. ~Bad(403) /\ ~Bad(404)
  BY DEF Bad
<1>4. Bad(status) => q.target # none
  <2>1. q.target = none => status = 403 \/ status = 404
    BY DEF AnswersOf
  <2> QED
    BY <1>3, <2>1, SMT, Zenon
<1>5. Bad(status) => q.route # none
  BY <1>1, <1>4, Zenon DEF Balanced, Configured
<1>6. q.clusterConfig = q.cluster
  BY <1>1, Zenon DEF Balanced
<1>7. Bad(status) /\ q.branch = "failover" => q.failoverObject = none
  BY Zenon DEF shouldFailover
<1>8. Bad(status) /\ q.failoverObject # none => LeavesStandBy(q.tries)
  <2>1. q.branch = "plain" \/ q.branch = "retry" \/ q.branch = "failover"
    BY <1>1, Zenon DEF Balanced
  <2> QED
    BY <1>1, <1>4, <1>7, <2>1, Zenon DEF Balanced
<1>9. Bad(status) /\ q.branch = "failover" => KindOf(q.tries, "failover") # {}
  BY <1>2, <1>7, Zenon DEF UpstreamInv
<1>10. q.branch = "retry" /\ status \in ClustersConfigs[q.clusterConfig].RetryOn =>
         q.retryCount >= NumRetries(q.clusterConfig)
  <2>1. NumRetries(q.clusterConfig) \in Nat
    BY <1>1, <1>6, NumRetriesNat, Zenon
  <2>2. ~(q.retryCount < NumRetries(q.clusterConfig)) => q.retryCount >= NumRetries(q.clusterConfig)
    BY <1>1, <2>1
  <2> QED
    BY <2>2, Zenon DEF shouldRetry
<1>11. /\ Bad(status) /\ q.failoverCluster # none => q.clusterConfig \in {q.cluster, none}
       /\ Bad(status) /\ q.branch = "retry" /\ q.clusterConfig = q.cluster
            /\ status \in ClustersConfigs[q.clusterConfig].RetryOn => q.retryCount >= NumRetries(q.clusterConfig)
  BY <1>6, <1>10, Zenon
<1> QED
  BY <1>1, <1>5, <1>8, <1>9, <1>11, ClusterAnswerOK, Zenon

\* A message that meets an open circuit is answered without an attempt.
LEMMA DegradedOK ==
  ASSUME CountFacts, NEW q, Sending(q), q.cluster \in DOMAIN breaking, NEW status, NEW u, u = ClusterAnswer(q, status)
  PROVE  ReqInv(u)
<1>1. /\ IsReq(q) /\ q.in \in Inputs /\ q.retryCount \in Nat
      /\ q.cluster \in DOMAIN ClustersConfigs \cup {none}
      /\ q.failoverCluster \in DOMAIN ClustersConfigs \cup {none}
      /\ Routed(q) /\ TriesInv(q)
      /\ Cardinality(KindOf(q.tries, "first")) < q.passes
      /\ q.route = none => q.cluster = none
      /\ q.cluster # none => q.clusterConfig # q.cluster
      /\ q.passes = 1 => q.clusterConfig = none
      /\ q.failoverObject # none => LeavesStandBy(q.tries)
      /\ q.branch = "failover" => KindOf(q.tries, "failover") # {}
  BY Zenon DEF Sending
<1>2. q.cluster # none
  BY BreakingAssumption, ConfigAssumption
<1>3. q.route # none /\ q.clusterConfig # q.cluster
  BY <1>1, <1>2, Zenon
<1>4. Cardinality(KindOf(q.tries, "first")) <= q.passes
  <2>1. Cardinality(KindOf(q.tries, "first")) \in Nat /\ q.passes \in Nat
    BY <1>1, KindFinite DEF TriesInv, Routed
  <2> QED
    BY <1>1, <2>1
<1>5. q.failoverCluster # none => q.clusterConfig \in {q.cluster, none}
  <2>1. q.passes = 1 \/ q.passes = 2
    BY <1>1 DEF Routed
  <2> QED
    BY <1>1, <2>1, Zenon DEF Routed
<1> QED
  BY <1>1, <1>3, <1>4, <1>5, ClusterAnswerOK, Zenon

-----------------------------------------------------------------------------
(* outbound-main.js and the TCP pipelines.                                 *)

\* A connection with its traffic match.
Accepted(u, q, in, match, pc) ==
  /\ IsReq(u)
  /\ u.pc = pc
  /\ u.in = in /\ u.port = match /\ u.path = in.path
  /\ u.route = q.route /\ u.cluster = q.cluster /\ u.failoverCluster = q.failoverCluster
  /\ u.origPath = q.origPath /\ u.clusterConfig = q.clusterConfig
  /\ u.failoverObject = q.failoverObject /\ u.target = q.target /\ u.retryCount = q.retryCount
  /\ u.branch = q.branch /\ u.passes = q.passes /\ u.tries = q.tries

\* What accepting a connection changes.
LEMMA AcceptFields ==
  ASSUME NEW q, IsReq(q), NEW in, NEW match, NEW egress, NEW cert, NEW pc
  PROVE  Accepted([q EXCEPT !.in = in, !.path = in.path, !.port = match,
                            !.isEgress = egress, !.cert = cert, !.pc = pc], q, in, match, pc)
<1> SUFFICES ASSUME NEW u,
                    u = [q EXCEPT !.in = in, !.path = in.path, !.port = match,
                                  !.isEgress = egress, !.cert = cert, !.pc = pc]
             PROVE  Accepted(u, q, in, match, pc)
  BY Zenon
<1> QED
  BY Zenon DEF IsReq, Accepted

\* A connection that was accepted.
LEMMA AcceptOK ==
  ASSUME CountFacts, NEW q, ReqInv(q), q.pc = "accept", NEW in \in Inputs, NEW match, NEW pc \in {"route", "tcp", "closed"},
         pc # "route" => match.Protocol \notin {"http", "grpc"}, NEW u, Accepted(u, q, in, match, pc)
  PROVE  ReqInv(u)
<1>2. Fresh(q)
  BY Zenon DEF ReqInv
<1>4. /\ IsReq(u)
      /\ u.pc = pc
      /\ u.in = in /\ u.port = match /\ u.path = in.path
      /\ u.route = q.route /\ u.cluster = q.cluster /\ u.failoverCluster = q.failoverCluster
      /\ u.origPath = q.origPath /\ u.clusterConfig = q.clusterConfig
      /\ u.failoverObject = q.failoverObject /\ u.target = q.target /\ u.retryCount = q.retryCount
      /\ u.branch = q.branch /\ u.passes = q.passes /\ u.tries = q.tries
  BY Zenon DEF Accepted
<1>5. Fresh(u)
  BY <1>2, <1>4, Zenon DEF Fresh
<1>6. u.cluster = none /\ u.failoverCluster = none /\ u.passes = 0 /\ u.retryCount = 0 /\ u.tries = <<>>
  BY <1>5, Zenon DEF Fresh
<1>7. ReqType(u)
  <2>1. u.pc \in States /\ u.passes \in 0..2 /\ u.retryCount \in Nat
    BY <1>4, <1>6 DEF States
  <2>2. u.pc \in {"tcp", "piped", "closed"} => u.port.Protocol \notin {"http", "grpc"}
    BY <1>4, Zenon
  <2> QED
    BY <1>4, <1>6, <2>1, <2>2, Zenon DEF ReqType
<1>8. IsTries(u.tries) /\ DOMAIN u.tries = {} /\ \A kind : KindOf(u.tries, kind) = {} /\ Cardinality(KindOf(u.tries, kind)) = 0
  BY <1>6, NoTries, Zenon
<1>9. Budget(u.tries, u.retryCount)
  BY <1>6, <1>8 DEF Budget
<1>10. TriesInv(u)
  BY <1>8, <1>9, Zenon DEF TriesInv
<1>11. FirstInv(u)
  BY <1>6, <1>8 DEF FirstInv
<1> QED
  BY <1>4, <1>5, <1>7, <1>10, <1>11, Zenon DEF ReqInv

\* The fields that a change of state alone leaves.
SameConnection(u, q, pc) ==
  /\ IsReq(u) /\ u.pc = pc
  /\ u.in = q.in /\ u.port = q.port
  /\ u.cluster = q.cluster /\ u.failoverCluster = q.failoverCluster
  /\ u.retryCount = q.retryCount /\ u.passes = q.passes /\ u.tries = q.tries

\* What the end of a TCP connection, or its start, changes.
LEMMA StateFields ==
  ASSUME NEW q, IsReq(q), NEW pc
  PROVE  SameConnection([q EXCEPT !.pc = pc], q, pc)
<1> SUFFICES ASSUME NEW u, u = [q EXCEPT !.pc = pc] PROVE SameConnection(u, q, pc)
  BY Zenon
<1> QED
  BY Zenon DEF IsReq, SameConnection

\* A TCP connection that ends.
LEMMA ClosedOK ==
  ASSUME CountFacts, NEW q, ReqInv(q), q.pc \in {"tcp", "piped"}, NEW u, SameConnection(u, q, "closed")
  PROVE  ReqInv(u)
<1>1. ReqType(q) /\ TriesInv(q) /\ FirstInv(q)
  BY Zenon DEF ReqInv
<1>4. /\ IsReq(u) /\ u.pc = "closed"
      /\ u.in = q.in /\ u.port = q.port
      /\ u.cluster = q.cluster /\ u.failoverCluster = q.failoverCluster
      /\ u.retryCount = q.retryCount /\ u.passes = q.passes /\ u.tries = q.tries
  BY Zenon DEF SameConnection
<1>5. u.pc \in States /\ q.pc # "accept"
  BY <1>4 DEF States
<1>6. ReqType(u)
  BY <1>1, <1>4, <1>5, Zenon DEF ReqType
<1>7. TriesInv(u)
  BY <1>1, <1>4, Zenon DEF TriesInv
<1>8. FirstInv(u)
  <2>1. CASE q.pc = "piped"
    BY <1>1, <1>4, <2>1, Zenon DEF FirstInv
  <2>2. CASE q.pc = "tcp"
    <3>1. q.tries = <<>>
      BY <2>2, Zenon DEF ReqInv, Fresh
    <3>2. Cardinality(KindOf(u.tries, "first")) = 0
      BY <1>4, <3>1, NoTries
    <3> QED
      BY <1>4, <3>2 DEF FirstInv
  <2> QED
    BY <2>1, <2>2, Zenon
<1> QED
  BY <1>4, <1>6, <1>7, <1>8, Zenon DEF ReqInv

\* A TCP connection with its cluster and endpoint.
Directed(p, q, c, t) ==
  /\ IsReq(p)
  /\ p.in = q.in /\ p.port = q.port /\ p.cluster = c /\ p.target = t
  /\ p.failoverCluster = q.failoverCluster
  /\ p.retryCount = q.retryCount /\ p.passes = q.passes /\ p.tries = q.tries

\* What the choice of cluster and endpoint changes.
LEMMA DirectFields ==
  ASSUME NEW q, IsReq(q), NEW c, NEW t, NEW egress, NEW p,
         p = [q EXCEPT !.cluster = c, !.target = t, !.isEgress = egress]
  PROVE  Directed(p, q, c, t)
BY Zenon DEF IsReq, Directed

\* A TCP connection to an endpoint of its cluster, or to where the client
\* meant to go.
LEMMA PipedOK ==
  ASSUME CountFacts, NEW q, ReqInv(q), q.pc = "tcp", NEW c \in DOMAIN ClustersConfigs \cup {none}, NEW t,
         c = none \/ IsEndpoint(c, t), NEW p, Directed(p, q, c, t),
         NEW v, v = Upstream(p, "first"), NEW u, SameConnection(u, v, "piped")
  PROVE  ReqInv(u)
<1>1. ReqType(q) /\ TriesInv(q) /\ Fresh(q)
  BY Zenon DEF ReqInv
<1>2. /\ IsReq(q) /\ q.in \in Inputs /\ q.failoverCluster \in DOMAIN ClustersConfigs \cup {none}
      /\ q.port.Protocol \notin {"http", "grpc"}
  BY <1>1 DEF ReqType
<1>3. q.retryCount = 0 /\ q.passes = 0 /\ q.tries = <<>>
  BY <1>1, Zenon DEF Fresh
<1>5. /\ IsReq(p)
      /\ p.in = q.in /\ p.port = q.port /\ p.cluster = c /\ p.target = t
      /\ p.failoverCluster = q.failoverCluster
      /\ p.retryCount = q.retryCount /\ p.passes = q.passes /\ p.tries = q.tries
  BY Zenon DEF Directed
<1>6. TriesInv(p)
  BY <1>1, <1>5, Zenon DEF TriesInv
<1>8. /\ IsReq(v) /\ v.in = p.in /\ v.port = p.port /\ v.cluster = p.cluster
      /\ v.failoverCluster = p.failoverCluster /\ v.retryCount = p.retryCount /\ v.passes = p.passes
  BY <1>5, UpstreamFields
<1>9. /\ TriesInv(v)
      /\ Cardinality(KindOf(v.tries, "first")) <= Cardinality(KindOf(p.tries, "first")) + 1
  <2>1. p.passes \in Nat /\ p.retryCount \in Nat /\ p.port.Protocol \notin {"http", "grpc"}
    BY <1>2, <1>3, <1>5
  <2>2. p.cluster = none \/ IsEndpoint(p.cluster, p.target)
    BY <1>5, Zenon
  <2> QED
    BY <1>5, <1>6, <2>1, <2>2, UpstreamTries, Zenon
<1>11. /\ IsReq(u) /\ u.pc = "piped"
       /\ u.in = v.in /\ u.port = v.port
       /\ u.cluster = v.cluster /\ u.failoverCluster = v.failoverCluster
       /\ u.retryCount = v.retryCount /\ u.passes = v.passes /\ u.tries = v.tries
  BY Zenon DEF SameConnection
<1>12. TriesInv(u)
  BY <1>9, <1>11, Zenon DEF TriesInv
<1>13. FirstInv(u)
  <2>1. Cardinality(KindOf(p.tries, "first")) = 0
    BY <1>3, <1>5, NoTries, Zenon
  <2>2. Cardinality(KindOf(u.tries, "first")) <= 1
    BY <1>9, <1>11, <2>1
  <2> QED
    BY <1>11, <2>2, Zenon DEF FirstInv
<1>14. ReqType(u)
  <2>1. u.pc \in States /\ u.passes \in 0..2 /\ u.retryCount \in Nat
    BY <1>3, <1>5, <1>8, <1>11 DEF States
  <2>2. u.port.Protocol \notin {"http", "grpc"}
    BY <1>2, <1>5, <1>8, <1>11, Zenon
  <2> QED
    BY <1>2, <1>5, <1>8, <1>11, <2>1, <2>2, Zenon DEF ReqType
<1> QED
  BY <1>11, <1>12, <1>13, <1>14, Zenon DEF ReqInv

-----------------------------------------------------------------------------
(* The steps.                                                              *)

\* A step of one request leaves the others alone.
LEMMA OneRequest ==
  ASSUME PipelineInv, NEW r \in Requests, NEW u, ReqInv(u), req' = [req EXCEPT ![r] = u],
         circuitBreakers' \subseteq DOMAIN breaking
  PROVE  PipelineInv'
<1>1. req = [s \in Requests |-> req[s]] /\ \A s \in Requests : ReqInv(req[s])
  BY Zenon DEF PipelineInv
<1>2. /\ req' = [s \in Requests |-> req'[s]]
      /\ \A s \in Requests : req'[s] = IF s = r THEN u ELSE req[s]
  BY <1>1, Zenon
<1>3. \A s \in Requests : ReqInv(req'[s])
  BY <1>1, <1>2, Zenon
<1>4. \A s \in Requests : ReqInv(req[s])'
  BY <1>3, Zenon DEF ReqInv, ReqType, TriesInv, FirstInv, Fresh, Routed, Balanced, UpstreamInv, BackoffInv,
                     StandbyInv, ReplayInv, DoneInv, OneStandBy
<1> QED
  BY <1>2, <1>4, Zenon DEF PipelineInv

\* What the invariant says of one request.
LEMMA ThisRequest ==
  ASSUME PipelineInv, NEW r \in Requests
  PROVE  /\ ReqInv(req[r]) /\ IsReq(req[r])
         /\ req = [s \in Requests |-> req[s]]
         /\ circuitBreakers \subseteq DOMAIN breaking
BY Zenon DEF PipelineInv, ReqInv, ReqType

\* Initially no request was accepted.
LEMMA InitInv ==
  ASSUME CountFacts PROVE Init => PipelineInv
<1> SUFFICES ASSUME Init PROVE PipelineInv
  OBVIOUS
<1>1. req = [r \in Requests |-> Context] /\ circuitBreakers = {}
  BY Zenon DEF Init
<1> DEFINE q == Context
<1>2. /\ IsReq(q) /\ Fresh(q) /\ q.pc = "accept" /\ q.tries = <<>> /\ q.retryCount = 0 /\ q.passes = 0
      /\ q.cluster = none /\ q.failoverCluster = none
  BY Zenon DEF Context, IsReq, Fresh
<1> HIDE DEF q
<1>3. ReqType(q)
  BY <1>2 DEF ReqType, States
<1>4. TriesInv(q) /\ FirstInv(q)
  <2>1. /\ IsTries(q.tries) /\ DOMAIN q.tries = {}
        /\ \A kind : KindOf(q.tries, kind) = {} /\ Cardinality(KindOf(q.tries, kind)) = 0
    BY <1>2, NoTries, Zenon
  <2>2. Budget(q.tries, q.retryCount)
    BY <1>2, <2>1 DEF Budget
  <2>3. FirstInv(q)
    BY <1>2, <2>1 DEF FirstInv
  <2> QED
    BY <2>1, <2>2, <2>3, Zenon DEF TriesInv
<1>5. ReqInv(q)
  BY <1>2, <1>3, <1>4, Zenon DEF ReqInv
<1> QED
  BY <1>1, <1>5, Zenon DEF PipelineInv, q

\* Accept: the traffic match and its protocol.
LEMMA AcceptStep ==
  ASSUME CountFacts, PipelineInv, NEW r \in Requests, NEW in \in Inputs, Accept(r, in)
  PROVE  PipelineInv'
<1> DEFINE q       == req[r]
           matches == IF in.port \in DOMAIN TrafficMatches THEN TrafficMatches[in.port] ELSE <<>>
           dst     == Destination(matches, in.address)
           pc      == CASE protocol(dst.match, EnableEgress) = "http" -> "route"
                        [] protocol(dst.match, EnableEgress) = "tcp"  -> "tcp"
                        [] OTHER -> "closed"
           u == [q EXCEPT !.in = in, !.path = in.path, !.port = dst.match,
                          !.isEgress = dst.isEgress, !.cert = dst.cert, !.pc = pc]
<1>1. /\ q.pc = "accept" /\ circuitBreakers' = circuitBreakers
      /\ req' = [req EXCEPT ![r].in = in, ![r].path = in.path, ![r].port = dst.match,
                            ![r].isEgress = dst.isEgress, ![r].cert = dst.cert, ![r].pc = pc]
  BY Zenon DEF Accept
<1>2. /\ pc \in {"route", "tcp", "closed"}
      /\ pc # "route" => dst.match.Protocol \notin {"http", "grpc"}
  BY DEF protocol
<1> HIDE DEF matches, dst, pc
<1>3. ReqInv(q) /\ IsReq(q) /\ req = [s \in Requests |-> req[s]] /\ circuitBreakers \subseteq DOMAIN breaking
  BY ThisRequest
<1>4. req' = [req EXCEPT ![r] = u]
  BY <1>1, <1>3, Zenon
<1>5. Accepted(u, q, in, dst.match, pc)
  BY <1>3, AcceptFields, Zenon
<1> HIDE DEF u, q
<1>6. ReqInv(u)
  BY <1>1, <1>2, <1>3, <1>5, AcceptOK, Zenon
<1> QED
  BY <1>1, <1>3, <1>4, <1>6, OneRequest, Zenon

\* Send: routing, the circuit breaker and the first attempt of a pass.
LEMMA SendStep ==
  ASSUME CountFacts, PipelineInv, NEW r \in Requests, Send(r)
  PROVE  PipelineInv'
<1> DEFINE q == req[r]
<1>1. PICK p \in RouteMessage(q) :
        \/ /\ p.cluster \in DOMAIN breaking
           /\ req' = [req EXCEPT ![r] = ClusterAnswer(p, breaking[p.cluster].degradedStatusCode)]
           /\ circuitBreakers' = circuitBreakers
        \/ /\ \/ p.cluster \in DOMAIN breaking /\ circuitBreakers' = circuitBreakers \cup {p.cluster}
              \/ circuitBreakers' = circuitBreakers
           /\ \E c \in ChooseTarget(p) : req' = [req EXCEPT ![r] = Upstream(c, "first")]
  BY Zenon DEF Send
<1>2. q.pc \in {"route", "replay"}
  BY Zenon DEF Send
<1>3. ReqInv(q) /\ circuitBreakers \subseteq DOMAIN breaking
  BY ThisRequest, Zenon
<1>4. Sending(p)
  BY <1>2, <1>3, RouteFirst, RouteAgain, Zenon
<1>5. circuitBreakers' \subseteq DOMAIN breaking
  BY <1>1, <1>3, Zenon
<1>6. CASE /\ p.cluster \in DOMAIN breaking
           /\ req' = [req EXCEPT ![r] = ClusterAnswer(p, breaking[p.cluster].degradedStatusCode)]
  <2>1. ReqInv(ClusterAnswer(p, breaking[p.cluster].degradedStatusCode))
    BY <1>4, <1>6, DegradedOK, Zenon
  <2> QED
    BY <1>5, <1>6, <2>1, OneRequest, Zenon
<1>7. CASE \E c \in ChooseTarget(p) : req' = [req EXCEPT ![r] = Upstream(c, "first")]
  <2>1. PICK c \in ChooseTarget(p) : req' = [req EXCEPT ![r] = Upstream(c, "first")]
    BY <1>7, Zenon
  <2>2. ReqInv(Upstream(c, "first"))
    BY <1>4, FirstOK, Zenon
  <2> QED
    BY <1>5, <2>1, <2>2, OneRequest, Zenon
<1> QED
  BY <1>1, <1>6, <1>7, Zenon

\* Resend: the replay of the load balancer.
LEMMA ResendStep ==
  ASSUME CountFacts, PipelineInv, NEW r \in Requests, Resend(r)
  PROVE  PipelineInv'
<1> DEFINE q    == req[r]
           kind == IF q.pc = "backoff" THEN "retry" ELSE "failover"
<1>1. /\ q.pc \in {"backoff", "standby"} /\ circuitBreakers' = circuitBreakers
      /\ req' = [req EXCEPT ![r] = Upstream(q, kind)]
  BY Zenon DEF Resend
<1>2. ReqInv(q) /\ circuitBreakers \subseteq DOMAIN breaking
  BY ThisRequest
<1>3. ReqInv(Upstream(q, kind))
  BY <1>1, <1>2, ResendOK, Zenon
<1> HIDE DEF kind
<1> QED
  BY <1>1, <1>2, <1>3, OneRequest, Zenon

\* Answer: a retry, the endpoint standing by, or the end of the pass.
LEMMA AnswerStep ==
  ASSUME CountFacts, PipelineInv, NEW r \in Requests, NEW status, NEW slow, Answer(r, status, slow)
  PROVE  PipelineInv'
<1> DEFINE q == req[r]
<1>1. ReqInv(q) /\ IsReq(q) /\ req = [s \in Requests |-> req[s]] /\ circuitBreakers \subseteq DOMAIN breaking
  BY ThisRequest
<1>2. q.pc = "upstream" /\ status \in AnswersOf(q) /\ circuitBreakers' = circuitBreakers
  BY Zenon DEF Answer
<1>3. \/ /\ shouldRetry(q, status)
         /\ req' = [req EXCEPT ![r].pc = "backoff", ![r].retryCount = @ + 1]
      \/ /\ shouldFailover(q, status)
         /\ req' = [req EXCEPT ![r].pc = "standby", ![r].target = q.failoverObject, ![r].failoverObject = none]
      \/ /\ ~shouldRetry(q, status) /\ ~shouldFailover(q, status)
         /\ req' = [req EXCEPT ![r] = ClusterAnswer(q, status)]
  BY Zenon DEF Answer
<1>4. CASE /\ shouldRetry(q, status)
           /\ req' = [req EXCEPT ![r].pc = "backoff", ![r].retryCount = @ + 1]
  <2> DEFINE u == [q EXCEPT !.pc = "backoff", !.retryCount = @ + 1]
  <2>1. req' = [req EXCEPT ![r] = u]
    BY <1>1, <1>4, Zenon
  <2>2. Retried(u, q)
    BY <1>1, RetryFields, Zenon
  <2> HIDE DEF u
  <2>3. ReqInv(u)
    BY <1>1, <1>2, <1>4, <2>2, RetryOK, Zenon
  <2> QED
    BY <1>1, <1>2, <2>1, <2>3, OneRequest, Zenon
<1>5. CASE /\ shouldFailover(q, status)
           /\ req' = [req EXCEPT ![r].pc = "standby", ![r].target = q.failoverObject, ![r].failoverObject = none]
  <2> DEFINE u == [q EXCEPT !.pc = "standby", !.target = q.failoverObject, !.failoverObject = none]
  <2>1. req' = [req EXCEPT ![r] = u]
    BY <1>1, <1>5, Zenon
  <2>2. StoodBy(u, q)
    BY <1>1, StandbyFields, Zenon
  <2> HIDE DEF u
  <2>3. ReqInv(u)
    BY <1>1, <1>2, <1>5, <2>2, StandbyOK, Zenon
  <2> QED
    BY <1>1, <1>2, <2>1, <2>3, OneRequest, Zenon
<1>6. CASE /\ ~shouldRetry(q, status) /\ ~shouldFailover(q, status)
           /\ req' = [req EXCEPT ![r] = ClusterAnswer(q, status)]
  <2>1. ReqInv(ClusterAnswer(q, status))
    BY <1>1, <1>2, <1>6, GiveUpOK, Zenon
  <2> QED
    BY <1>1, <1>2, <1>6, <2>1, OneRequest, Zenon
<1> QED
  BY <1>3, <1>4, <1>5, <1>6, Zenon

\* The clusters of a TCP connection are configured, and their endpoints theirs.
LEMMA TcpChoices ==
  ASSUME NEW port, NEW c \in TcpClusters(port), NEW t,
         t \in IF c = none THEN {none} ELSE NextTarget(TcpEndpointWeights(c))
  PROVE  /\ c \in DOMAIN ClustersConfigs \cup {none}
         /\ t = none \/ IsEndpoint(c, t)
<1>1. c \in DOMAIN ClustersConfigs \cup {none}
  BY DEF TcpClusters, clusterCache
<1>2. DOMAIN TcpEndpointWeights(c) = DOMAIN ClustersConfigs[c].Endpoints
  BY DEF TcpEndpointWeights
<1>3. t = none \/ t \in DOMAIN TcpEndpointWeights(c)
  BY DEF NextTarget, OrNone
<1> QED
  BY <1>1, <1>2, <1>3, Zenon DEF IsEndpoint

\* TcpConnect: the connection is closed, or piped to the endpoint or to where
\* the client meant to go.
LEMMA TcpStep ==
  ASSUME CountFacts, PipelineInv, NEW r \in Requests, TcpConnect(r)
  PROVE  PipelineInv'
<1> DEFINE q == req[r]
           egress(t) == t = none /\ (EnableEgress \/ (q.port.Protocol # "none" /\ q.port.AllowedEgressTraffic))
           cluster(c, t) == IF egress(t) THEN none ELSE c
           target(t) == IF egress(t) THEN q.in.address ELSE t
           p(c, t) == [q EXCEPT !.cluster = cluster(c, t), !.target = target(t), !.isEgress = @ \/ egress(t)]
           end == [q EXCEPT !.pc = "closed"]
           u(c, t) == [Upstream(p(c, t), "first") EXCEPT !.pc = "piped"]
<1>1. PICK c \in TcpClusters(q.port) :
        \E t \in IF c = none THEN {none} ELSE NextTarget(TcpEndpointWeights(c)) :
          req' = [req EXCEPT ![r] = IF target(t) = none THEN end ELSE u(c, t)]
  BY Zenon DEF TcpConnect
<1>2. PICK t \in IF c = none THEN {none} ELSE NextTarget(TcpEndpointWeights(c)) :
          req' = [req EXCEPT ![r] = IF target(t) = none THEN end ELSE u(c, t)]
  BY <1>1, Zenon
<1>3. q.pc = "tcp" /\ circuitBreakers' = circuitBreakers
  BY Zenon DEF TcpConnect
<1>4. ReqInv(q) /\ IsReq(q) /\ circuitBreakers \subseteq DOMAIN breaking
  BY ThisRequest
<1>5. CASE target(t) = none
  <2>2. req' = [req EXCEPT ![r] = end]
    BY <1>2, <1>5, Zenon
  <2>1. SameConnection(end, q, "closed")
    BY <1>4, StateFields, Zenon
  <2> HIDE DEF end
  <2>3. ReqInv(end)
    BY <1>3, <1>4, <2>1, ClosedOK, Zenon
  <2> QED
    BY <1>3, <1>4, <2>2, <2>3, OneRequest, Zenon
<1>6. CASE target(t) # none
  <2> DEFINE k == cluster(c, t)
             a == target(t)
             x == p(c, t)
             v == Upstream(x, "first")
             y == u(c, t)
  <2>1. c \in DOMAIN ClustersConfigs \cup {none} /\ (t = none \/ IsEndpoint(c, t))
    BY <1>1, <1>2, TcpChoices, Zenon
  <2>2. k \in DOMAIN ClustersConfigs \cup {none} /\ (k = none \/ IsEndpoint(k, a))
    BY <1>6, <2>1, Zenon
  <2>3. req' = [req EXCEPT ![r] = y]
    BY <1>2, <1>6, Zenon
  <2>4. Directed(x, q, k, a)
    BY <1>4, DirectFields, Zenon
  <2>5. y = [v EXCEPT !.pc = "piped"]
    BY Zenon
  <2> HIDE DEF k, a, x, y, p, u
  <2>6. IsReq(v)
    <3>1. IsReq(x)
      BY <2>4, Zenon DEF Directed
    <3> QED
      BY <3>1, UpstreamFields, Zenon
  <2>7. SameConnection(y, v, "piped")
    BY <2>5, <2>6, StateFields, Zenon
  <2>8. ReqInv(y)
    BY <1>3, <1>4, <2>2, <2>4, <2>7, PipedOK, Zenon
  <2> QED
    BY <1>3, <1>4, <2>3, <2>8, OneRequest, Zenon
<1> QED
  BY <1>5, <1>6, Zenon

\* TcpEnd: the connection is closed.
LEMMA EndStep ==
  ASSUME CountFacts, PipelineInv, NEW r \in Requests, TcpEnd(r)
  PROVE  PipelineInv'
<1> DEFINE q == req[r]
           u == [q EXCEPT !.pc = "closed"]
<1>1. q.pc = "piped" /\ circuitBreakers' = circuitBreakers /\ req' = [req EXCEPT ![r].pc = "closed"]
  BY Zenon DEF TcpEnd
<1>2. ReqInv(q) /\ IsReq(q) /\ req = [s \in Requests |-> req[s]] /\ circuitBreakers \subseteq DOMAIN breaking
  BY ThisRequest
<1>3. req' = [req EXCEPT ![r] = u]
  BY <1>1, <1>2, Zenon
<1>5. SameConnection(u, q, "closed")
  BY <1>2, StateFields, Zenon
<1> HIDE DEF u
<1>6. ReqInv(u)
  BY <1>1, <1>2, <1>5, ClosedOK, Zenon
<1> QED
  BY <1>1, <1>2, <1>3, <1>6, OneRequest, Zenon

\* The tasks and timers of the breakers leave the requests alone.
LEMMA NoRequest ==
  ASSUME PipelineInv, UNCHANGED <<req, circuitBreakers>>
  PROVE  PipelineInv'
<1>1. req' = req /\ circuitBreakers' = circuitBreakers
  BY Zenon
<1>4. \A r \in Requests : ReqInv(req[r])
  BY Zenon DEF PipelineInv
<1>2. \A r \in Requests : ReqInv(req'[r])
  BY <1>1, <1>4, SMT, Zenon
<1>3. \A r \in Requests : ReqInv(req[r])'
  BY <1>2, Zenon DEF ReqInv, ReqType, TriesInv, FirstInv, Fresh, Routed, Balanced, UpstreamInv, BackoffInv,
                     StandbyInv, ReplayInv, DoneInv, OneStandBy
<1> QED
  BY <1>1, <1>3, Zenon DEF PipelineInv

\* Every step of the sidecar preserves what is known of the requests.
LEMMA NextInv ==
  ASSUME CountFacts PROVE PipelineInv /\ [Next]_vars => PipelineInv'
<1> SUFFICES ASSUME PipelineInv, [Next]_vars PROVE PipelineInv'
  OBVIOUS
<1>1. ASSUME NEW r \in Requests, NEW in \in Inputs, Accept(r, in) PROVE PipelineInv'
  BY <1>1, AcceptStep, Zenon
<1>2. ASSUME NEW r \in Requests, Send(r) PROVE PipelineInv'
  BY <1>2, SendStep, Zenon
<1>3. ASSUME NEW r \in Requests, Resend(r) PROVE PipelineInv'
  BY <1>3, ResendStep, Zenon
<1>4. ASSUME NEW r \in Requests, TcpConnect(r) PROVE PipelineInv'
  BY <1>4, TcpStep, Zenon
<1>5. ASSUME NEW r \in Requests, TcpEnd(r) PROVE PipelineInv'
  BY <1>5, EndStep, Zenon
<1>6. ASSUME NEW r \in Requests, NEW status, NEW slow, Answer(r, status, slow) PROVE PipelineInv'
  BY <1>6, AnswerStep, Zenon
<1>7. ASSUME Tick \/ (\E c \in DOMAIN breaking : Refill(c)) \/ UNCHANGED vars PROVE PipelineInv'
  <2>1. UNCHANGED <<req, circuitBreakers>>
    BY <1>7, Zenon DEF Tick, Refill, vars
  <2> QED
    BY <2>1, NoRequest, Zenon
<1> QED
  BY <1>1, <1>2, <1>3, <1>4, <1>5, <1>6, <1>7, Zenon DEF Next

-----------------------------------------------------------------------------
(* The theorems.  The facts about finite sets come here: the proofs above     *)
(* need of them only CountFacts.                                              *)

INSTANCE FiniteSetTheorems

\* The attempts of a request are counted by Cardinality.
LEMMA TriesCounted == CountFacts
<1>1. ASSUME NEW s, IsTries(s), NEW kind
      PROVE  IsFiniteSet(KindOf(s, kind)) /\ Cardinality(KindOf(s, kind)) \in Nat
  <2>1. Len(s) \in Nat /\ DOMAIN s = 1..Len(s)
    BY <1>1, AppendTries, Zenon
  <2>2. IsFiniteSet(1..Len(s))
    BY <2>1, FS_Interval
  <2>3. KindOf(s, kind) \subseteq 1..Len(s)
    BY <2>1, Zenon DEF KindOf
  <2>4. IsFiniteSet(KindOf(s, kind))
    BY <2>2, <2>3, FS_Subset, Zenon
  <2> QED
    BY <2>4, FS_CardinalityType, Zenon
<1>2. ASSUME NEW s, IsTries(s), NEW e, NEW kind
      PROVE  Cardinality(KindOf(Append(s, e), kind)) = Cardinality(KindOf(s, kind)) + IF e.kind = kind THEN 1 ELSE 0
  <2>1. IsFiniteSet(KindOf(s, kind)) /\ Cardinality(KindOf(s, kind)) \in Nat
    BY <1>1, <1>2, Zenon
  <2>2. CASE e.kind = kind
    <3> DEFINE K == KindOf(s, kind)
               L == KindOf(Append(s, e), kind)
    <3>1. L = K \cup {Len(s) + 1} /\ Len(s) + 1 \notin K
      BY <1>2, <2>2, AppendKind, Zenon
    <3> HIDE DEF K, L
    <3>2. Cardinality(K \cup {Len(s) + 1}) = Cardinality(K) + 1
      BY <2>1, <3>1, FS_AddElement, Zenon DEF K
    <3>3. Cardinality(L) = Cardinality(K) + 1
      BY <3>1, <3>2, Zenon
    <3> QED
      BY <2>2, <3>3, Zenon DEF K, L
  <2>3. CASE e.kind # kind
    BY <1>2, <2>1, <2>3, AppendKind
  <2> QED
    BY <2>2, <2>3, Zenon
<1>3. Cardinality({}) = 0
  BY FS_EmptySet, Zenon
<1> QED
  BY <1>1, <1>2, <1>3, Zenon DEF CountFacts

\* What is known of the requests holds in every reachable state.
LEMMA PipelineAlways == Spec => []PipelineInv
<1>1. Init => PipelineInv
  BY TriesCounted, InitInv, Zenon
<1>2. PipelineInv /\ [Next]_vars => PipelineInv'
  BY TriesCounted, NextInv, Zenon
<1> QED
  BY <1>1, <1>2, PTL DEF Spec

\* Every attempt of every request, in every pass, is made at an endpoint of its
\* cluster or at one that was left standing by, with the path of the client
\* behind that of the endpoint, and over TLS where the cluster asks for it.
THEOREM AttemptsAreSound == Spec => []AttemptsSound
<1>1. PipelineInv => AttemptsSound
  <2> SUFFICES ASSUME PipelineInv PROVE AttemptsSound
    OBVIOUS
  <2>1. \A r \in Requests : ReqType(req[r]) /\ TriesInv(req[r])
    BY Zenon DEF PipelineInv, ReqInv
  <2>2. TypeOK
    <3>1. circuitBreakers \subseteq DOMAIN breaking
      BY Zenon DEF PipelineInv
    <3> QED
      BY <2>1, <3>1, Zenon DEF TypeOK, ReqType, States
  <2>3. \A r \in Requests : \A i \in DOMAIN req[r].tries : TryOK(req[r].tries, i, req[r].port, req[r].in)
    BY <2>1, Zenon DEF TriesInv
  <2>4. TargetOfCluster
    BY <2>3, Zenon DEF TargetOfCluster, TryOK, IsEndpoint
  <2>5. PathOfTarget
    BY <2>3, Zenon DEF PathOfTarget, TryOK, PathFor
  <2>6. NeverInTheClear
    BY <2>3, Zenon DEF NeverInTheClear, TryOK
  <2> QED
    BY <2>2, <2>4, <2>5, <2>6, Zenon DEF AttemptsSound
<1> QED
  BY <1>1, PipelineAlways, PTL

\* Whatever the upstreams answer and the circuits do, a client is told of a
\* failure only once the failover cluster, the endpoint standing by and the
\* retries of the last cluster are used up, and none of them is used twice.
THEOREM TriedAll == Spec => []TriedExactly
<1>1. PipelineInv => TriedExactly
  <2> SUFFICES ASSUME PipelineInv PROVE TriedExactly
    OBVIOUS
  <2>1. \A r \in Requests : ReqInv(req[r])
    BY Zenon DEF PipelineInv
  <2>2. ASSUME NEW r \in Requests, NEW kind PROVE TriesOf(r, kind) = KindOf(req[r].tries, kind)
    BY Zenon DEF TriesOf, KindOf
  <2>3. RetryBudget
    <3> SUFFICES ASSUME NEW r \in Requests
                 PROVE  LET tries == req[r].tries
                        IN  /\ TriesOf(r, "retry") # {} =>
                                 \E i \in DOMAIN tries : Cardinality(TriesOf(r, "retry")) <= NumRetries(tries[i].cluster)
                            /\ \A i, j \in TriesOf(r, "failover") : tries[i].pass = tries[j].pass => i = j
                            /\ Cardinality(TriesOf(r, "first")) <= 2
      BY Zenon DEF RetryBudget
    <3>1. Budget(req[r].tries, req[r].retryCount)
      BY <2>1, Zenon DEF ReqInv, TriesInv
    <3>2. Cardinality(TriesOf(r, "first")) <= 2
      <4>1. FirstInv(req[r]) /\ req[r].passes \in 0..2
        BY <2>1, Zenon DEF ReqInv, ReqType
      <4>2. IsTries(req[r].tries)
        BY <2>1, Zenon DEF ReqInv, TriesInv
      <4>3. Cardinality(KindOf(req[r].tries, "first")) \in Nat
        BY <4>2, TriesCounted, KindFinite, Zenon
      <4> QED
        BY <2>2, <4>1, <4>3 DEF FirstInv
    <3> QED
      BY <2>2, <3>1, <3>2, Zenon DEF Budget
  <2>4. ErrorOnlyWhenExhausted
    <3>1. \A r \in Requests : req[r].pc = "done" => DoneInv(req[r])
      BY <2>1, Zenon DEF ReqInv
    <3> QED
      BY <2>2, <3>1, Zenon DEF ErrorOnlyWhenExhausted, DoneInv
  <2> QED
    BY <2>3, <2>4, Zenon DEF TriedExactly
<1> QED
  BY <1>1, PipelineAlways, PTL
=============================================================================
