------------------------------ MODULE Outbound ------------------------------
(***************************************************************************)
(* The outbound half of the sidecar (codebase/proxy/modules/outbound-*.js  *)
(* and connect-*.js): a connection picks its traffic match, an HTTP        *)
(* request its route, cluster, circuit breaker and endpoint, with retries, *)
(* failover to another endpoint and failover to another cluster; a TCP     *)
(* connection picks cluster and endpoint.                                  *)
(*                                                                         *)
(* Pipy runs an event through the chain of pipelines without yielding, so  *)
(* a message up to its connection, and an answer up to a replay or the     *)
(* client, are one step each.  A replay runs again in the same context:    *)
(* the module variables of a request (the fields of req[r]) survive it.    *)
(***************************************************************************)
EXTENDS CircuitBreaker, SidecarRouting, FiniteSets

CONSTANTS
  Requests,
  Inputs,           (* what a request may ask: [port, address, host,        *)
                    (* method, path]                                        *)
  TrafficMatches,   (* config.Outbound.TrafficMatches: port -> Seq(match)   *)
  ClustersConfigs,  (* config.Outbound.ClustersConfigs: name -> cluster     *)
  breaking,         (* the breaker settings of the clusters that have any   *)
  EnableEgress,     (* config.Spec.Traffic.EnableEgress                     *)
  certChain,        (* whether the sidecar has a certificate of its own     *)
  egressEndpoint,   (* the endpoint of the egress gateway, or none          *)
  Statuses          (* what upstreams answer; 0 is an answer with no status *)

\* makeCircuitBreaker is called with a cluster's own ConnectionSettings.
ASSUME BreakingAssumption ==
  /\ \A c \in DOMAIN breaking : breaking[c] \in SettingsType
  /\ DOMAIN breaking \subseteq DOMAIN ClustersConfigs

\* None of the names and paths of the configuration and of the requests is null.
ASSUME ConfigAssumption ==
  /\ none \notin DOMAIN ClustersConfigs
  /\ \A c \in DOMAIN ClustersConfigs :
       none \notin DOMAIN ClustersConfigs[c].Endpoints /\ ClustersConfigs[c].NumRetries \in Nat
  /\ \A in \in Inputs : in.path # none

VARIABLES
  req,              (* the context of each request                          *)
  breaker,          (* the circuit breaker of each cluster that has one     *)
  circuitBreakers   (* those created so far                                 *)

vars == <<req, breaker, circuitBreakers>>

-----------------------------------------------------------------------------
EndpointWeights(c) ==
  [e \in DOMAIN ClustersConfigs[c].Endpoints |-> ClustersConfigs[c].Endpoints[e].Weight]

\* clusterCache: a cluster without configuration is null.
clusterCache(name) == IF name \in DOMAIN ClustersConfigs THEN name ELSE none

-----------------------------------------------------------------------------
Context ==
  [ pc |-> "accept", in |-> none, port |-> NoMatch, route |-> none, cluster |-> none,
    failoverCluster |-> none, origPath |-> none, path |-> none,
    isEgress |-> FALSE, cert |-> none, clusterConfig |-> none,
    failoverObject |-> none, target |-> none, retryCount |-> 0,
    branch |-> "plain", passes |-> 0, status |-> 0, tries |-> <<>> ]

Init ==
  /\ req = [r \in Requests |-> Context]
  /\ breaker = [c \in DOMAIN breaking |-> NewBreaker(breaking[c])]
  /\ circuitBreakers = {}

\* The connection arrives: portHandlers.get(destinationPort)().
Accept(r, in) ==
  /\ req[r].pc = "accept"
  /\ LET matches == IF in.port \in DOMAIN TrafficMatches THEN TrafficMatches[in.port] ELSE <<>>
         dst == Destination(matches, in.address)
     IN  req' = [req EXCEPT ![r].in = in, ![r].path = in.path, ![r].port = dst.match,
                            ![r].isEgress = dst.isEgress, ![r].cert = dst.cert,
                            ![r].pc = CASE protocol(dst.match, EnableEgress) = "http" -> "route"
                                        [] protocol(dst.match, EnableEgress) = "tcp"  -> "tcp"
                                        [] OTHER -> "closed"]
  /\ UNCHANGED <<breaker, circuitBreakers>>

-----------------------------------------------------------------------------
(* outbound-http-routing.js.                                               *)

\* makeServiceHandler: the contexts that the first matching rule may leave.
serviceHandler(q) ==
  LET rule == FindRule(q.port, q.in.host, q.in.method, q.path)
  IN  IF rule = none THEN {q}
      ELSE {[q EXCEPT !.route = rule, !.cluster = clusterCache(c), !.failoverCluster = clusterCache(f)] :
              c \in NextTarget(rule.TargetClusters), f \in failover(rule.TargetClusters)}

\* The handler of the replayed message: the failover cluster of an earlier
\* pass, or the route.
RouteMessage(q) ==
  LET p == [q EXCEPT !.path = IF q.origPath = none THEN @ ELSE q.origPath,
                     !.origPath = IF @ = none THEN q.path ELSE @,
                     !.passes = @ + 1]
  IN  IF q.failoverCluster # none
        THEN {[p EXCEPT !.cluster = q.failoverCluster, !.failoverCluster = none]}
        ELSE serviceHandler(p)

-----------------------------------------------------------------------------
(* outbound-http-load-balancing.js and connect-upstream.js.                *)

NumRetries(c) == IF c = none THEN 0 ELSE ClustersConfigs[c].NumRetries

\* onStart and handleMessageStart: cluster configuration, the endpoint that
\* stands by, the endpoint, and the branch taken.  An endpoint with a path
\* belongs to another cluster.
ChooseTarget(q) ==
  LET branch(c, f) == IF NumRetries(c) > 0 THEN "retry"
                      ELSE IF f # none THEN "failover" ELSE "plain"
      standBy(c) == LET S == failover(EndpointWeights(c))
                    IN  IF S = {none} THEN {q.failoverObject} ELSE S
      prefix(c, t) == IF t = none THEN <<>> ELSE ClustersConfigs[c].Endpoints[t].Path
  IN  IF q.cluster = none
        THEN {[q EXCEPT !.clusterConfig = none, !.branch = branch(none, q.failoverObject)]}
        ELSE {[q EXCEPT !.clusterConfig = q.cluster, !.failoverObject = f, !.target = t,
                        !.isEgress = @ \/ prefix(q.cluster, t) # <<>>,
                        !.path = prefix(q.cluster, t) \o @,
                        !.branch = branch(q.cluster, f)] :
                f \in standBy(q.cluster), t \in NextTarget(EndpointWeights(q.cluster))}

\* connect-upstream.js.
connector(q, cert) ==
  IF cert # none \/ (certChain /\ ~q.isEgress) THEN "tls"
  ELSE IF q.isEgress /\ egressEndpoint # none THEN "tunnel" ELSE "tcp"

SourceCert(c) == IF c = none THEN none ELSE ClustersConfigs[c].SourceCert

\* Mutant: only the first attempt looks at the certificate of its cluster.
Upstream_CertOnce(q, kind) ==
  LET cert == IF q.tries = <<>> THEN SourceCert(q.cluster) ELSE q.cert
      try  == [kind |-> kind, cluster |-> q.cluster, target |-> q.target, path |-> q.path,
               via |-> connector(q, cert), pass |-> q.passes]
  IN  [q EXCEPT !.cert = cert, !.pc = "upstream",
                !.tries = IF q.target = none THEN @ ELSE Append(@, try)]

\* The pipeline 'upstream': the certificate, then muxHTTP to the target.
\* Without a target the request goes on to outbound-http-default.js.
Upstream(q, kind) ==
  LET cert == IF q.cert = none THEN SourceCert(q.cluster) ELSE q.cert
      try  == [kind |-> kind, cluster |-> q.cluster, target |-> q.target, path |-> q.path,
               via |-> connector(q, cert), pass |-> q.passes]
  IN  [q EXCEPT !.cert = cert, !.pc = "upstream",
                !.tries = IF q.target = none THEN @ ELSE Append(@, try)]

Bad(status) == status = 0 \/ status > 499

\* What routing does with an answer: replay it on the failover cluster.
ClusterAnswer(q, status) ==
  IF q.failoverCluster # none /\ Bad(status)
    THEN [q EXCEPT !.pc = "replay"]
    ELSE [q EXCEPT !.pc = "done", !.status = status]

\* A message passes routing and the circuit breaker, and goes upstream.
Send(r) ==
  /\ req[r].pc \in {"route", "replay"}
  /\ \E q \in RouteMessage(req[r]) :
       LET c == q.cluster
       IN  \/ /\ c \in DOMAIN breaking
              /\ breaker[c].degraded
              /\ req' = [req EXCEPT ![r] = ClusterAnswer(q, breaking[c].degradedStatusCode)]
              /\ UNCHANGED <<breaker, circuitBreakers>>
           \/ /\ c \in DOMAIN breaking
              /\ ~breaker[c].degraded
              /\ breaker' = [breaker EXCEPT ![c] = Increase(@)]
              /\ circuitBreakers' = circuitBreakers \cup {c}
              /\ \E p \in ChooseTarget(q) : req' = [req EXCEPT ![r] = Upstream(p, "first")]
           \/ /\ c \notin DOMAIN breaking
              /\ \E p \in ChooseTarget(q) : req' = [req EXCEPT ![r] = Upstream(p, "first")]
              /\ UNCHANGED <<breaker, circuitBreakers>>

\* Mutant: one retry too many.
shouldRetry_OneMore(q, status) ==
  /\ q.branch = "retry"
  /\ status \in ClustersConfigs[q.clusterConfig].RetryOn
  /\ q.retryCount <= NumRetries(q.clusterConfig)

shouldRetry(q, status) ==
  /\ q.branch = "retry"
  /\ status \in ClustersConfigs[q.clusterConfig].RetryOn
  /\ q.retryCount < NumRetries(q.clusterConfig)

shouldFailover(q, status) == q.branch = "failover" /\ q.failoverObject # none /\ Bad(status)

\* outbound-http-default.js answers what has no target.
AnswersOf(q) ==
  IF q.target # none THEN Statuses ELSE IF q.route = none THEN {403} ELSE {404}

\* The answer of the upstream: load balancing, then the breaker, then routing.
Answer(r, status, slow) ==
  LET q == req[r]
      c == q.cluster
  IN  /\ q.pc = "upstream"
      /\ status \in AnswersOf(q)
      /\ \/ /\ shouldRetry(q, status)
            /\ req' = [req EXCEPT ![r].pc = "backoff", ![r].retryCount = @ + 1]
            /\ UNCHANGED breaker
         \/ /\ shouldFailover(q, status)
            /\ req' = [req EXCEPT ![r].pc = "standby", ![r].target = q.failoverObject,
                                  ![r].failoverObject = none]
            /\ UNCHANGED breaker
         \/ /\ ~shouldRetry(q, status) /\ ~shouldFailover(q, status)
            /\ req' = [req EXCEPT ![r] = ClusterAnswer(q, status)]
            /\ breaker' = [b \in DOMAIN breaking |->
                 IF b = c THEN CheckSlow(breaking[b], CheckError(breaking[b], breaker[b], status), slow)
                 ELSE breaker[b]]
      /\ UNCHANGED circuitBreakers

\* Mutant: only the retries are replayed.
Resend_OnlyRetry(r) ==
  /\ req[r].pc = "backoff"
  /\ req' = [req EXCEPT ![r] = Upstream(@, "retry")]
  /\ UNCHANGED <<breaker, circuitBreakers>>

\* The replay of the load balancer: after the backoff, to the same endpoint,
\* or at once to the one that stood by.
Resend(r) ==
  /\ req[r].pc \in {"backoff", "standby"}
  /\ req' = [req EXCEPT ![r] = Upstream(@, IF @.pc = "backoff" THEN "retry" ELSE "failover")]
  /\ UNCHANGED <<breaker, circuitBreakers>>

\* The task that runs every second.
Tick ==
  /\ circuitBreakers # {}
  /\ breaker' = [c \in DOMAIN breaking |->
                   IF c \in circuitBreakers THEN RefreshTimer(breaking[c], breaker[c]) ELSE breaker[c]]
  /\ UNCHANGED <<req, circuitBreakers>>

\* The timers of the quotas.
Refill(c) ==
  /\ c \in circuitBreakers
  /\ breaker' = [b \in DOMAIN breaking |->
                   IF b = c THEN RefillSlow(breaking[c], RefillError(breaking[c], breaker[c])) ELSE breaker[b]]
  /\ UNCHANGED <<req, circuitBreakers>>

-----------------------------------------------------------------------------
(* outbound-tcp-routing.js, -load-balancing.js and -default.js.            *)

\* v.Weight || 100: an endpoint that stands by for HTTP takes its turn here.
TcpEndpointWeights(c) ==
  [e \in DOMAIN ClustersConfigs[c].Endpoints |-> Or(ClustersConfigs[c].Endpoints[e].Weight, 100)]

\* outbound-tcp-routing.js: the clusters that may be next.
TcpClusters(port) ==
  IF port.Protocol = "none" THEN {none}
  ELSE {clusterCache(name) : name \in NextTarget(port.TcpTargetClusters)}

TcpConnect(r) ==
  LET q == req[r]
  IN  /\ q.pc = "tcp"
      /\ \E c \in TcpClusters(q.port) :
             \E t \in IF c = none THEN {none} ELSE NextTarget(TcpEndpointWeights(c)) :
             LET egress == t = none /\ (EnableEgress \/ (q.port.Protocol # "none" /\ q.port.AllowedEgressTraffic))
                 target == IF egress THEN q.in.address ELSE t
                 p == [q EXCEPT !.cluster = IF egress THEN none ELSE c, !.target = target, !.isEgress = @ \/ egress]
             IN  req' = [req EXCEPT ![r] =
                           IF target = none THEN [q EXCEPT !.pc = "closed"]
                           ELSE [Upstream(p, "first") EXCEPT !.pc = "piped"]]
      /\ UNCHANGED <<breaker, circuitBreakers>>

\* Either side ends a TCP connection.
TcpEnd(r) ==
  /\ req[r].pc = "piped"
  /\ req' = [req EXCEPT ![r].pc = "closed"]
  /\ UNCHANGED <<breaker, circuitBreakers>>

Next ==
  \/ \E r \in Requests, in \in Inputs : Accept(r, in)
  \/ \E r \in Requests : Send(r) \/ Resend(r) \/ TcpConnect(r) \/ TcpEnd(r)
  \/ \E r \in Requests, status \in Statuses \cup {403, 404}, slow \in BOOLEAN : Answer(r, status, slow)
  \/ Tick
  \/ \E c \in DOMAIN breaking : Refill(c)

Spec == Init /\ [][Next]_vars

\* Pipy runs its events and timers, and an upstream answers or its
\* connection times out.  Clients need not come, nor end a TCP connection.
FairSpec ==
  /\ Spec
  /\ \A r \in Requests :
       /\ WF_vars(Send(r) \/ Resend(r) \/ TcpConnect(r))
       /\ WF_vars(\E status \in Statuses \cup {403, 404}, slow \in BOOLEAN : Answer(r, status, slow))
  /\ WF_vars(Tick)

-----------------------------------------------------------------------------
TypeOK ==
  /\ \A r \in Requests :
       /\ req[r].pc \in {"accept", "route", "replay", "upstream", "backoff", "standby",
                         "tcp", "piped", "closed", "done"}
       /\ req[r].cluster \in DOMAIN ClustersConfigs \cup {none}
       /\ req[r].failoverCluster \in DOMAIN ClustersConfigs \cup {none}
       /\ req[r].passes \in 0..2
  /\ circuitBreakers \subseteq DOMAIN breaking

\* The counters of every circuit breaker are sound at every moment, with
\* answers that come after their window was reset, after the circuit opened
\* and after it closed again.
BreakersOK ==
  /\ DOMAIN breaker = DOMAIN breaking
  /\ \A c \in DOMAIN breaking : BreakerOK(breaking[c], breaker[c])

TriesOf(r, kind) == {i \in DOMAIN req[r].tries : req[r].tries[i].kind = kind}

\* A request makes no more retries than the largest NumRetries of the
\* clusters it was sent to, whatever it is replayed on (_retryCount survives
\* the replay), and fails over to another endpoint at most once per cluster.
RetryBudget ==
  \A r \in Requests :
    LET tries == req[r].tries
    IN  /\ TriesOf(r, "retry") # {} =>
             \E i \in DOMAIN tries : Cardinality(TriesOf(r, "retry")) <= NumRetries(tries[i].cluster)
        /\ \A i, j \in TriesOf(r, "failover") : tries[i].pass = tries[j].pass => i = j
        /\ Cardinality(TriesOf(r, "first")) <= 2

\* A cluster with both retries and an endpoint standing by.
RetriesAndStandBy(c) == NumRetries(c) > 0 /\ failover(EndpointWeights(c)) # {none}

\* An attempt goes to an endpoint of the cluster it is made for.  The one
\* exception is a request whose earlier cluster has both retries and an
\* endpoint standing by: retrying leaves _failoverObject behind.
TargetOfCluster ==
  \A r \in Requests : \A i \in DOMAIN req[r].tries :
    LET try == req[r].tries[i]
    IN  \/ try.cluster = none
        \/ try.target \in DOMAIN ClustersConfigs[try.cluster].Endpoints
        \/ \E j \in 1..(i - 1) : RetriesAndStandBy(req[r].tries[j].cluster)

\* A request is sent with the path its client asked for, behind the path of
\* the endpoint it is sent to, after any number of retries and on the
\* failover cluster; only the endpoint that stood by gets the path of the
\* endpoint before it.
PathOfTarget ==
  \A r \in Requests : \A i \in DOMAIN req[r].tries :
    LET try == req[r].tries[i]
    IN  try.kind # "failover" /\ req[r].port.Protocol \in {"http", "grpc"} =>
          try.path = ClustersConfigs[try.cluster].Endpoints[try.target].Path \o req[r].in.path

\* A cluster that asks for a certificate is never connected to in the clear,
\* also when the request was first sent to a cluster that asks for none.
NeverInTheClear ==
  \A r \in Requests : \A i \in DOMAIN req[r].tries :
    SourceCert(req[r].tries[i].cluster) # none => req[r].tries[i].via = "tls"

\* Every attempt of a request, the first, a retry or one after a failover, is
\* made at an endpoint of its cluster, with the path for that endpoint and
\* over TLS where the cluster asks for it.
AttemptsSound == TypeOK /\ TargetOfCluster /\ PathOfTarget /\ NeverInTheClear

\* A client is told of a failure only when nothing was left to try: the
\* route's failover cluster was used, where every one has a configuration,
\* and the endpoint standing by and the retries of the last cluster.  When it
\* is the open circuit of the last cluster that answers, the retries left on
\* the cluster before it stay unused.
ErrorOnlyWhenExhausted ==
  \A r \in Requests :
    LET q == req[r]
    IN  q.pc = "done" /\ Bad(q.status) =>
          /\ (\A f \in failover(q.route.TargetClusters) : clusterCache(f) # none) => q.passes = 2
          /\ q.branch = "failover" => TriesOf(r, "failover") # {}
          /\ /\ q.branch = "retry" /\ q.clusterConfig = q.cluster
             /\ q.status \in ClustersConfigs[q.clusterConfig].RetryOn
             => q.retryCount >= NumRetries(q.clusterConfig)

\* Retries and both failovers are used up before a client is told of a
\* failure, and never used twice.
TriedExactly == RetryBudget /\ ErrorOnlyWhenExhausted

\* Every request is answered or its connection closed or piped, through
\* retries, both failovers and open circuits.
EveryRequestEnds ==
  \A r \in Requests : req[r].pc # "accept" ~> req[r].pc \in {"done", "piped", "closed"}

\* An open circuit closes again, whatever answers still come in.
CircuitCloses == \A c \in DOMAIN breaking : breaker[c].degraded ~> ~breaker[c].degraded
=============================================================================
