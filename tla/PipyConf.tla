------------------------------ MODULE PipyConf ------------------------------
(***************************************************************************)
(* The PipyConfGeneratorJob: how the controller turns its informer caches  *)
(* into the configuration of the sidecar.  The job first asks the catalog  *)
(* for the outbound policy, then writes routes and, cluster by cluster,    *)
(* reads the endpoints; the caches may change in between.  What a          *)
(* configuration does to a request is read off the sidecar's own rules     *)
(* (SidecarRouting).                                                       *)
(***************************************************************************)
EXTENDS Catalog, FiniteSets

CONSTANTS
  Objects,          (* kind and name: the objects of the informer caches, none where absent *)
  AddrWithPort,     (* the addresses whose text ends like one with a port *)
  EcnetConfigs      (* the EcnetConfigs there may be, none where absent *)

ASSUME ObjectsAssumption ==
  /\ \A n \in DOMAIN Objects.ServiceImport :
       /\ \A ports \in Objects.ServiceImport[n] : IsServiceImport(ports)
       /\ \A policy \in Objects.GlobalTrafficPolicy[n] \ {none} : IsGlobalTrafficPolicy(policy)
  /\ \A config \in EcnetConfigs \ {none} : IsEcnetConfig(config)

Sidecar == INSTANCE SidecarRouting

VARIABLES
  cache,     (* the informer caches *)
  job,       (* [pc, prepared, policy, read]: where the job is, what it has of the
                configuration, the policy it got, and from which cache *)
  conf,      (* the generated PipyConf *)
  retry,     (* retryProxiesJob was called *)
  from       (* the caches conf was generated from: for the policy, for the endpoints *)

vars == <<cache, job, conf, retry, from>>

-----------------------------------------------------------------------------
(* generatePipyOutboundTrafficRoutePolicy *)

\* Mutant: HTTP services are kept apart too.
MatchName_PerService(t) == <<t.Service.Port, t.Service.Name, t.Service.Protocol>>

\* newTrafficMatch: the HTTP services of a port share one traffic match.
MatchName(t) ==
  IF t.Service.Protocol \in {"http", "grpc"} THEN <<t.Service.Port, <<>>, "http">>
  ELSE <<t.Service.Port, t.Service.Name, t.Service.Protocol>>

\* The match's service again, from its name; its TargetPort holds the port.
trafficMatchToMeshSvc(t) == MeshService(t.Service.Name, 0, t.Service.Port, t.Service.Protocol, none)

arrayEqual(a, set) == Len(a) = Cardinality(set) /\ ToSet(a) = set

getOutboundHTTPRouteConfigs(policy, t) ==
  LET upstreamSvc == trafficMatchToMeshSvc(t)
  IN  {r \in policy.HTTPRouteConfigsPerPort :
         /\ r.Port = upstreamSvc.TargetPort /\ r.Name = upstreamSvc.Name
         /\ \E route \in ToSet(r.Routes) : arrayEqual(t.WeightedClusters, route.WeightedClusters)}

WeightedClusters(matches) == FlatMap(matches, LAMBDA t : t.WeightedClusters)

\* Mutant: the first one counts.
addWeightedClusters_FirstWeight(clusters) ==
  [c \in {w.ClusterName : w \in ToSet(clusters)} |->
     Head(SelectSeq(clusters, LAMBDA w : w.ClusterName = c)).Weight]

\* addWeightedCluster for each: the last weight of a cluster counts.
addWeightedClusters(clusters) ==
  [c \in {w.ClusterName : w \in ToSet(clusters)} |->
     Last(SelectSeq(clusters, LAMBDA w : w.ClusterName = c)).Weight]

\* newHTTPServiceRouteRules and newHTTPServiceRouteRule: the one rule of each
\* service, which takes any path and any method.
HTTPServiceRouteRules(matches, routes) ==
  LET of(name) == SelectSeq(matches, LAMBDA t : t.Service.Name = name)
      rule(name) == [TargetClusters |-> addWeightedClusters(WeightedClusters(of(name)))] @@ WildCardRouteMatch
  IN  [name \in {r.Name : r \in routes} |-> <<rule(name)>>]

addHTTPHostPort2Service(routes) ==
  [h \in UNION {r.Hostnames : r \in routes} |-> (CHOOSE r \in routes : h \in r.Hostnames).Name]

setProtocol(protocol) == IF protocol = "tcp-server-first" THEN "tcp" ELSE protocol

\* The clusters of a TCP service, or of one whose TLS is passed through.
TCPServiceRouteRules(protocol, matches) ==
  IF protocol \in {"tcp", "tcp-server-first", "https"} THEN addWeightedClusters(WeightedClusters(matches)) ELSE <<>>

\* The traffic match made of the policy's matches of one name.
TrafficMatch(policy, matches) ==
  LET protocol == matches[1].Service.Protocol
      routes   == IF protocol \notin {"http", "grpc"} THEN {}
                  ELSE UNION {getOutboundHTTPRouteConfigs(policy, t) : t \in ToSet(matches)}
  IN  [ Port     |-> matches[1].Service.Port,
        Protocol |-> setProtocol(protocol),
        ranges   |-> <<>>,
        HttpHostPort2Service  |-> addHTTPHostPort2Service(routes),
        HttpServiceRouteRules |-> HTTPServiceRouteRules(matches, routes),
        TcpTargetClusters     |-> TCPServiceRouteRules(protocol, matches) ]

\* newTrafficMatch, in the order in which the names first come.
OutboundTrafficMatches(policy) ==
  LET all == policy.TrafficMatches
      named(i) == SelectSeq(all, LAMBDA t : MatchName(t) = MatchName(all[i]))
      firsts(p) == SelectSeq([i \in DOMAIN all |-> i], LAMBDA i :
                     /\ all[i].Service.Port = p
                     /\ \A j \in 1..(i - 1) : MatchName(all[j]) # MatchName(all[i]))
  IN  [p \in {t.Service.Port : t \in ToSet(all)} |->
         Map(firsts(p), LAMBDA i : TrafficMatch(policy, named(i)))]

dependClusters(policy) ==
  LET used == SelectSeq(policy.TrafficMatches, LAMBDA t :
                t.Service.Protocol \in SupportedProtocolsInMesh \cup {"https"})
  IN  {w.ClusterName : w \in ToSet(WeightedClusters(used))}

-----------------------------------------------------------------------------
(* generatePipyOutboundTrafficBalancePolicy and rebalancedOutboundClusters *)

getMeshClusterConfigs(policy, cluster) ==
  Head(SelectSeq(policy.ClustersConfigs, LAMBDA c : c.Name = cluster))

\* A cluster's name holds the target port, and not the port.
clusterToMeshSvc(cluster) == MeshService(cluster[1], 0, cluster[2], none, none)

getUpstreamEndpoints(now, cluster) == ListUpstreamEndpointsForService(now, clusterToMeshSvc(cluster))

\* The key of addWeightedZoneEndpoint.
HTTPHostPort(e, port) == IF e.IP \in AddrWithPort THEN <<e.IP>> ELSE <<e.IP, port>>

\* The last endpoint at an address counts.
ZoneEndpoints(policy, now, cluster) ==
  LET service == getMeshClusterConfigs(policy, cluster).Service
      port(e) == IF e.ClusterKey # none /\ service.TargetPort > 0 THEN service.TargetPort ELSE service.Port
      hostPort(e) == HTTPHostPort(e, port(e))
      endpoints == getUpstreamEndpoints(now, cluster)
      at(a) == Last(SelectSeq(endpoints, LAMBDA e : hostPort(e) = a))
  IN  [a \in {hostPort(e) : e \in ToSet(endpoints)} |->
         [Weight |-> at(a).Weight, Cluster |-> at(a).ClusterKey, LBType |-> at(a).LBType, Path |-> at(a).Path]]

\* Mutant: the weights of the policy are overwritten too.
Rebalanced_WeightsLost(endpoints) ==
  LET local == \E a \in DOMAIN endpoints : endpoints[a].Cluster = none
  IN  [a \in DOMAIN endpoints |->
         [endpoints[a] EXCEPT !.Weight = IF endpoints[a].LBType = "FailOver" /\ local THEN 0 ELSE 100]]

Rebalanced(endpoints) ==
  LET hasLocalEndpoints == \E a \in DOMAIN endpoints : endpoints[a].Cluster = none
      weight(e) == IF e.LBType = "FailOver" /\ hasLocalEndpoints THEN ClusterWeightFailOver
                   ELSE IF e.LBType = "FailOver" \/ e.Weight = 0 THEN ClusterWeightAcceptAll
                   ELSE e.Weight
  IN  [a \in DOMAIN endpoints |-> [endpoints[a] EXCEPT !.Weight = weight(endpoints[a])]]

\* Mutant: only the endpoints of the last cluster decide.
Ready_LastCluster(policy, now) ==
  \E c \in dependClusters(policy) : getUpstreamEndpoints(now, c) # <<>>

\* ready: every cluster has endpoints.
Ready(policy, now) == \A c \in dependClusters(policy) : getUpstreamEndpoints(now, c) # <<>>

-----------------------------------------------------------------------------
\* Without an EcnetConfig the defaults are those of Go: no level, no plugin.
getEcnetConfig(now) ==
  IF now.EcnetConfig = none THEN [LogLevel |-> none, PluginChains |-> [m \in MountPoints |-> <<>>]]
  ELSE now.EcnetConfig

\* The plugins of each mount point that are not disabled.
GetGlobalPluginChains(now) ==
  LET chains == getEcnetConfig(now).PluginChains
      plugin(p) == [Name |-> p.Plugin, Priority |-> p.Priority, BuildIn |-> TRUE]
  IN  [m \in MountPoints |-> Map(SelectSeq(chains[m], LAMBDA p : ~p.Disable), plugin)]

\* Mutant: the order of the configuration is kept.
setSidecarChain_Unsorted(chains) == Restrict(chains, {m \in DOMAIN chains : chains[m] # <<>>})

\* Less of a PluginSlice; sort.Sort keeps equal ones of so few in order.
Less(c, i, j) == c[i].Priority > c[j].Priority \/ (c[i].Priority = c[j].Priority /\ i < j)

\* The plugins of a chain are sorted in place, so the range over pluginItems
\* sees them sorted.
setSidecarChain(chains) ==
  LET sorted(c) == Map(SetToSortSeq(DOMAIN c, LAMBDA i, j : Less(c, i, j)), LAMBDA i : c[i])
  IN  [m \in {n \in DOMAIN chains : chains[n] # <<>>} |-> sorted(chains[m])]

\* newClusterConfigs for every cluster in use, with its endpoints.
ClustersConfigs(policy, now) ==
  [c \in dependClusters(policy) |-> Rebalanced(ZoneEndpoints(policy, now, c))]

\* A new PipyConf has no level, so the setting is taken over as it is.
setSidecarLogLevel(now) == getEcnetConfig(now).LogLevel

\* features and plugin, which come first.
Prepared(now) ==
  [SidecarLogLevel |-> setSidecarLogLevel(now), Chains |-> setSidecarChain(GetGlobalPluginChains(now))]

Outbound(policy, now) ==
  [ TrafficMatches  |-> OutboundTrafficMatches(policy),
    ClustersConfigs |-> ClustersConfigs(policy, now),
    DNSResolveDB    |-> policy.ServicesResolvableSet ]

-----------------------------------------------------------------------------
Names == DOMAIN Objects.Service

Contents(kind) ==
  {f \in [Names -> UNION {Objects[kind][n] : n \in Names}] : \A n \in Names : f[n] \in Objects[kind][n]}

\* Every order in which the informers may list their objects.
Orders ==
  LET orders == {s \in [1..Cardinality(Names) -> Names] : ToSet(s) = Names}
  IN  [ServiceImport : orders, Service : orders]

Idle == [pc |-> "idle", prepared |-> none, policy |-> none, read |-> none]

Init ==
  /\ cache \in [ Service : Contents("Service"), Endpoints : Contents("Endpoints"),
                 ServiceImport : Contents("ServiceImport"),
                 GlobalTrafficPolicy : Contents("GlobalTrafficPolicy"), EcnetConfig : EcnetConfigs ]
  /\ job = Idle
  /\ conf = none /\ retry = FALSE /\ from = none

\* An informer brings an object up to date: at most once in a job.
Change(kind, n, object) ==
  /\ job.pc = "generate" /\ job.read = cache
  /\ object # cache[kind][n]
  /\ cache' = [cache EXCEPT ![kind][n] = object]
  /\ UNCHANGED <<job, conf, retry, from>>

\* So does the one of the EcnetConfig.
ChangeConfig(config) ==
  /\ job.pc = "generate" /\ job.read = cache
  /\ config # cache.EcnetConfig
  /\ cache' = [cache EXCEPT !.EcnetConfig = config]
  /\ UNCHANGED <<job, conf, retry, from>>

\* features, plugin and the first half of outbound.  A job uses nothing that an earlier one left, so the
\* model runs one.
GetPolicy(order) ==
  /\ job.pc = "idle" /\ conf = none
  /\ job' = [ pc |-> "generate", prepared |-> Prepared(cache),
              policy |-> GetOutboundMeshTrafficPolicy(cache, order), read |-> cache ]
  /\ UNCHANGED <<cache, conf, retry, from>>

\* outbound, second half, with balance and reorder, which has one rule
\* to sort.
Generate ==
  /\ job.pc = "generate"
  /\ conf' = job.prepared @@ Outbound(job.policy, cache)
  /\ retry' = ~Ready(job.policy, cache)
  /\ from' = <<job.read, cache>>
  /\ job' = Idle
  /\ UNCHANGED cache

Next ==
  \/ \E kind \in DOMAIN Objects, n \in Names : \E object \in Objects[kind][n] : Change(kind, n, object)
  \/ \E config \in EcnetConfigs : ChangeConfig(config)
  \/ \E order \in Orders : GetPolicy(order)
  \/ Generate

Spec == Init /\ [][Next]_vars

-----------------------------------------------------------------------------
(* bridge/ctrlplane/server/types.go *)

IsWeightedClusters(clusters) == \A c \in DOMAIN clusters : clusters[c] \in Nat

IsHTTPRouteRule(rule) ==
  DOMAIN rule = {"Type", "Path", "Methods", "TargetClusters"} /\ IsWeightedClusters(rule.TargetClusters)

\* Hosts lead to the rules of a service.
IsOutboundTrafficMatch(m) ==
  /\ m.Port \in Nat /\ m.Protocol \in {"http", "grpc", "tcp", "https"}
  /\ Range(m.HttpHostPort2Service) \subseteq DOMAIN m.HttpServiceRouteRules
  /\ \A n \in DOMAIN m.HttpServiceRouteRules : \A rule \in ToSet(m.HttpServiceRouteRules[n]) : IsHTTPRouteRule(rule)
  /\ IsWeightedClusters(m.TcpTargetClusters)

IsWeightedZoneEndpoint(e) == DOMAIN e = {"Weight", "Cluster", "LBType", "Path"} /\ e.Weight \in Nat

IsPipyConf(c) ==
  /\ DOMAIN c = {"SidecarLogLevel", "Chains", "TrafficMatches", "ClustersConfigs", "DNSResolveDB"}
  /\ \A p \in DOMAIN c.TrafficMatches : \A m \in ToSet(c.TrafficMatches[p]) : m.Port = p /\ IsOutboundTrafficMatch(m)
  /\ \A n \in DOMAIN c.ClustersConfigs : \A a \in DOMAIN c.ClustersConfigs[n] :
       IsWeightedZoneEndpoint(c.ClustersConfigs[n][a])

TypeOK ==
  /\ job.pc \in {"idle", "generate"}
  /\ (job.pc = "generate") = (job.policy # none)
  /\ job.policy # none => IsOutboundMeshTrafficPolicy(job.policy)
  /\ retry \in BOOLEAN
  /\ (conf = none) = (from = none)
  /\ conf # none => IsPipyConf(conf)

Generated == conf # none

\* The caches did not change while the job ran.
Undisturbed == Generated /\ from[1] = from[2]

EndpointWeights(c) == [a \in DOMAIN conf.ClustersConfigs[c] |-> conf.ClustersConfigs[c][a].Weight]

Matches == UNION {ToSet(conf.TrafficMatches[p]) : p \in DOMAIN conf.TrafficMatches}

\* The clusters that a traffic match sends requests to.
Targets(m) ==
  DOMAIN m.TcpTargetClusters \cup
  UNION {DOMAIN m.HttpServiceRouteRules[n][1].TargetClusters : n \in DOMAIN m.HttpServiceRouteRules}

\* A configuration that routes to a cluster without endpoints is never left
\* at that: another job is asked for, also when the endpoints went away
\* between the policy and the clusters (ready and retryProxiesJob).
RetryWhenIncomplete ==
  /\ TypeOK
  /\ Generated => \A m \in Matches : \A c \in Targets(m) :
       /\ c \in DOMAIN conf.ClustersConfigs
       /\ DOMAIN conf.ClustersConfigs[c] = {} => retry

\* Only imported endpoints under FailOver stand by, and only behind a local
\* one of their cluster: a cluster with endpoints always has one to use.
StandByBehindLocal ==
  Generated => \A c \in DOMAIN conf.ClustersConfigs :
    LET endpoints == conf.ClustersConfigs[c]
    IN  /\ DOMAIN endpoints # {} => Sidecar!NextTarget(EndpointWeights(c)) # {none}
        /\ \A a \in DOMAIN endpoints : endpoints[a].Weight = 0 =>
             /\ endpoints[a].LBType = "FailOver"
             /\ \E b \in DOMAIN endpoints : endpoints[b].Cluster = none

\* Imported endpoints are used as the GlobalTrafficPolicy says at the time the
\* endpoints are read: not under Locality, only in the clusters it names, and
\* with the weight it gives to theirs; under FailOver they stand by behind
\* local ones (StandByBehindLocal).
PolicyRespected ==
  /\ StandByBehindLocal
  /\ Generated => \A c \in DOMAIN conf.ClustersConfigs : \A a \in DOMAIN conf.ClustersConfigs[c] :
       LET e == conf.ClustersConfigs[c][a]
           n == Last(c[1])
           keys == ClusterKeys(from[2], n)
       IN  e.Cluster # none =>
             /\ LbType(from[2], n) # "Locality"
             /\ DOMAIN keys # {} => e.Cluster \in DOMAIN keys
             /\ LbType(from[2], n) = "ActiveActive" /\ DOMAIN keys # {} =>
                  e.Weight = IF keys[e.Cluster] = 0 THEN 100 ELSE keys[e.Cluster]

\* The names that the DNS proxy answers for are those of the imported services
\* with an endpoint in use, and each has an address of such a service.
NamesResolve ==
  Generated =>
    LET imported == {n \in Names : ImportedMeshServices(from[1], n) # <<>>}
    IN  /\ DOMAIN conf.DNSResolveDB = {<<n>> : n \in imported}
        /\ \A n \in imported : \E p \in ToSet(from[1].ServiceImport[n]) :
             conf.DNSResolveDB[<<n>>] \cap {e.IP : e \in ToSet(p.Endpoints)} # {}

ListOrder == CHOOSE order \in Orders : TRUE

Services == ToSet(listMeshServices(from[1], ListOrder))

\* The sidecar's match of a port, as config.js and outbound-main.js find it.
PortMatch(p) == Sidecar!Destination(Sidecar!mergeTrafficMatches(conf.TrafficMatches[p]), none).match

\* The clusters the sidecar may choose for a request to a host of a service.
ChosenClusters(s, host) ==
  LET match == PortMatch(s.Port)
      rule  == Sidecar!FindRule(match, host, "GET", <<>>)
  IN  IF Sidecar!protocol(match, FALSE) = "tcp" THEN Sidecar!NextTarget(match.TcpTargetClusters)
      ELSE IF rule = none THEN {none} ELSE Sidecar!NextTarget(rule.TargetClusters)

\* The services that the sidecar can tell apart on a port: HTTP ones by host.
Apart(s, t) ==
  s.Port = t.Port => \/ s.Name = t.Name /\ s.Protocol = t.Protocol
                     \/ {s.Protocol, t.Protocol} \subseteq {"http", "grpc"}

\* A complete configuration serves every imported service: from any of its
\* hosts the sidecar gets to a cluster of that service and there to an
\* endpoint.  The exception is FailOver with no local service at the target
\* ports, whose route has no cluster but those that stand by.  The names of the
\* services resolve (NamesResolve).
Served ==
  /\ NamesResolve
  /\ Undisturbed /\ ~retry =>
       \A s \in Services : (\A t \in Services : Apart(s, t)) =>
         \A host \in GetHostnamesForService(s) :
           LET chosen == ChosenClusters(s, host)
           IN  \/ \A c \in chosen : /\ c # none /\ c[1] = s.Name
                                    /\ Sidecar!NextTarget(EndpointWeights(c)) # {none}
               \/ /\ chosen = {none} /\ LbType(from[1], Last(s.Name)) = "FailOver"
                  /\ \A t \in Services : t.Name = s.Name /\ t.Port = s.Port => t.ServiceImportUID # none

\* The same caches give the same configuration in whatever order the informers
\* list their objects, so an unchanged system is not published anew.  The
\* exception are ports with services of several protocols, or several TCP ones.
Stable ==
  Undisturbed /\ (\A s, t \in Services : Apart(s, t) /\ (s.Port = t.Port => s.Protocol = t.Protocol)) =>
    \A order \in Orders :
      Prepared(from[1]) @@ Outbound(GetOutboundMeshTrafficPolicy(from[1], order), from[2]) = conf

\* Plugins run by descending priority, and those that run are the enabled ones
\* of the EcnetConfig the job found, with its log level; none without one
\* (setSidecarChain and features).
ChainByPriority ==
  Generated =>
    /\ \A m \in DOMAIN conf.Chains : \A i, j \in DOMAIN conf.Chains[m] :
         i < j => conf.Chains[m][i].Priority >= conf.Chains[m][j].Priority
    /\ from[1].EcnetConfig = none => DOMAIN conf.Chains = {}
    /\ from[1].EcnetConfig # none =>
         /\ conf.SidecarLogLevel = from[1].EcnetConfig.LogLevel
         /\ \A m \in MountPoints :
              LET chain == IF m \in DOMAIN conf.Chains THEN conf.Chains[m] ELSE <<>>
              IN  {p.Name : p \in ToSet(chain)} =
                    {p.Plugin : p \in {q \in ToSet(from[1].EcnetConfig.PluginChains[m]) : ~q.Disable}}
=============================================================================
