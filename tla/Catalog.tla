------------------------------ MODULE Catalog ------------------------------
(***************************************************************************)
(* What the controller makes of the objects in its informer caches: the    *)
(* kube and multicluster (fsm) service providers, their endpoints, and the *)
(* outbound policy of catalog/outbound_traffic_policies.go.  Operators     *)
(* only.  A cache maps the names of services to                            *)
(*   Service              none or [ClusterIP, Ports], a port being         *)
(*                        [Port, Name, AppProtocol];                       *)
(*   Endpoints            none or the subsets, each [Addresses, Ports];    *)
(*   ServiceImport        its ports, each with its Endpoints               *)
(*                        [ClusterKey, IP, Port, Path];                    *)
(*   GlobalTrafficPolicy  none or [LbType, LoadBalanceTarget];             *)
(* and holds the EcnetConfig, none or [LogLevel, PluginChains].            *)
(* There is one namespace.  A name is a sequence: <<n>>, or <<h, n>> for   *)
(* the host h of a headless service n; its last part is the ProviderKey.   *)
(***************************************************************************)
EXTENDS Integers, SequencesExt

CONSTANTS
  none,
  Paths, Methods,   (* what ".*" and "*" match *)
  TrustDomain       (* how many parts the trust domain has *)

-----------------------------------------------------------------------------
(* apis/multicluster/v1alpha1 and apis/config/v1alpha1: what the API server *)
(* lets an object be                                                       *)

LoadBalancerType == {"ActiveActive", "Locality", "FailOver"}

\* The weight of a TrafficTarget is optional.
IsGlobalTrafficPolicy(policy) ==
  /\ policy.LbType \in LoadBalancerType
  /\ \A key \in DOMAIN policy.LoadBalanceTarget : policy.LoadBalanceTarget[key] \in Nat \cup {none}

IsTarget(e) == DOMAIN e = {"ClusterKey", "IP", "Port", "Path"} /\ e.Port \in Nat

IsServicePort(p) ==
  /\ DOMAIN p = {"Name", "AppProtocol", "Port", "Endpoints"}
  /\ p.Port \in Nat \ {0}
  /\ \A e \in {p.Endpoints[i] : i \in DOMAIN p.Endpoints} : IsTarget(e)

IsServiceImport(ports) == \A i \in DOMAIN ports : IsServicePort(ports[i])

MountPoints == {"inbound-tcp", "inbound-http", "outbound-tcp", "outbound-http"}

IsPluginChainSpec(p) == DOMAIN p = {"Plugin", "Priority", "Disable"} /\ p.Disable \in BOOLEAN

IsPluginChainsSpec(chains) ==
  /\ DOMAIN chains = MountPoints
  /\ \A m \in MountPoints : \A i \in DOMAIN chains[m] : IsPluginChainSpec(chains[m][i])

IsEcnetConfig(config) ==
  DOMAIN config = {"LogLevel", "PluginChains"} /\ IsPluginChainsSpec(config.PluginChains)

-----------------------------------------------------------------------------
Map(s, Op(_))     == [i \in DOMAIN s |-> Op(s[i])]
FlatMap(s, Op(_)) == FlattenSeq(Map(s, Op))

ClusterWeightAcceptAll == 100
ClusterWeightFailOver  == 0

SupportedProtocolsInMesh == {"tcp-server-first", "http", "tcp", "grpc"}

-----------------------------------------------------------------------------
(* service/types.go *)

MeshService(name, port, targetPort, protocol, uid) ==
  [ Name |-> name, Port |-> port, TargetPort |-> targetPort, Protocol |-> protocol,
    ServiceImportUID |-> uid ]

ProviderKey(svc) == Last(svc.Name)

Subdomain(svc) == IF Len(svc.Name) = 1 THEN none ELSE svc.Name[1]

IsMultiClusterService(svc) == svc.ServiceImportUID # none

ClusterName(svc) == <<svc.Name, svc.TargetPort>>

WeightedCluster(name, weight) == [ClusterName |-> name, Weight |-> weight]

\* A service is called by its name with ever more of the trust domain, with
\* or without its port (0).
GetHostnamesForService(svc) == {svc.Name} \X (0..(1 + TrustDomain)) \X {0, svc.Port}

\* appProtocol, else the first part of the port's name, else http.
Protocol(port) ==
  IF port.AppProtocol # none THEN port.AppProtocol
  ELSE IF port.Name # <<>> /\ Head(port.Name) \in SupportedProtocolsInMesh THEN Head(port.Name)
  ELSE "http"

Endpoint(ip, port, key, lbType, weight, path) ==
  [ IP |-> ip, Port |-> port, ClusterKey |-> key, LBType |-> lbType, Weight |-> weight, Path |-> path ]

-----------------------------------------------------------------------------
(* k8s/client.go and service/providers/kube/client.go *)

IsHeadlessService(svc) == svc.ClusterIP = none

GetService(cache, svc) == cache.Service[ProviderKey(svc)]

GetEndpoints(cache, svc) == cache.Endpoints[ProviderKey(svc)]

GetTargetPortFromEndpoints(name, subsets) ==
  LET fits == FlatMap(subsets, LAMBDA s :
                SelectSeq(s.Ports, LAMBDA p : name = <<>> \/ Len(s.Ports) = 1 \/ p.Name = name))
  IN  IF fits = <<>> THEN 0 ELSE fits[1].Port

\* ServiceToMeshServices: one per port, or one per host of a headless service.
KubeMeshServices(cache, n) ==
  LET svc     == cache.Service[n]
      subsets == cache.Endpoints[n]
      hosts   == IF ~IsHeadlessService(svc) \/ subsets = none THEN <<>>
                 ELSE SelectSeq(FlatMap(subsets, LAMBDA s : s.Addresses),
                                LAMBDA a : a.Hostname # none)
      of(port) ==
        LET target == IF subsets = none THEN 0 ELSE GetTargetPortFromEndpoints(port.Name, subsets)
            named(name) == MeshService(name, port.Port, target, Protocol(port), none)
        IN  IF hosts = <<>> THEN <<named(<<n>>)>>
            ELSE Map(hosts, LAMBDA a : named(<<a.Hostname, n>>))
  IN  FlatMap(svc.Ports, of)

\* The services, in the order in which the informer lists them.
ListServices(cache, order) == SelectSeq(order, LAMBDA n : cache.Service[n] # none)

KubeServices(cache, order) == FlatMap(ListServices(cache, order), LAMBDA n : KubeMeshServices(cache, n))

KubeEndpoints(cache, svc) ==
  LET subsets == GetEndpoints(cache, svc)
      named(a) == Subdomain(svc) \in {none, a.Hostname}
      at(s, p) == Map(SelectSeq(s.Addresses, named), LAMBDA a : Endpoint(a.IP, p.Port, none, none, 0, none))
      of(s)    == FlatMap(SelectSeq(s.Ports, LAMBDA p : svc.TargetPort \in {0, p.Port}), LAMBDA p : at(s, p))
  IN  IF subsets = none THEN <<>> ELSE FlatMap(subsets, of)

\* GetResolvableEndpointsForService: the cluster IP, or the endpoints.
KubeResolvable(cache, svc) ==
  LET kube == GetService(cache, svc)
  IN  IF kube = none THEN <<>>
      ELSE IF IsHeadlessService(kube) THEN KubeEndpoints(cache, svc)
      ELSE Map(kube.Ports, LAMBDA p : Endpoint(kube.ClusterIP, p.Port, none, none, 0, none))

-----------------------------------------------------------------------------
(* service/multicluster and service/providers/fsm/client.go *)

\* A service with no policy is local.
isLocality(cache, n) ==
  cache.GlobalTrafficPolicy[n] # none => cache.GlobalTrafficPolicy[n].LbType = "Locality"

\* getServiceTrafficPolicy: the type, and the weights of the clusters.
LbType(cache, n) ==
  IF cache.GlobalTrafficPolicy[n] = none THEN "Locality" ELSE cache.GlobalTrafficPolicy[n].LbType

ClusterKeys(cache, n) ==
  LET targets == cache.GlobalTrafficPolicy[n].LoadBalanceTarget
  IN  [k \in DOMAIN targets |-> IF targets[k] = none THEN 0 ELSE targets[k]]

\* The weight that an active-active policy has for the cluster a service came
\* from; one that stands by has none, and a local one is not asked for.
GetLbWeightForService(cache, svc) ==
  LET keys == ClusterKeys(cache, ProviderKey(svc))
  IN  IF LbType(cache, ProviderKey(svc)) # "ActiveActive" THEN ClusterWeightFailOver
      ELSE IF DOMAIN keys = {} THEN ClusterWeightAcceptAll
      ELSE IF svc.ServiceImportUID \in DOMAIN keys THEN keys[svc.ServiceImportUID] ELSE 0

\* GetEndpoints: the endpoints of the first port that fits and has any, in
\* the clusters the policy names.
ImportEndpoints(cache, svc) ==
  LET n     == ProviderKey(svc)
      keys  == ClusterKeys(cache, n)
      ports == SelectSeq(cache.ServiceImport[n],
                 LAMBDA p : svc.Name = <<n>> /\ svc.Port \in {0, p.Port} /\ p.Endpoints # <<>>)
  IN  IF LbType(cache, n) = "Locality" \/ ports = <<>> THEN <<>>
      ELSE SelectSeq(ports[1].Endpoints,
             LAMBDA e : /\ svc.TargetPort \in {0, e.Port}
                        /\ DOMAIN keys = {} \/ e.ClusterKey \in DOMAIN keys)

\* ListEndpointsForService.  What the annotations keep of an endpoint is filed
\* under its address, so the last one at an address counts.
ImportedEndpoints(cache, svc) ==
  LET keys   == ClusterKeys(cache, ProviderKey(svc))
      chosen == ImportEndpoints(cache, svc)
      noted(e)  == Last(SelectSeq(chosen, LAMBDA f : f.IP = e.IP /\ f.Port = e.Port))
      weight(e) == IF DOMAIN keys = {} THEN 0 ELSE keys[noted(e).ClusterKey]
  IN  Map(chosen, LAMBDA e : Endpoint(e.IP, e.Port, noted(e).ClusterKey, LbType(cache, ProviderKey(svc)),
                                      weight(e), noted(e).Path))

\* ListServices: a service for every endpoint of every port.
ImportServices(cache, n) ==
  IF isLocality(cache, n) THEN <<>>
  ELSE FlatMap(cache.ServiceImport[n],
               LAMBDA p : Map(p.Endpoints, LAMBDA e : [UID |-> e.ClusterKey, Port |-> p]))

\* ServiceToMeshServices: for each of these, one for the target port of every
\* endpoint in use.
ImportedMeshServices(cache, n) ==
  LET of(s) == Map(ImportEndpoints(cache, MeshService(<<n>>, s.Port.Port, 0, Protocol(s.Port), s.UID)),
                   LAMBDA t : MeshService(<<n>>, s.Port.Port, t.Port, Protocol(s.Port), s.UID))
  IN  FlatMap(ImportServices(cache, n), of)

\* GetService: the first endpoint with the target port stands for the cluster IP.
ImportService(cache, svc) ==
  LET n     == ProviderKey(svc)
      ports == SelectSeq(cache.ServiceImport[n],
                 LAMBDA p : svc.Name = <<n>> /\ p.Port = svc.Port /\ p.Endpoints # <<>>)
      fits  == SelectSeq(ports[1].Endpoints, LAMBDA e : e.Port = svc.TargetPort)
  IN  IF isLocality(cache, n) \/ ports = <<>> THEN none
      ELSE [ClusterIP |-> IF fits = <<>> THEN none ELSE fits[1].IP, Port |-> svc.Port]

\* GetResolvableEndpointsForService marks the address with the provider's name.
ImportedResolvable(cache, svc) ==
  LET imported == ImportService(cache, svc)
  IN  IF imported = none THEN <<>>
      ELSE IF IsHeadlessService(imported) THEN ImportedEndpoints(cache, svc)
      ELSE <<Endpoint(imported.ClusterIP, imported.Port, "fsm", none, 0, none)>>

-----------------------------------------------------------------------------
(* catalog *)

\* listMeshServices: the imported services, then the local ones with the
\* name of one of them.  The informers list their objects in any order.
listMeshServices(cache, order) ==
  LET imported == FlatMap(order.ServiceImport, LAMBDA n : ImportedMeshServices(cache, n))
      local    == KubeServices(cache, order.Service)
  IN  imported \o SelectSeq(local, LAMBDA s : \E i \in DOMAIN imported : imported[i].Name = s.Name)

\* The endpoints of all providers; none is an error of the caller's.
listEndpointsForService(cache, svc) == KubeEndpoints(cache, svc) \o ImportedEndpoints(cache, svc)

ListUpstreamEndpointsForService(cache, svc) == listEndpointsForService(cache, svc)

getDNSResolvableServiceEndpoints(cache, svc) ==
  ToSet(KubeResolvable(cache, svc) \o ImportedResolvable(cache, svc))

\* The one cluster behind a service, and its weight.
mergeUpstreamClusters(cache, svc) ==
  LET lb     == LbType(cache, ProviderKey(svc))
      weight == GetLbWeightForService(cache, svc)
  IN  <<WeightedCluster(ClusterName(svc),
          IF IsMultiClusterService(svc) /\ (lb = "FailOver" \/ (lb = "ActiveActive" /\ weight > 0))
          THEN weight ELSE ClusterWeightAcceptAll)>>

\* Of several clusters with a name the first one counts.
getWildCardRouteUpstreamClusters(clusters) ==
  LET firsts == SelectSeq([i \in DOMAIN clusters |-> i], LAMBDA i :
                  \A k \in 1..(i - 1) : clusters[k].ClusterName # clusters[i].ClusterName)
  IN  Map(firsts, LAMBDA i : clusters[i])

WildCardRouteMatch == [Type |-> "Regex", Path |-> Paths, Methods |-> Methods]

\* A second route for the same match is not added, and an error unless it has
\* the same clusters.
AddRoute(routes, match, clusters) ==
  IF \E r \in ToSet(routes) : r.HTTPRouteMatch = match THEN routes
  ELSE Append(routes, [HTTPRouteMatch |-> match, WeightedClusters |-> ToSet(clusters)])

\* The addresses a name resolves to, for the names with an imported endpoint;
\* of several services of a name the last one counts.
ServicesResolvableSet(cache, services) ==
  LET resolvable == SelectSeq(services, LAMBDA s :
                      \E e \in getDNSResolvableServiceEndpoints(cache, s) : e.ClusterKey # none)
      lastOf(name) == Last(SelectSeq(resolvable, LAMBDA s : s.Name = name))
  IN  [name \in {s.Name : s \in ToSet(resolvable)} |->
         {e.IP : e \in getDNSResolvableServiceEndpoints(cache, lastOf(name))}]

\* Every service has a traffic match and, unless it is TCP, a wildcard route
\* for its hosts.
GetOutboundMeshTrafficPolicy(cache, order) ==
  LET services == listMeshServices(cache, order)
      match(s) == [Service |-> s, WeightedClusters |-> mergeUpstreamClusters(cache, s)]
      route(s) == [ Port |-> s.Port, Name |-> s.Name, Hostnames |-> GetHostnamesForService(s),
                    Routes |-> AddRoute(<<>>, WildCardRouteMatch,
                                 getWildCardRouteUpstreamClusters(mergeUpstreamClusters(cache, s))) ]
  IN  [ TrafficMatches          |-> Map(services, match),
        HTTPRouteConfigsPerPort |-> {route(s) : s \in {t \in ToSet(services) :
                                       t.Protocol \notin {"tcp", "tcp-server-first"}}},
        ClustersConfigs         |-> Map(services, LAMBDA s : [Name |-> ClusterName(s), Service |-> s]),
        ServicesResolvableSet   |-> ServicesResolvableSet(cache, services) ]

-----------------------------------------------------------------------------
(* service/policy/types.go *)

IsRouteWeightedClusters(route) ==
  /\ route.HTTPRouteMatch = WildCardRouteMatch
  /\ \A w \in route.WeightedClusters : w.Weight \in Nat

\* Every match and every route leads to a cluster with a configuration.
IsOutboundMeshTrafficPolicy(policy) ==
  LET configured == {c.Name : c \in ToSet(policy.ClustersConfigs)}
      known(clusters) == {w.ClusterName : w \in clusters} \subseteq configured
  IN  /\ \A t \in ToSet(policy.TrafficMatches) : known(ToSet(t.WeightedClusters))
      /\ \A r \in policy.HTTPRouteConfigsPerPort : \A route \in ToSet(r.Routes) :
           IsRouteWeightedClusters(route) /\ known(route.WeightedClusters)
=============================================================================
