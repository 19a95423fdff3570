----------------------------- MODULE BridgeSync -----------------------------
(***************************************************************************)
(* The data plane of a node: broadcastListener of ecnet-bridge waits for   *)
(* proxy updates, and its job copies the DNS endpoints and the resolvable  *)
(* host names into the pinned eBPF maps the XDP program answers from.      *)
(* The maps may outlive a crash of the process; its in-memory maps do not. *)
(*                                                                         *)
(* One job at a time: the listener waits for the job it queued.            *)
(***************************************************************************)
EXTENDS Naturals, FiniteSets

CONSTANTS
  Hosts,        (* host names without a port                                *)
  EIPs,         (* addresses of the DNS pods                                *)
  CIPs,         (* cluster IPs the DNS service may have                     *)
  none,
  MaxChanges,   (* bound on the changes of the cluster                      *)
  MaxFaults,    (* bound on failing map updates                             *)
  MaxCrashes    (* bound on crashes and stops                               *)

ASSUME ChangesAssumption == MaxChanges \in Nat

VARIABLES
  svc,          (* cluster IP of the DNS service, none if it is missing     *)
  endpts,       (* its endpoints, {none} if the object is missing           *)
  hosts,        (* host names of the outbound HTTP policies                 *)
  announced,    (* the last change was one that is broadcast                *)
  news,         (* broadcasts on their way to the listener                  *)
  pc,
  slidingTimer, (* [running, c]                                             *)
  reconfirm,
  svcRead,      (* svc in syncDNSEndpoints                                  *)
  latest,       (* latestEndpointsMap's or latestResolvesMap's keys         *)
  todo,         (* the keys its first loop has still to visit               *)
  dnsEndpoints, dnsResolves,   (* the maps of Server                        *)
  endptMap, resdb,             (* the pinned maps                           *)
  changes, faults, crashes

cluster  == <<svc, endpts, hosts, announced, changes>>
timing   == <<slidingTimer, reconfirm>>
job      == <<svcRead, latest, todo>>
memory   == <<dnsEndpoints, dnsResolves>>
kernel   == <<endptMap, resdb>>
vars     == <<cluster, news, pc, timing, job, memory, kernel, faults, crashes>>

Put(f, k, v) == [x \in DOMAIN f \cup {k} |-> IF x = k THEN v ELSE f[x]]
Without(f, S) == [x \in DOMAIN f \ S |-> f[x]]
NoEntry == [x \in {} |-> none]

\* dns.PackDomainName makes a key of a fully qualified name only.
PackDomainName(h, fqdn) == IF fqdn THEN {h} ELSE {}

\* Timer.Reset does not empty the channel.
Reset == slidingTimer' = [slidingTimer EXCEPT !.running = TRUE]

Init ==
  /\ svc = none /\ endpts = {none} /\ hosts = {}
  /\ announced = TRUE
  /\ news = 0
  /\ pc = "start"
  /\ slidingTimer = [running |-> FALSE, c |-> FALSE]
  /\ reconfirm = TRUE
  /\ svcRead = none /\ latest = {} /\ todo = {}
  /\ dnsEndpoints = NoEntry /\ dnsResolves = {}
  /\ endptMap = NoEntry /\ resdb = {}
  /\ changes = 0 /\ faults = 0 /\ crashes = 0

-----------------------------------------------------------------------------
(* The cluster.  Endpoints, ServiceImport and GlobalTrafficPolicy events   *)
(* lead to a broadcast, Service events do not; a broadcast that finds no   *)
(* subscriber is lost.                                                     *)

Broadcast == /\ announced' = TRUE
             /\ news' = IF pc \in {"start", "down"} THEN news ELSE news + 1

OneMore == changes < MaxChanges /\ changes' = changes + 1

EndpointsChange ==
  /\ OneMore
  /\ \E E \in ((SUBSET EIPs) \cup {{none}}) \ {endpts} : endpts' = E
  /\ Broadcast
  /\ UNCHANGED <<svc, hosts, pc, timing, job, memory, kernel, faults, crashes>>

PolicyChange ==
  /\ OneMore
  /\ \E H \in (SUBSET Hosts) \ {hosts} : hosts' = H
  /\ Broadcast
  /\ UNCHANGED <<svc, endpts, pc, timing, job, memory, kernel, faults, crashes>>

ServiceChange ==
  /\ OneMore
  /\ \E c \in (CIPs \cup {none}) \ {svc} : svc' = c
  /\ announced' = FALSE
  /\ UNCHANGED <<endpts, hosts, news, pc, timing, job, memory, kernel, faults, crashes>>

-----------------------------------------------------------------------------
(* broadcastListener.                                                      *)

ListenerStart ==
  /\ pc = "start"
  /\ pc' = "select"
  /\ Reset
  /\ UNCHANGED <<cluster, news, reconfirm, job, memory, kernel, faults, crashes>>

\* Mutant: an update does not arm the timer.
ListenerUpdate_NoReset ==
  /\ pc = "select"
  /\ \E n \in 1..news : news' = news - n
  /\ reconfirm' = TRUE
  /\ UNCHANGED <<cluster, pc, slidingTimer, job, memory, kernel, faults, crashes>>

\* case <-proxyUpdateChan: a broadcast covers one or more changes.
ListenerUpdate ==
  /\ pc = "select"
  /\ \E n \in 1..news : news' = news - n
  /\ Reset
  /\ reconfirm' = TRUE
  /\ UNCHANGED <<cluster, pc, job, memory, kernel, faults, crashes>>

TimerFires ==
  /\ slidingTimer.running
  /\ slidingTimer' = [running |-> FALSE, c |-> TRUE]
  /\ UNCHANGED <<cluster, news, pc, reconfirm, job, memory, kernel, faults, crashes>>

\* case <-slidingTimer.C: the job starts with GetService.
ListenerFires ==
  /\ pc = "select"
  /\ slidingTimer.c
  /\ slidingTimer' = [slidingTimer EXCEPT !.c = FALSE]
  /\ pc' = "getEndpoints"
  /\ svcRead' = svc
  /\ UNCHANGED <<cluster, news, reconfirm, latest, todo, memory, kernel, faults, crashes>>

\* The job is done.
ListenerGoesOn ==
  /\ pc = "done"
  /\ pc' = "select"
  /\ IF reconfirm
       THEN Reset /\ reconfirm' = FALSE
       ELSE UNCHANGED timing
  /\ UNCHANGED <<cluster, news, job, memory, kernel, faults, crashes>>

-----------------------------------------------------------------------------
(* BridgeNodeWatcherJob.Run.                                               *)

\* The process ends: its goroutines, timer and subscription with it.
Dies ==
  /\ pc' = "down"
  /\ news' = 0
  /\ slidingTimer' = [running |-> FALSE, c |-> FALSE]
  /\ reconfirm' = TRUE
  /\ svcRead' = none /\ latest' = {} /\ todo' = {}
  /\ dnsEndpoints' = NoEntry /\ dnsResolves' = {}

\* GetEndpoints: a missing object is nil without an error, and so is a missing
\* service; the first use of either panics.
GetEndpoints ==
  /\ pc = "getEndpoints"
  /\ IF endpts = {none} \/ (endpts # {} /\ svcRead = none)
       THEN Dies
       ELSE /\ pc' = "updateEndpoints"
            /\ latest' = endpts /\ todo' = endpts
            /\ UNCHANGED <<news, timing, svcRead, memory>>
  /\ UNCHANGED <<cluster, kernel, faults, crashes>>

\* A map update that fails is logged and forgotten.
Fails(failed) == IF failed THEN faults < MaxFaults /\ faults' = faults + 1
                           ELSE UNCHANGED faults

\* for eip, cip := range latestEndpointsMap: a new address is not entered in
\* the in-memory map.
UpdateEndpoint(e, failed) ==
  /\ pc = "updateEndpoints"
  /\ e \in todo
  /\ todo' = todo \ {e}
  /\ LET exist == e \in DOMAIN dnsEndpoints
     IN  IF exist /\ dnsEndpoints[e] = svcRead
           THEN ~failed /\ UNCHANGED <<dnsEndpoints, endptMap>>
           ELSE /\ dnsEndpoints' = IF exist THEN Put(dnsEndpoints, e, svcRead) ELSE dnsEndpoints
                /\ endptMap' = IF failed THEN endptMap ELSE Put(endptMap, e, svcRead)
  /\ Fails(failed)
  /\ UNCHANGED <<cluster, news, pc, timing, svcRead, latest, dnsResolves, resdb, crashes>>

\* for eip := range dnsEndpointsMap
DeleteEndpoints ==
  /\ pc = "updateEndpoints"
  /\ todo = {}
  /\ pc' = "getPolicy"
  /\ LET gone == DOMAIN dnsEndpoints \ latest
     IN  /\ dnsEndpoints' = Without(dnsEndpoints, gone)
         /\ endptMap' = Without(endptMap, gone)
  /\ UNCHANGED <<cluster, news, timing, job, dnsResolves, resdb, faults, crashes>>

\* Mutant: only names the process knows already are visited.
GetPolicy_OnlyKnown ==
  /\ pc = "getPolicy"
  /\ IF hosts = {}
       THEN pc' = "done" /\ UNCHANGED <<latest, todo>>
       ELSE /\ pc' = "resolves"
            /\ latest' = hosts
            /\ todo' = hosts \cap dnsResolves
  /\ UNCHANGED <<cluster, news, timing, svcRead, memory, kernel, faults, crashes>>

\* syncDNSResolves up to its loops: without an HTTP route it returns at once.
GetPolicy ==
  /\ pc = "getPolicy"
  /\ IF hosts = {}
       THEN pc' = "done" /\ UNCHANGED <<latest, todo>>
       ELSE /\ pc' = "resolves"
            /\ latest' = hosts
            /\ todo' = hosts
  /\ UNCHANGED <<cluster, news, timing, svcRead, memory, kernel, faults, crashes>>

\* for hostname := range latestResolvesMap, with UpdateDNSResolveEntry.
AddResolve(h, failed) ==
  /\ pc = "resolves"
  /\ h \in todo
  /\ todo' = todo \ {h}
  /\ failed => h \notin dnsResolves
  /\ dnsResolves' = dnsResolves \cup {h}
  /\ resdb' = IF failed \/ h \in dnsResolves THEN resdb ELSE resdb \cup PackDomainName(h, TRUE)
  /\ Fails(failed)
  /\ UNCHANGED <<cluster, news, pc, timing, svcRead, latest, dnsEndpoints, endptMap, crashes>>

\* for hostname := range dnsResolvesMap, with DeleteDNSResolveEntry.
DeleteResolve(h) ==
  /\ pc = "resolves"
  /\ todo = {}
  /\ h \in dnsResolves \ latest
  /\ dnsResolves' = dnsResolves \ {h}
  /\ resdb' = resdb \ PackDomainName(h, FALSE)
  /\ UNCHANGED <<cluster, news, pc, timing, job, dnsEndpoints, endptMap, faults, crashes>>

ResolvesDone ==
  /\ pc = "resolves"
  /\ todo = {} /\ dnsResolves \subseteq latest
  /\ pc' = "done"
  /\ UNCHANGED <<cluster, news, timing, job, memory, kernel, faults, crashes>>

-----------------------------------------------------------------------------
Crash ==
  /\ pc # "down"
  /\ crashes < MaxCrashes
  /\ crashes' = crashes + 1
  /\ Dies
  /\ UNCHANGED <<cluster, kernel, faults>>

\* make -k clean.
UnLoadProgs == endptMap' = NoEntry /\ resdb' = {}

\* Server.Stop removes the pinned maps, whatever the job is doing.
Stop ==
  /\ pc # "down"
  /\ crashes < MaxCrashes
  /\ crashes' = crashes + 1
  /\ Dies
  /\ UnLoadProgs
  /\ UNCHANGED <<cluster, faults>>

\* Server.Start keeps pinned maps that exist; where the bpf file system went
\* with the container, it makes new ones.
Restart(pinned) ==
  /\ pc = "down"
  /\ pc' = "start"
  /\ IF pinned THEN UNCHANGED kernel ELSE endptMap' = NoEntry /\ resdb' = {}
  /\ UNCHANGED <<cluster, news, timing, job, memory, faults, crashes>>

ClusterSteps == EndpointsChange \/ PolicyChange \/ ServiceChange

ListenerSteps == ListenerStart \/ ListenerUpdate \/ ListenerFires \/ ListenerGoesOn

JobSteps ==
  \/ GetEndpoints
  \/ \E e \in EIPs, failed \in BOOLEAN : UpdateEndpoint(e, failed)
  \/ DeleteEndpoints
  \/ GetPolicy
  \/ \E h \in Hosts, failed \in BOOLEAN : AddResolve(h, failed)
  \/ \E h \in Hosts : DeleteResolve(h)
  \/ ResolvesDone

Next ==
  \/ ClusterSteps
  \/ TimerFires
  \/ ListenerSteps
  \/ JobSteps
  \/ Crash \/ Stop \/ (\E pinned \in BOOLEAN : Restart(pinned))

Spec == Init /\ [][Next]_vars

\* Goroutines run, timers expire, and the kubelet restarts the pod; nothing
\* makes the cluster change or the process crash.
FairSpec ==
  /\ Spec
  /\ WF_vars(TimerFires)
  /\ WF_vars(ListenerSteps)
  /\ SF_vars(ListenerFires)
  /\ WF_vars(JobSteps)
  /\ WF_vars(\E pinned \in BOOLEAN : Restart(pinned))

-----------------------------------------------------------------------------
\* ecnet_dns_proxy: a query for h to pod e is answered, with the address of
\* the service as its source.
Answered(e, h) ==
  /\ e \in DOMAIN endptMap /\ endptMap[e] = svc
  /\ h \in resdb

TypeOK ==
  /\ svc \in CIPs \cup {none}
  /\ endpts \in (SUBSET EIPs) \cup {{none}}
  /\ hosts \subseteq Hosts
  /\ announced \in BOOLEAN
  /\ news \in 0..MaxChanges
  /\ pc \in {"start", "select", "getEndpoints", "updateEndpoints", "getPolicy", "resolves",
             "done", "down"}
  /\ slidingTimer \in [running : BOOLEAN, c : BOOLEAN]
  /\ reconfirm \in BOOLEAN
  /\ svcRead \in CIPs \cup {none}
  /\ todo \subseteq latest
  /\ latest \subseteq Hosts \cup EIPs
  /\ dnsResolves \subseteq Hosts /\ resdb \subseteq Hosts
  /\ \A f \in {dnsEndpoints, endptMap} : DOMAIN f \subseteq EIPs /\ \A e \in DOMAIN f : f[e] \in CIPs

\* What the job took as written is in the pinned map, crash or not: the map of
\* the process never knows more than the kernel while updates succeed.
MemoryWithinKernel == faults = 0 => dnsResolves \subseteq resdb

\* A host name of the policies that the kernel does not resolve is still on
\* its way there: broadcast and not received, waiting for the timer, or to be
\* read or written by the job.  Restarts and changes in the middle of a job
\* lose none, since a job reads the policies anew and one more follows.
\* Nothing else hides a missing name: memory never knows more than the kernel.
MissingIsScheduled ==
  /\ TypeOK /\ MemoryWithinKernel
  /\ \/ hosts \subseteq resdb
     \/ pc \in {"start", "down", "getEndpoints", "updateEndpoints", "getPolicy"}
     \/ news > 0 \/ slidingTimer.running \/ slidingTimer.c
     \/ pc = "resolves" /\ hosts \ resdb \subseteq todo
     \/ pc = "done" /\ reconfirm
     \/ faults > 0

\* Once the cluster is at rest, with a DNS service whose last change was
\* followed by a broadcast, every DNS pod answers for every host name of the
\* policies, whatever crashes and restarts came before, provided that no map
\* update failed.
EventuallyAnswered ==
  <>[](announced /\ svc # none /\ endpts # {none} /\ faults = 0)
    => <>[](\A e \in endpts, h \in hosts : Answered(e, h))
=============================================================================
