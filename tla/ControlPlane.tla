---------------------------- MODULE ControlPlane ----------------------------
(***************************************************************************)
(* The controller's update path: a change of the cluster is announced on   *)
(* the broker's workqueue, the broadcast listener and the per-proxy        *)
(* informer hear of it, and their jobs compute the sidecar configuration   *)
(* from the current cluster state and publish it to the repo.              *)
(*                                                                         *)
(* The cluster is a version number, and so is the configuration computed   *)
(* from it; 0 is the ETag of a proxy and the state of a repo that hold no  *)
(* configuration yet.                                                      *)
(***************************************************************************)
EXTENDS Broker

CONSTANTS
  MaxFails      (* bound on failed uploads                                  *)

VARIABLES
  cluster,      (* the cluster state in the informer caches                 *)
  pc,           (* of "listener" and "informer"                             *)
  slidingTimer, (* the listener's timer: [running, c]                       *)
  reconfirm,
  cacheProxy,   (* the registry holds the proxy                             *)
  lock,         (* who holds proxy.Mutex and repoLock                       *)
  conf,         (* the configuration computed by the routine's last job     *)
  ETag,         (* of the proxy                                             *)
  repo,         (* the configuration in the repo                            *)
  fails

serverVars == <<pc, slidingTimer, reconfirm, cacheProxy, lock, conf, ETag, repo, fails>>
vars == <<brokerVars, cluster, serverVars>>

Routines == {"listener", "informer"}

\* Both routines may subscribe, and what the configuration is computed from
\* changes with an event that is broadcast.
ASSUME UpdatesAssumption ==
  /\ Routines \subseteq ProxyChans
  /\ \A msg \in Msgs : getProxyUpdateEvent(msg) = ProxyUpdateTopic
  /\ {MaxAdds, MaxFails} \subseteq Nat

Goto(r, l) == pc' = [pc EXCEPT ![r] = l]

\* Timer.Reset does not empty the channel.
Reset == slidingTimer' = [slidingTimer EXCEPT !.running = TRUE]

Init ==
  /\ BrokerInit
  /\ cluster = 1
  /\ pc = [r \in Routines |-> IF r = "listener" THEN "start" ELSE "none"]
  /\ slidingTimer = [running |-> FALSE, c |-> FALSE]
  /\ reconfirm = TRUE
  /\ cacheProxy = FALSE
  /\ lock = "none"
  /\ conf = [r \in Routines |-> 0]
  /\ ETag = 0
  /\ repo = 0
  /\ fails = 0

\* An informer updates its cache and calls its event handler.
ClusterChange(msg) ==
  /\ cluster' = cluster + 1
  /\ AddRateLimited(msg)
  /\ UNCHANGED serverVars

\* Mutant: the timer is not armed.
ListenerStart_NoTimer ==
  /\ pc["listener"] = "start"
  /\ SubProxy("listener", {ProxyUpdateTopic})
  /\ Goto("listener", "select")
  /\ UNCHANGED <<cluster, slidingTimer, reconfirm, cacheProxy, lock, conf, ETag, repo, fails>>

\* broadcastListener up to its loop.
ListenerStart ==
  /\ pc["listener"] = "start"
  /\ SubProxy("listener", {ProxyUpdateTopic})
  /\ Goto("listener", "select")
  /\ Reset
  /\ UNCHANGED <<cluster, reconfirm, cacheProxy, lock, conf, ETag, repo, fails>>

\* case <-proxyUpdateChan
ListenerUpdate ==
  /\ pc["listener"] = "select"
  /\ ReceiveProxy("listener")
  /\ Reset
  /\ reconfirm' = TRUE
  /\ UNCHANGED <<cluster, pc, cacheProxy, lock, conf, ETag, repo, fails>>

\* slidingTimer expires.
TimerFires ==
  /\ slidingTimer.running
  /\ slidingTimer' = [running |-> FALSE, c |-> TRUE]
  /\ UNCHANGED <<brokerVars, cluster, pc, reconfirm, cacheProxy, lock, conf, ETag, repo, fails>>

\* case <-slidingTimer.C: fireExistProxies registers the proxy the first time
\* and waits for its informer to have subscribed.
ListenerFires ==
  /\ pc["listener"] = "select"
  /\ slidingTimer.c
  /\ slidingTimer' = [slidingTimer EXCEPT !.c = FALSE]
  /\ cacheProxy' = TRUE
  /\ pc' = IF cacheProxy
             THEN [pc EXCEPT !["listener"] = "job"]
             ELSE [pc EXCEPT !["listener"] = "wait", !["informer"] = "start"]
  /\ UNCHANGED <<brokerVars, cluster, reconfirm, lock, conf, ETag, repo, fails>>

\* informTrafficPolicies up to wg.Done.
InformerStart ==
  /\ pc["informer"] = "start"
  /\ SubProxy("informer", {ProxyUpdateTopic, GetPubSubTopicForProxyUUID("informer")})
  /\ Goto("informer", "select")
  /\ UNCHANGED <<cluster, slidingTimer, reconfirm, cacheProxy, lock, conf, ETag, repo, fails>>

\* wg.Wait returns, and the listener queues its job.
ListenerWaited ==
  /\ pc["listener"] = "wait"
  /\ pc["informer"] # "start"
  /\ Goto("listener", "job")
  /\ UNCHANGED <<brokerVars, cluster, slidingTimer, reconfirm, cacheProxy, lock, conf, ETag,
                 repo, fails>>

\* The informer's case <-proxyUpdateChan.
InformerUpdate ==
  /\ pc["informer"] = "select"
  /\ ReceiveProxy("informer")
  /\ Goto("informer", "job")
  /\ UNCHANGED <<cluster, slidingTimer, reconfirm, cacheProxy, lock, conf, ETag, repo, fails>>

\* Mutant: a job does not take proxy.Mutex.
JobCompute_NoLock(r, ready) ==
  /\ pc[r] = "job"
  /\ lock' = r
  /\ conf' = [conf EXCEPT ![r] = cluster]
  /\ Goto(r, "publish")
  /\ IF ready THEN UNCHANGED slidingTimer ELSE Reset
  /\ UNCHANGED <<brokerVars, cluster, reconfirm, cacheProxy, ETag, repo, fails>>

\* PipyConfGeneratorJob.Run takes proxy.Mutex and computes the configuration;
\* when a cluster has no endpoint yet it asks the listener to retry.
JobCompute(r, ready) ==
  /\ pc[r] = "job"
  /\ lock = "none"
  /\ lock' = r
  /\ conf' = [conf EXCEPT ![r] = cluster]
  /\ Goto(r, "publish")
  /\ IF ready THEN UNCHANGED slidingTimer ELSE Reset
  /\ UNCHANGED <<brokerVars, cluster, reconfirm, cacheProxy, ETag, repo, fails>>

\* Mutant: the listener does not reconfirm.
JobReturns_NoReconfirm(r) ==
  /\ lock' = "none"
  /\ Goto(r, "select")
  /\ UNCHANGED <<slidingTimer, reconfirm>>

\* The job is done: its routine goes on, and the listener arms its timer once
\* more if it has to reconfirm.
JobReturns(r) ==
  /\ lock' = "none"
  /\ Goto(r, "select")
  /\ IF r = "listener" /\ reconfirm
       THEN Reset /\ reconfirm' = FALSE
       ELSE UNCHANGED <<slidingTimer, reconfirm>>

\* publishSidecarConf when there is nothing new, or the upload succeeds.
JobPublish(r) ==
  /\ pc[r] = "publish"
  /\ ETag' = conf[r]
  /\ repo' = IF conf[r] = ETag THEN repo ELSE conf[r]
  /\ JobReturns(r)
  /\ UNCHANGED <<brokerVars, cluster, cacheProxy, conf, fails>>

\* publishSidecarConf when the upload fails: the codebase is deleted.
JobFails(r) ==
  /\ pc[r] = "publish"
  /\ conf[r] # ETag
  /\ fails < MaxFails
  /\ fails' = fails + 1
  /\ repo' = 0
  /\ JobReturns(r)
  /\ UNCHANGED <<brokerVars, cluster, cacheProxy, conf, ETag>>

ListenerSteps ==
  \/ ListenerStart
  \/ ListenerUpdate
  \/ ListenerFires
  \/ ListenerWaited

InformerSteps == InformerStart \/ InformerUpdate

JobSteps(r) ==
  \/ \E ready \in BOOLEAN : JobCompute(r, ready)
  \/ JobPublish(r)
  \/ JobFails(r)

Next ==
  \/ BrokerSteps /\ UNCHANGED <<cluster, serverVars>>
  \/ \E msg \in Msgs : ClusterChange(msg)
  \/ TimerFires
  \/ ListenerSteps
  \/ InformerSteps
  \/ \E r \in Routines : JobSteps(r)

Spec == Init /\ [][Next]_vars

\* Goroutines run, timers expire, jobs end, and the command channel of a
\* pub-sub serves its senders in turn.  Nothing makes the cluster change.
FairSpec ==
  /\ Spec
  /\ \A msg \in Msgs : WF_vars(Add(msg) /\ UNCHANGED <<cluster, serverVars>>)
  /\ WF_vars((Get \/ HandOver \/ WindowOver) /\ UNCHANGED <<cluster, serverVars>>)
  /\ WF_vars(WindowOver /\ UNCHANGED <<cluster, serverVars>>)
  /\ SF_vars(Dispatch /\ UNCHANGED <<cluster, serverVars>>)
  /\ SF_vars((PubTargeted \/ PubKube) /\ UNCHANGED <<cluster, serverVars>>)
  /\ WF_vars(TimerFires)
  /\ SF_vars(ListenerStart)
  /\ WF_vars(ListenerUpdate)
  /\ SF_vars(ListenerFires)
  /\ WF_vars(ListenerWaited)
  /\ SF_vars(InformerStart)
  /\ WF_vars(InformerUpdate)
  /\ \A r \in Routines :
       /\ SF_vars(\E ready \in BOOLEAN : JobCompute(r, ready))
       /\ WF_vars(JobPublish(r) \/ JobFails(r))

-----------------------------------------------------------------------------
TypeOK ==
  /\ cluster \in 1..(MaxAdds + 1)
  /\ pc \in [Routines -> {"none", "start", "select", "wait", "job", "publish"}]
  /\ slidingTimer \in [running : BOOLEAN, c : BOOLEAN]
  /\ reconfirm \in BOOLEAN
  /\ cacheProxy \in BOOLEAN
  /\ lock \in Routines \cup {"none"}
  /\ conf \in [Routines -> 0..cluster]
  /\ ETag \in 0..cluster
  /\ repo \in 0..cluster
  /\ fails \in 0..MaxFails

\* The repo never goes back to an older configuration: the listener's and the
\* informer's jobs compute and publish under proxy.Mutex, so a slow job cannot
\* overwrite what a later one published.
NeverPublishesOlder == [][repo' # 0 => repo' >= ETag]_vars

\* The change that the repo does not show yet is still on its way: announced
\* and not yet dispatched, being sent, the subject of a job that has not read
\* the cluster yet, or waiting for the listener's timer.
StaleIsOnItsWay ==
  /\ TypeOK
  /\ ETag # cluster =>
       \/ waiting # {} \/ dirty # {} \/ proc.pc = "handOver"
       \/ dispatcher.batch # {}
       \/ proxySending.to # {}
       \/ slidingTimer.running \/ slidingTimer.c
       \/ \E r \in Routines : pc[r] \in {"start", "wait", "job"}
       \/ \E r \in Routines : pc[r] = "publish" /\ conf[r] = cluster
       \/ fails > 0

\* Once the proxy's informer has subscribed and the cluster stops changing, the
\* repo ends up with the configuration of its last state, and stays there.
Converges == <>(pc["informer"] = "select") => <>[](repo = cluster)

\* "The continuous processing of items in the workqueue will run until
\* signalled to stop": the processor always comes back for the next item.
ProcessingContinues == []<>(proc.pc = "get")
=============================================================================
