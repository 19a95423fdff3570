------------------------------- MODULE Broker -------------------------------
(***************************************************************************)
(* The message broker of pkg/ecnet/messaging: the rate limited workqueue   *)
(* that event handlers fill, the processor goroutine that empties it, the  *)
(* dispatcher goroutine (at the granularity of Coalescer: a batch is held  *)
(* for a while and then published) and the two pub-sub instances.  The     *)
(* subscribers are left to the modules that extend this one.               *)
(***************************************************************************)
EXTENDS Naturals, Sequences, FiniteSets

CONSTANTS
  Msgs,         (* the PubSubMessage values event handlers can queue        *)
  ProxyChans,   (* channels subscribed to proxyUpdatePubSub                 *)
  KubeChans,    (* channels subscribed to kubeEventPubSub                   *)
  MaxAdds,      (* bound on the calls of AddRateLimited                     *)
  noMsg

ASSUME BrokerAssumption == noMsg \notin Msgs /\ MaxAdds \in Nat

VARIABLES
  adds,                            (* calls of AddRateLimited so far        *)
  waiting,                         (* the delaying queue's heap             *)
  queue, dirty, processing,        (* the workqueue's queue and sets        *)
  proc,                            (* the processor: [pc, msg]              *)
  dispatcher,                      (* [pc, event, batch]: the numbers of    *)
                                   (* the events held, and the last of them *)
  totalQEventCount,
  totalQProxyEventCount,           (* also numbers the proxy update events  *)
  totalDispatchedProxyEventCount,
  proxySubs, proxySending,         (* proxyUpdatePubSub                     *)
  kubeSubs, kubeSending,           (* kubeEventPubSub                       *)
  owed                             (* per channel: the broadcast events     *)
                                   (* it has not been told of               *)

queueVars == <<adds, waiting, queue, dirty, processing>>
counters  == <<totalQEventCount, totalQProxyEventCount, totalDispatchedProxyEventCount>>
proxyVars == <<proxySubs, proxySending>>
kubeVars  == <<kubeSubs, kubeSending>>
brokerVars == <<queueVars, proc, dispatcher, counters, proxyVars, kubeVars, owed>>

ProxyPS == INSTANCE PubSub WITH Chans <- ProxyChans, subs <- proxySubs, sending <- proxySending
KubePS  == INSTANCE PubSub WITH Chans <- KubeChans, subs <- kubeSubs, sending <- kubeSending

-----------------------------------------------------------------------------
(* Topics, and which messages update which proxies.                        *)

KindTopic(kind) == <<"kind", kind>>

ProxyUpdateTopic == KindTopic("ProxyUpdate")

GetPubSubTopicForProxyUUID(uuid) == <<"proxy", uuid>>

NoTopic == <<"none">>

\* Kinds that always broadcast.
BroadcastKinds ==
  { "EndpointAdded", "EndpointDeleted", "EndpointUpdated",
    "ServiceImportAdded", "ServiceImportDeleted", "ServiceImportUpdated",
    "GlobalTrafficPolicyAdded", "GlobalTrafficPolicyDeleted", "GlobalTrafficPolicyUpdated",
    "ProxyUpdate" }

\* The topic of the proxy update event, or NoTopic when the result is nil.  A
\* message says what the comparison of its old and new object yields: changed
\* is a change of the sidecar log level or plugin chains (EcnetConfig) or of
\* the scrape annotation (Pod); uid is the new pod's UID, "" when empty.
getProxyUpdateEvent(msg) ==
  CASE msg.kind \in BroadcastKinds -> ProxyUpdateTopic
    [] msg.kind = "EcnetConfigUpdated" /\ msg.changed -> ProxyUpdateTopic
    [] msg.kind = "PodUpdated" /\ msg.changed -> GetPubSubTopicForProxyUUID(msg.uid)
    [] msg.kind = "PodUpdated" /\ ~msg.changed /\ msg.uid # "" -> ProxyUpdateTopic
    [] OTHER -> NoTopic

-----------------------------------------------------------------------------
BrokerInit ==
  /\ adds = 0
  /\ waiting = {}
  /\ queue = <<>>
  /\ dirty = {}
  /\ processing = {}
  /\ proc = [pc |-> "get", msg |-> noMsg]
  /\ dispatcher = [pc |-> "select", event |-> noMsg, batch |-> {}]
  /\ totalQEventCount = 0
  /\ totalQProxyEventCount = 0
  /\ totalDispatchedProxyEventCount = 0
  /\ ProxyPS!Init
  /\ KubePS!Init
  /\ owed = [c \in ProxyChans |-> {}]

\* An event handler, or the ticker, calls AddRateLimited.
AddRateLimited(msg) ==
  /\ adds < MaxAdds
  /\ adds' = adds + 1
  /\ waiting' = waiting \cup {msg}
  /\ UNCHANGED <<queue, dirty, processing, proc, dispatcher, counters,
                 proxyVars, kubeVars, owed>>

\* The delay of msg is over: the workqueue's Add.
Add(msg) ==
  /\ msg \in waiting
  /\ waiting' = waiting \ {msg}
  /\ dirty' = dirty \cup {msg}
  /\ queue' = IF msg \in dirty \cup processing THEN queue ELSE Append(queue, msg)
  /\ UNCHANGED <<adds, processing, proc, dispatcher, counters, proxyVars, kubeVars, owed>>

\* processNextItem up to the first blocking point of processEvent.
Get ==
  /\ proc.pc = "get"
  /\ queue # <<>>
  /\ LET msg == Head(queue)
         topic == getProxyUpdateEvent(msg)
     IN  /\ processing' = processing \cup {msg}
         /\ dirty' = dirty \ {msg}
         /\ proc' = [msg |-> msg,
                     pc |-> CASE topic = NoTopic -> "pubKube"
                              [] topic = ProxyUpdateTopic -> "handOver"
                              [] OTHER -> "pubProxy"]
         /\ totalQProxyEventCount' =
              IF topic = NoTopic THEN totalQProxyEventCount ELSE totalQProxyEventCount + 1
  /\ queue' = Tail(queue)
  /\ totalQEventCount' = totalQEventCount + 1
  /\ UNCHANGED <<adds, waiting, dispatcher, totalDispatchedProxyEventCount,
                 proxyVars, kubeVars, owed>>

\* An event for one proxy is published at once.
PubTargeted ==
  /\ proc.pc = "pubProxy"
  /\ ProxyPS!Pub([event |-> proc.msg, covers |-> {}], getProxyUpdateEvent(proc.msg))
  /\ totalDispatchedProxyEventCount' = totalDispatchedProxyEventCount + 1
  /\ proc' = [proc EXCEPT !.pc = "pubKube"]
  /\ UNCHANGED <<queueVars, dispatcher, totalQEventCount, totalQProxyEventCount,
                 kubeVars, owed>>

\* b.proxyUpdateCh <- *event, received by the dispatcher's select.
HandOver ==
  /\ proc.pc = "handOver"
  /\ dispatcher.pc = "select"
  /\ dispatcher' = [dispatcher EXCEPT !.event = proc.msg,
                                      !.batch = @ \cup {totalQProxyEventCount}]
  /\ owed' = [c \in ProxyChans |->
                IF c \in ProxyPS!Subscribers(ProxyUpdateTopic)
                  THEN owed[c] \cup {totalQProxyEventCount}
                  ELSE owed[c]]
  /\ proc' = [proc EXCEPT !.pc = "pubKube"]
  /\ UNCHANGED <<queueVars, counters, proxyVars, kubeVars>>

\* A window of the dispatcher is over.
WindowOver ==
  /\ dispatcher.pc = "select"
  /\ dispatcher.batch # {}
  /\ dispatcher' = [dispatcher EXCEPT !.pc = "publish"]
  /\ UNCHANGED <<queueVars, proc, counters, proxyVars, kubeVars, owed>>

\* Mutant: the event is published on the topic of its kind.
Dispatch_OnKind ==
  /\ dispatcher.pc = "publish"
  /\ ProxyPS!Pub([event |-> dispatcher.event, covers |-> dispatcher.batch],
                 KindTopic(dispatcher.event.kind))
  /\ totalDispatchedProxyEventCount' = totalDispatchedProxyEventCount + 1
  /\ dispatcher' = [dispatcher EXCEPT !.pc = "select", !.batch = {}]
  /\ UNCHANGED <<queueVars, proc, totalQEventCount, totalQProxyEventCount, kubeVars, owed>>

\* The dispatcher publishes the last event of its batch.
Dispatch ==
  /\ dispatcher.pc = "publish"
  /\ ProxyPS!Pub([event |-> dispatcher.event, covers |-> dispatcher.batch],
                 ProxyUpdateTopic)
  /\ totalDispatchedProxyEventCount' = totalDispatchedProxyEventCount + 1
  /\ dispatcher' = [dispatcher EXCEPT !.pc = "select", !.batch = {}]
  /\ UNCHANGED <<queueVars, proc, totalQEventCount, totalQProxyEventCount, kubeVars, owed>>

\* Mutant: processNextItem does not call Done.
PubKube_NoDone ==
  /\ proc.pc = "pubKube"
  /\ KubePS!Pub(proc.msg, KindTopic(proc.msg.kind))
  /\ proc' = [pc |-> "get", msg |-> noMsg]
  /\ UNCHANGED <<adds, waiting, queue, dirty, processing, dispatcher, counters, proxyVars, owed>>

\* The end of processEvent, and Done and Forget.
PubKube ==
  /\ proc.pc = "pubKube"
  /\ KubePS!Pub(proc.msg, KindTopic(proc.msg.kind))
  /\ processing' = processing \ {proc.msg}
  /\ queue' = IF proc.msg \in dirty THEN Append(queue, proc.msg) ELSE queue
  /\ proc' = [pc |-> "get", msg |-> noMsg]
  /\ UNCHANGED <<adds, waiting, dirty, dispatcher, counters, proxyVars, owed>>

\* The steps of the broker's own goroutines.
BrokerSteps ==
  \/ \E msg \in Msgs : Add(msg)
  \/ Get
  \/ PubTargeted
  \/ HandOver
  \/ WindowOver
  \/ Dispatch
  \/ PubKube

-----------------------------------------------------------------------------
(* What the owner of a channel does to its pub-sub.                        *)

SubProxy(c, topics) ==
  /\ ProxyPS!Sub(c, topics)
  /\ UNCHANGED <<queueVars, proc, dispatcher, counters, kubeVars, owed>>

SubKube(c, topics) ==
  /\ KubePS!Sub(c, topics)
  /\ UNCHANGED <<queueVars, proc, dispatcher, counters, proxyVars, owed>>

ReceiveProxy(c) ==
  /\ ProxyPS!Deliver(c)
  /\ owed' = [owed EXCEPT ![c] = @ \ proxySending.msg.covers]
  /\ UNCHANGED <<queueVars, proc, dispatcher, counters, kubeVars>>

ReceiveKube(c) ==
  /\ KubePS!Deliver(c)
  /\ UNCHANGED <<queueVars, proc, dispatcher, counters, proxyVars, owed>>

\* The goroutine of Broker.Unsub: the channel is closed when this returns.
UnsubProxy(c) ==
  /\ ProxyPS!Unsub(c)
  /\ owed' = [owed EXCEPT ![c] = {}]
  /\ UNCHANGED <<queueVars, proc, dispatcher, counters, kubeVars>>

UnsubKube(c) ==
  /\ KubePS!Unsub(c)
  /\ UNCHANGED <<queueVars, proc, dispatcher, counters, proxyVars, owed>>
=============================================================================
