------------------------- MODULE ControlPlaneProofs -------------------------
(* The controller's update path: no change is forgotten and nothing older is *)
(* published, for any number of changes, messages and failed uploads.       *)
EXTENDS ControlPlane, TLAPS

\* The broker holds messages of event handlers only, and the last message read
\* is the one being processed.
BrokerType ==
  /\ adds \in Nat /\ cluster = adds + 1
  /\ queue \in Seq(Msgs)
  /\ proc = [pc |-> proc.pc, msg |-> proc.msg] /\ (proc.pc # "get" => proc.msg \in Msgs)
  /\ dispatcher = [pc |-> dispatcher.pc, event |-> dispatcher.event, batch |-> dispatcher.batch]
  /\ proxySubs = [c \in ProxyChans |-> proxySubs[c]]

\* Only the holder of proxy.Mutex publishes, what it publishes is not older
\* than what was published before, and the repo holds nothing else.
Exclusive ==
  /\ \A r \in Routines : pc[r] = "publish" => lock = r /\ conf[r] >= ETag
  /\ repo \in {0, ETag}

\* The listener is subscribed once it has started, and waits for the informer.
Subscribed ==
  /\ pc["listener"] # "start" => ProxyUpdateTopic \in proxySubs["listener"]
  /\ pc["informer"] = "start" => pc["listener"] = "wait"

\* The second part of StaleIsOnItsWay.
OnItsWay ==
  ETag # cluster =>
    \/ waiting # {} \/ dirty # {} \/ proc.pc = "handOver"
    \/ dispatcher.batch # {}
    \/ proxySending.to # {}
    \/ slidingTimer.running \/ slidingTimer.c
    \/ \E r \in Routines : pc[r] \in {"start", "wait", "job"}
    \/ \E r \in Routines : pc[r] = "publish" /\ conf[r] = cluster
    \/ fails > 0

IInv == TypeOK /\ BrokerType /\ Exclusive /\ Subscribed /\ OnItsWay

\* What a step may do to the repo.
NotOlder == repo' # 0 => repo' >= ETag

-----------------------------------------------------------------------------
(* The broker.                                                              *)

\* What the controller's routines know does not change in a step of the broker.
LEMMA BrokerAlone ==
  ASSUME IInv, UNCHANGED <<cluster, serverVars, proxySubs>> PROVE TypeOK' /\ Exclusive' /\ Subscribed' /\ NotOlder
<1>1. TypeOK' /\ Exclusive' /\ Subscribed'
  BY DEF IInv, TypeOK, Exclusive, Subscribed, serverVars
<1>2. NotOlder
  BY DEF IInv, TypeOK, Exclusive, NotOlder, serverVars
<1> QED
  BY <1>1, <1>2

\* The delay of a message is over.
LEMMA AddStep ==
  ASSUME IInv, NEW msg \in Msgs, Add(msg), UNCHANGED <<cluster, serverVars>> PROVE IInv' /\ NotOlder
<1>1. UNCHANGED <<adds, proc, dispatcher, proxySubs, proxySending>> /\ dirty' # {}
  BY DEF Add, proxyVars
<1>2. queue' \in Seq(Msgs)
  BY DEF Add, IInv, BrokerType
<1>3. BrokerType' /\ OnItsWay'
  BY <1>1, <1>2 DEF IInv, BrokerType, OnItsWay
<1> QED
  BY <1>1, <1>3, BrokerAlone DEF IInv

\* The processor reads a message: every one is broadcast.
LEMMA GetStep ==
  ASSUME IInv, Get, UNCHANGED <<cluster, serverVars>> PROVE IInv' /\ NotOlder
<1>1. UNCHANGED <<adds, dispatcher, proxySubs, proxySending>>
  BY DEF Get, proxyVars
<1>2. Head(queue) \in Msgs /\ queue' \in Seq(Msgs)
  BY DEF Get, IInv, BrokerType
<1>3. getProxyUpdateEvent(Head(queue)) = ProxyUpdateTopic
  BY <1>2, UpdatesAssumption
<1>4. ProxyUpdateTopic # NoTopic
  BY DEF ProxyUpdateTopic, KindTopic, NoTopic
<1>5. proc' = [msg |-> Head(queue), pc |-> "handOver"]
  BY <1>3, <1>4, Zenon DEF Get
<1>6. BrokerType' /\ OnItsWay'
  BY <1>1, <1>2, <1>5 DEF IInv, BrokerType, OnItsWay
<1> QED
  BY <1>1, <1>6, BrokerAlone DEF IInv

\* The dispatcher takes it.
LEMMA HandOverStep ==
  ASSUME IInv, HandOver, UNCHANGED <<cluster, serverVars>> PROVE IInv' /\ NotOlder
<1>1. /\ UNCHANGED <<adds, queue, proxySubs, proxySending>>
      /\ proc' = [proc EXCEPT !.pc = "pubKube"] /\ proc.pc = "handOver"
      /\ dispatcher' = [dispatcher EXCEPT !.event = proc.msg, !.batch = @ \cup {totalQProxyEventCount}]
  BY DEF HandOver, queueVars, proxyVars
<1>2. proc' = [pc |-> "pubKube", msg |-> proc.msg] /\ proc.msg \in Msgs
  BY <1>1 DEF IInv, BrokerType
<1>3. dispatcher' = [pc |-> dispatcher.pc, event |-> proc.msg,
                     batch |-> dispatcher.batch \cup {totalQProxyEventCount}]
  BY <1>1, Zenon DEF IInv, BrokerType
<1>4. BrokerType' /\ OnItsWay'
  BY <1>1, <1>2, <1>3, Zenon DEF IInv, BrokerType, OnItsWay
<1> QED
  BY <1>1, <1>4, BrokerAlone DEF IInv

\* Its window is over.
LEMMA WindowOverStep ==
  ASSUME IInv, WindowOver, UNCHANGED <<cluster, serverVars>> PROVE IInv' /\ NotOlder
<1>1. /\ UNCHANGED <<adds, queue, proc, proxySubs>> /\ dispatcher.batch # {}
      /\ dispatcher' = [dispatcher EXCEPT !.pc = "publish"]
  BY DEF WindowOver, queueVars, proxyVars
<1>2. dispatcher' = [pc |-> "publish", event |-> dispatcher.event, batch |-> dispatcher.batch]
  BY <1>1 DEF IInv, BrokerType
<1>3. BrokerType' /\ OnItsWay'
  BY <1>1, <1>2 DEF IInv, BrokerType, OnItsWay
<1> QED
  BY <1>1, <1>3, BrokerAlone DEF IInv

\* It publishes: the listener is subscribed, or has yet to start.
LEMMA DispatchStep ==
  ASSUME IInv, Dispatch, UNCHANGED <<cluster, serverVars>> PROVE IInv' /\ NotOlder
<1>1. /\ UNCHANGED <<adds, queue, proc, proxySubs>>
      /\ dispatcher' = [dispatcher EXCEPT !.pc = "select", !.batch = {}]
      /\ proxySending' = IF ProxyPS!Subscribers(ProxyUpdateTopic) = {} THEN ProxyPS!idle
                         ELSE [msg |-> [event |-> dispatcher.event, covers |-> dispatcher.batch],
                               to |-> ProxyPS!Subscribers(ProxyUpdateTopic)]
  BY DEF Dispatch, queueVars, ProxyPS!Pub
<1>2. dispatcher' = [pc |-> "select", event |-> dispatcher.event, batch |-> {}]
  BY <1>1, Zenon DEF IInv, BrokerType
<1>3. pc["listener"] = "start" \/ "listener" \in ProxyPS!Subscribers(ProxyUpdateTopic)
  BY UpdatesAssumption DEF IInv, Subscribed, ProxyPS!Subscribers, Routines
<1>4. pc'["listener"] = "start" \/ proxySending'.to # {}
  BY <1>1, <1>3 DEF serverVars
<1>5. BrokerType'
  BY <1>1, <1>2, Zenon DEF IInv, BrokerType
<1>6. OnItsWay'
  BY <1>4 DEF OnItsWay, Routines
<1> QED
  BY <1>1, <1>5, <1>6, BrokerAlone DEF IInv

\* The end of processEvent, and the event for a single proxy.
LEMMA PubStep ==
  ASSUME IInv, PubKube \/ PubTargeted, UNCHANGED <<cluster, serverVars>> PROVE IInv' /\ NotOlder
<1>1. UNCHANGED <<adds, waiting, dirty, dispatcher, proxySubs>> /\ proc.pc \in {"pubKube", "pubProxy"}
  BY DEF PubKube, PubTargeted, proxyVars, queueVars, ProxyPS!Pub
<1>2. /\ proc' = [pc |-> proc'.pc, msg |-> proc'.msg] /\ (proc'.pc # "get" => proc'.msg \in Msgs)
      /\ queue' \in Seq(Msgs)
  <2>1. CASE PubKube
    BY <2>1 DEF PubKube, IInv, BrokerType
  <2>2. CASE PubTargeted
    BY <2>2 DEF PubTargeted, IInv, BrokerType, queueVars
  <2> QED
    BY <2>1, <2>2
<1>3. proxySending.to # {} => proxySending'.to # {}
  BY DEF PubKube, PubTargeted, proxyVars, ProxyPS!Pub, ProxyPS!idle
<1>4. BrokerType' /\ OnItsWay'
  BY <1>1, <1>2, <1>3 DEF IInv, BrokerType, OnItsWay, serverVars
<1> QED
  BY <1>1, <1>4, BrokerAlone DEF IInv

\* Every step of the broker.
LEMMA BrokerStep ==
  ASSUME IInv, BrokerSteps, UNCHANGED <<cluster, serverVars>> PROVE IInv' /\ NotOlder
BY AddStep, GetStep, HandOverStep, WindowOverStep, DispatchStep, PubStep, Zenon DEF BrokerSteps

-----------------------------------------------------------------------------
(* The cluster, the listener and the informer.                              *)

\* A change waits in the delaying queue from the start.
LEMMA ChangeStep ==
  ASSUME IInv, NEW msg \in Msgs, ClusterChange(msg) PROVE IInv' /\ NotOlder
<1>1. /\ cluster' = cluster + 1 /\ adds < MaxAdds /\ adds' = adds + 1 /\ waiting' # {}
      /\ UNCHANGED <<queue, proc, dispatcher, proxySubs, serverVars>>
  BY DEF ClusterChange, AddRateLimited, proxyVars
<1>2. adds \in Nat /\ cluster = adds + 1 /\ MaxAdds \in Nat
  BY UpdatesAssumption DEF IInv, BrokerType
<1>3. cluster' \in 1..(MaxAdds + 1) /\ cluster \in Nat
  BY <1>1, <1>2
<1>4. TypeOK'
  BY <1>1, <1>3 DEF IInv, TypeOK, serverVars
<1>5. BrokerType'
  BY <1>1, <1>2 DEF IInv, BrokerType
<1>6. Exclusive' /\ Subscribed' /\ OnItsWay'
  BY <1>1 DEF IInv, Exclusive, Subscribed, OnItsWay, serverVars
<1>7. NotOlder
  BY <1>1 DEF IInv, TypeOK, Exclusive, NotOlder, serverVars
<1> QED
  BY <1>4, <1>5, <1>6, <1>7 DEF IInv

\* The timer stays a timer.
LEMMA ResetOK ==
  ASSUME slidingTimer \in [running : BOOLEAN, c : BOOLEAN], Reset
  PROVE  slidingTimer' \in [running : BOOLEAN, c : BOOLEAN] /\ slidingTimer'.running
BY Zenon DEF Reset

\* A step that neither computes, publishes nor ends a job: the broker's own
\* state stays, and a routine goes somewhere else than to publish.
LEMMA RoutineStep ==
  ASSUME IInv,
         UNCHANGED <<adds, queue, waiting, dirty, proc, dispatcher, cluster, lock, conf, ETag, repo, fails>>,
         pc' \in [Routines -> {"none", "start", "select", "wait", "job", "publish"}],
         \A r \in Routines : pc'[r] = "publish" => pc[r] = "publish",
         slidingTimer' \in [running : BOOLEAN, c : BOOLEAN],
         reconfirm' \in BOOLEAN, cacheProxy' \in BOOLEAN,
         proxySubs' = [c \in ProxyChans |-> proxySubs'[c]]
  PROVE  TypeOK' /\ BrokerType' /\ Exclusive' /\ NotOlder
<1>1. TypeOK'
  BY DEF IInv, TypeOK
<1>2. BrokerType'
  BY DEF IInv, BrokerType
<1>3. Exclusive'
  BY DEF IInv, Exclusive
<1>4. NotOlder
  BY DEF IInv, TypeOK, Exclusive, NotOlder
<1> QED
  BY <1>1, <1>2, <1>3, <1>4

\* A subscription adds topics and takes none away.
LEMMA SubOK ==
  ASSUME IInv, NEW c \in ProxyChans, NEW topics, SubProxy(c, topics)
  PROVE  /\ proxySubs' = [d \in ProxyChans |-> proxySubs'[d]]
         /\ \A d \in ProxyChans : proxySubs[d] \subseteq proxySubs'[d]
         /\ topics \subseteq proxySubs'[c]
         /\ UNCHANGED <<adds, queue, waiting, dirty, proc, dispatcher, proxySending>>
<1>1. proxySubs' = [proxySubs EXCEPT ![c] = @ \cup topics] /\ proxySubs = [d \in ProxyChans |-> proxySubs[d]]
  BY DEF IInv, BrokerType, SubProxy, ProxyPS!Sub
<1>2. UNCHANGED <<adds, queue, waiting, dirty, proc, dispatcher, proxySending>>
  BY DEF SubProxy, ProxyPS!Sub, queueVars
<1> QED
  BY <1>1, <1>2

\* broadcastListener starts: its timer runs.
LEMMA ListenerStartStep ==
  ASSUME IInv, ListenerStart PROVE IInv' /\ NotOlder
<1>1. pc' = [pc EXCEPT !["listener"] = "select"] /\ Reset /\ SubProxy("listener", {ProxyUpdateTopic})
  BY DEF ListenerStart, Goto
<1>2. /\ proxySubs' = [d \in ProxyChans |-> proxySubs'[d]] /\ ProxyUpdateTopic \in proxySubs'["listener"]
      /\ UNCHANGED <<adds, queue, waiting, dirty, proc, dispatcher>>
  BY <1>1, SubOK, UpdatesAssumption DEF Routines
<1>3. slidingTimer' \in [running : BOOLEAN, c : BOOLEAN] /\ slidingTimer'.running
  BY <1>1, ResetOK DEF IInv, TypeOK
<1>4. TypeOK' /\ BrokerType' /\ Exclusive' /\ NotOlder
  BY <1>1, <1>2, <1>3, RoutineStep DEF ListenerStart, IInv, TypeOK, Routines
<1>5. Subscribed'
  BY <1>1, <1>2 DEF ListenerStart, IInv, TypeOK, Subscribed, Routines
<1>6. OnItsWay'
  BY <1>3 DEF OnItsWay
<1> QED
  BY <1>4, <1>5, <1>6 DEF IInv

\* The listener receives a publication: its timer runs again.
LEMMA ListenerUpdateStep ==
  ASSUME IInv, ListenerUpdate PROVE IInv' /\ NotOlder
<1>1. /\ UNCHANGED <<adds, queue, waiting, dirty, proc, dispatcher, proxySubs>>
      /\ Reset /\ UNCHANGED <<pc, cacheProxy>> /\ reconfirm' \in BOOLEAN
  BY DEF ListenerUpdate, ReceiveProxy, ProxyPS!Deliver, queueVars
<1>2. slidingTimer' \in [running : BOOLEAN, c : BOOLEAN] /\ slidingTimer'.running
  BY <1>1, ResetOK DEF IInv, TypeOK
<1>3. TypeOK' /\ BrokerType' /\ Exclusive' /\ NotOlder
  BY <1>1, <1>2, RoutineStep DEF ListenerUpdate, IInv, TypeOK, BrokerType
<1>4. Subscribed'
  BY <1>1 DEF IInv, Subscribed
<1>5. OnItsWay'
  BY <1>2 DEF OnItsWay
<1> QED
  BY <1>3, <1>4, <1>5 DEF IInv

\* The timer expires.
LEMMA TimerStep ==
  ASSUME IInv, TimerFires PROVE IInv' /\ NotOlder
<1>1. /\ UNCHANGED <<adds, queue, waiting, dirty, proc, dispatcher, proxySubs>>
      /\ slidingTimer' = [running |-> FALSE, c |-> TRUE] /\ UNCHANGED <<pc, reconfirm, cacheProxy>>
  BY DEF TimerFires, brokerVars, queueVars, proxyVars
<1>2. TypeOK' /\ BrokerType' /\ Exclusive' /\ NotOlder
  BY <1>1, RoutineStep DEF TimerFires, IInv, TypeOK, BrokerType
<1>3. Subscribed'
  BY <1>1 DEF IInv, Subscribed
<1>4. slidingTimer'.c
  BY <1>1
<1>5. OnItsWay'
  BY <1>4 DEF OnItsWay
<1> QED
  BY <1>2, <1>3, <1>5 DEF IInv

\* The listener sees it and has a job to do, now or when its informer started.
LEMMA ListenerFiresStep ==
  ASSUME IInv, ListenerFires PROVE IInv' /\ NotOlder
<1>1. /\ UNCHANGED <<adds, queue, waiting, dirty, proc, dispatcher, proxySubs, reconfirm>>
      /\ slidingTimer' = [slidingTimer EXCEPT !.c = FALSE]
      /\ pc["listener"] = "select"
  BY DEF ListenerFires, brokerVars, queueVars, proxyVars
<1>2. cacheProxy' \in BOOLEAN
  BY Zenon DEF ListenerFires
<1>3. \/ pc' = [pc EXCEPT !["listener"] = "job"]
      \/ pc' = [pc EXCEPT !["listener"] = "wait", !["informer"] = "start"]
  BY DEF ListenerFires
<1>4. /\ pc' \in [Routines -> {"none", "start", "select", "wait", "job", "publish"}]
      /\ \A r \in Routines : pc'[r] = "publish" => pc[r] = "publish"
      /\ pc'["listener"] \in {"job", "wait"}
      /\ pc'["informer"] = "start" => pc'["listener"] = "wait" \/ pc["informer"] = "start"
  BY <1>3 DEF IInv, TypeOK, Routines
<1>5. slidingTimer' \in [running : BOOLEAN, c : BOOLEAN]
  BY <1>1, Zenon DEF IInv, TypeOK
<1>6. proxySubs' = [c \in ProxyChans |-> proxySubs'[c]] /\ reconfirm' \in BOOLEAN
  BY <1>1 DEF IInv, TypeOK, BrokerType
<1>7. UNCHANGED <<cluster, lock, conf, ETag, repo, fails>>
  BY DEF ListenerFires
<1>8. TypeOK' /\ BrokerType' /\ Exclusive' /\ NotOlder
  BY <1>1, <1>2, <1>4, <1>5, <1>6, <1>7, RoutineStep
<1>9. Subscribed'
  BY <1>1, <1>4 DEF IInv, Subscribed
<1>10. OnItsWay'
  BY <1>4 DEF OnItsWay, Routines
<1> QED
  BY <1>8, <1>9, <1>10 DEF IInv

\* The informer subscribes while the listener waits for it.
LEMMA InformerStartStep ==
  ASSUME IInv, InformerStart PROVE IInv' /\ NotOlder
<1> DEFINE topics == {ProxyUpdateTopic, GetPubSubTopicForProxyUUID("informer")}
<1>1. pc' = [pc EXCEPT !["informer"] = "select"] /\ pc["informer"] = "start" /\ SubProxy("informer", topics)
  BY DEF InformerStart, Goto
<1> HIDE DEF topics
<1>2. /\ proxySubs' = [d \in ProxyChans |-> proxySubs'[d]]
      /\ proxySubs["listener"] \subseteq proxySubs'["listener"]
      /\ UNCHANGED <<adds, queue, waiting, dirty, proc, dispatcher>>
  BY <1>1, SubOK, UpdatesAssumption DEF Routines
<1>3. /\ pc' \in [Routines -> {"none", "start", "select", "wait", "job", "publish"}]
      /\ \A r \in Routines : pc'[r] = "publish" => pc[r] = "publish"
      /\ pc'["listener"] = "wait" /\ pc["listener"] = "wait" /\ pc'["informer"] = "select"
  BY <1>1 DEF IInv, TypeOK, Subscribed, Routines
<1>4. TypeOK' /\ BrokerType' /\ Exclusive' /\ NotOlder
  BY <1>2, <1>3, RoutineStep DEF InformerStart, IInv, TypeOK
<1>5. Subscribed'
  BY <1>2, <1>3 DEF IInv, Subscribed
<1>6. OnItsWay'
  BY <1>3 DEF OnItsWay, Routines
<1> QED
  BY <1>4, <1>5, <1>6 DEF IInv

\* wg.Wait returns.
LEMMA ListenerWaitedStep ==
  ASSUME IInv, ListenerWaited PROVE IInv' /\ NotOlder
<1>1. /\ UNCHANGED <<adds, queue, waiting, dirty, proc, dispatcher, proxySubs, slidingTimer, reconfirm, cacheProxy>>
      /\ pc' = [pc EXCEPT !["listener"] = "job"] /\ pc["listener"] = "wait" /\ pc["informer"] # "start"
  BY DEF ListenerWaited, brokerVars, queueVars, proxyVars, Goto
<1>2. /\ pc' \in [Routines -> {"none", "start", "select", "wait", "job", "publish"}]
      /\ \A r \in Routines : pc'[r] = "publish" => pc[r] = "publish"
      /\ pc'["listener"] = "job" /\ pc'["informer"] # "start"
  BY <1>1 DEF IInv, TypeOK, Routines
<1>3. TypeOK' /\ BrokerType' /\ Exclusive' /\ NotOlder
  BY <1>1, <1>2, RoutineStep DEF ListenerWaited, IInv, TypeOK, BrokerType
<1>4. Subscribed'
  BY <1>1, <1>2 DEF IInv, Subscribed
<1>5. OnItsWay'
  BY <1>2 DEF OnItsWay, Routines
<1> QED
  BY <1>3, <1>4, <1>5 DEF IInv

\* The informer receives a publication and has a job to do.
LEMMA InformerUpdateStep ==
  ASSUME IInv, InformerUpdate PROVE IInv' /\ NotOlder
<1>1. /\ UNCHANGED <<adds, queue, waiting, dirty, proc, dispatcher, proxySubs, slidingTimer, reconfirm, cacheProxy>>
      /\ pc' = [pc EXCEPT !["informer"] = "job"]
  BY DEF InformerUpdate, ReceiveProxy, ProxyPS!Deliver, queueVars, Goto
<1>2. /\ pc' \in [Routines -> {"none", "start", "select", "wait", "job", "publish"}]
      /\ \A r \in Routines : pc'[r] = "publish" => pc[r] = "publish"
      /\ pc'["informer"] = "job" /\ pc'["listener"] = pc["listener"]
  BY <1>1 DEF IInv, TypeOK, Routines
<1>3. TypeOK' /\ BrokerType' /\ Exclusive' /\ NotOlder
  BY <1>1, <1>2, RoutineStep DEF InformerUpdate, IInv, TypeOK, BrokerType
<1>4. Subscribed'
  BY <1>1, <1>2 DEF IInv, Subscribed
<1>5. OnItsWay'
  BY <1>2 DEF OnItsWay, Routines
<1> QED
  BY <1>3, <1>4, <1>5 DEF IInv

-----------------------------------------------------------------------------
(* Jobs.                                                                    *)

\* A job takes proxy.Mutex and computes: from the newest state of the cluster.
LEMMA ComputeStep ==
  ASSUME IInv, NEW r \in Routines, NEW ready \in BOOLEAN, JobCompute(r, ready) PROVE IInv' /\ NotOlder
<1>1. /\ pc[r] = "job" /\ lock = "none" /\ lock' = r /\ conf' = [conf EXCEPT ![r] = cluster]
      /\ pc' = [pc EXCEPT ![r] = "publish"]
      /\ UNCHANGED <<adds, queue, waiting, dirty, proc, dispatcher, proxySubs, cluster, reconfirm, cacheProxy,
                     ETag, repo, fails>>
  BY DEF JobCompute, Goto, brokerVars, queueVars, proxyVars
<1>2. slidingTimer' \in [running : BOOLEAN, c : BOOLEAN]
  <2>1. CASE Reset
    BY <2>1, ResetOK DEF IInv, TypeOK
  <2>2. CASE slidingTimer' = slidingTimer
    BY <2>2 DEF IInv, TypeOK
  <2> QED
    BY <2>1, <2>2 DEF JobCompute
<1>3. cluster \in Nat
  BY DEF IInv, BrokerType
<1>4. conf' \in [Routines -> 0..cluster] /\ conf'[r] = cluster
  BY <1>1, <1>3 DEF IInv, TypeOK
<1>5. /\ pc' \in [Routines -> {"none", "start", "select", "wait", "job", "publish"}]
      /\ pc'[r] = "publish" /\ \A t \in Routines \ {r} : pc'[t] = pc[t]
  BY <1>1 DEF IInv, TypeOK
<1>6. \A t \in Routines : pc[t] # "publish"
  BY <1>1 DEF IInv, Exclusive, Routines
<1>7. TypeOK'
  BY <1>1, <1>2, <1>4, <1>5 DEF IInv, TypeOK
<1>8. BrokerType'
  BY <1>1 DEF IInv, BrokerType
<1>9. Exclusive'
  BY <1>1, <1>4, <1>5, <1>6 DEF IInv, TypeOK, Exclusive
<1>10. Subscribed'
  BY <1>1, <1>5 DEF IInv, Subscribed, Routines
<1>11. OnItsWay'
  BY <1>1, <1>4, <1>5 DEF OnItsWay
<1>12. NotOlder
  BY <1>1 DEF IInv, TypeOK, Exclusive, NotOlder
<1> QED
  BY <1>7, <1>8, <1>9, <1>10, <1>11, <1>12 DEF IInv

\* A job ends: proxy.Mutex is free, and a timer that runs keeps running.
LEMMA ReturnsOK ==
  ASSUME IInv, NEW r \in Routines, pc[r] = "publish", JobReturns(r), UNCHANGED <<brokerVars, cluster, cacheProxy, conf>>
  PROVE  /\ lock' = "none"
         /\ pc' \in [Routines -> {"none", "start", "select", "wait", "job", "publish"}]
         /\ \A t \in Routines : pc'[t] # "publish" /\ (t # r => pc'[t] = pc[t])
         /\ pc'[r] = "select"
         /\ slidingTimer' \in [running : BOOLEAN, c : BOOLEAN] /\ reconfirm' \in BOOLEAN
         /\ (slidingTimer.running => slidingTimer'.running) /\ (slidingTimer.c => slidingTimer'.c)
         /\ BrokerType' /\ Subscribed'
<1>1. lock' = "none" /\ pc' = [pc EXCEPT ![r] = "select"]
  BY DEF JobReturns, Goto
<1>2. /\ pc' \in [Routines -> {"none", "start", "select", "wait", "job", "publish"}]
      /\ \A t \in Routines : t # r => pc'[t] = pc[t]
      /\ pc'[r] = "select"
  BY <1>1 DEF IInv, TypeOK
<1>3. \A t \in Routines : t # r => pc[t] # "publish"
  BY DEF IInv, Exclusive
<1>4. /\ slidingTimer' \in [running : BOOLEAN, c : BOOLEAN]
      /\ (slidingTimer.running => slidingTimer'.running) /\ (slidingTimer.c => slidingTimer'.c)
  <2>1. CASE Reset
    BY <2>1, Zenon DEF IInv, TypeOK, Reset
  <2>2. CASE slidingTimer' = slidingTimer
    BY <2>2 DEF IInv, TypeOK
  <2> QED
    BY <2>1, <2>2 DEF JobReturns
<1>5. reconfirm' \in BOOLEAN
  BY Zenon DEF JobReturns, IInv, TypeOK
<1>6. BrokerType'
  BY DEF IInv, BrokerType, brokerVars, queueVars, proxyVars
<1>7. Subscribed'
  BY <1>2 DEF IInv, Subscribed, brokerVars, proxyVars, Routines
<1> QED
  BY <1>1, <1>2, <1>3, <1>4, <1>5, <1>6, <1>7

\* It publishes: an older configuration than the cluster's is followed by the
\* job of the change it missed.
LEMMA PublishStep ==
  ASSUME IInv, NEW r \in Routines, JobPublish(r) PROVE IInv' /\ NotOlder
<1>1. /\ pc[r] = "publish" /\ ETag' = conf[r] /\ repo' = IF conf[r] = ETag THEN repo ELSE conf[r]
      /\ JobReturns(r) /\ UNCHANGED <<brokerVars, cluster, cacheProxy, conf, fails>>
  BY DEF JobPublish
<1>2. /\ lock' = "none"
      /\ pc' \in [Routines -> {"none", "start", "select", "wait", "job", "publish"}]
      /\ \A t \in Routines : pc'[t] # "publish" /\ (t # r => pc'[t] = pc[t])
      /\ slidingTimer' \in [running : BOOLEAN, c : BOOLEAN] /\ reconfirm' \in BOOLEAN
      /\ BrokerType' /\ Subscribed'
  BY <1>1, ReturnsOK, Zenon
<1>3. (slidingTimer.running => slidingTimer'.running) /\ (slidingTimer.c => slidingTimer'.c)
  BY <1>1, ReturnsOK, Zenon
<1>4. conf[r] \in 0..cluster /\ ETag \in 0..cluster /\ conf[r] >= ETag /\ repo \in {0, ETag} /\ cluster \in Nat
  BY <1>1 DEF IInv, TypeOK, Exclusive, BrokerType
<1>5. TypeOK'
  BY <1>1, <1>2, <1>4 DEF IInv, TypeOK
<1>6. Exclusive'
  BY <1>1, <1>2, <1>4 DEF Exclusive
<1>7. NotOlder
  BY <1>1, <1>4 DEF NotOlder
<1>8. OnItsWay'
  <2>1. SUFFICES ASSUME conf[r] # cluster PROVE OnItsWay'
    BY <1>1 DEF OnItsWay
  <2>2. ETag # cluster
    BY <1>4, <2>1
  <2>3. UNCHANGED <<waiting, dirty, proc, dispatcher, proxySending, fails, conf, cluster>>
    BY <1>1 DEF brokerVars, queueVars, proxyVars
  <2>4. \A t \in Routines : t # r => pc[t] # "publish"
    BY <1>1 DEF IInv, Exclusive
  <2> QED
    BY <1>1, <1>2, <1>3, <2>1, <2>2, <2>3, <2>4 DEF IInv, OnItsWay
<1> QED
  BY <1>2, <1>5, <1>6, <1>7, <1>8 DEF IInv

\* Its upload fails.
LEMMA FailsStep ==
  ASSUME IInv, NEW r \in Routines, JobFails(r) PROVE IInv' /\ NotOlder
<1>1. /\ pc[r] = "publish" /\ fails < MaxFails /\ fails' = fails + 1 /\ repo' = 0 /\ ETag' = ETag
      /\ JobReturns(r) /\ UNCHANGED <<brokerVars, cluster, cacheProxy, conf>>
  BY DEF JobFails
<1>2. /\ lock' = "none"
      /\ pc' \in [Routines -> {"none", "start", "select", "wait", "job", "publish"}]
      /\ \A t \in Routines : pc'[t] # "publish"
      /\ slidingTimer' \in [running : BOOLEAN, c : BOOLEAN] /\ reconfirm' \in BOOLEAN
      /\ BrokerType' /\ Subscribed'
  BY <1>1, ReturnsOK, Zenon
<1>3. cluster \in Nat /\ MaxFails \in Nat /\ fails \in 0..MaxFails
  BY UpdatesAssumption DEF IInv, TypeOK, BrokerType
<1>4. fails' \in 0..MaxFails /\ fails' > 0 /\ 0 \in 0..cluster
  BY <1>1, <1>3
<1>5. TypeOK'
  BY <1>1, <1>2, <1>4 DEF IInv, TypeOK
<1>6. Exclusive' /\ NotOlder /\ OnItsWay'
  BY <1>1, <1>2, <1>4 DEF Exclusive, NotOlder, OnItsWay
<1> QED
  BY <1>2, <1>5, <1>6 DEF IInv

-----------------------------------------------------------------------------
(* The invariant holds throughout.                                          *)

\* It holds when the controller starts.
LEMMA InitOK ==
  ASSUME Init PROVE IInv
<1>1. MaxAdds \in Nat /\ MaxFails \in Nat
  BY UpdatesAssumption
<1>2. 1 \in 1..(MaxAdds + 1) /\ 0 \in 0..MaxFails
  BY <1>1
<1>3. TypeOK
  <2>1. slidingTimer \in [running : BOOLEAN, c : BOOLEAN]
    BY DEF Init
  <2>2. reconfirm \in BOOLEAN /\ cacheProxy \in BOOLEAN
    BY Zenon DEF Init
  <2>3. cluster \in 1..(MaxAdds + 1) /\ fails \in 0..MaxFails /\ 0 \in 0..cluster
    BY <1>2 DEF Init
  <2>4. /\ pc \in [Routines -> {"none", "start", "select", "wait", "job", "publish"}]
        /\ lock \in Routines \cup {"none"}
    BY DEF Init
  <2>5. conf \in [Routines -> 0..cluster] /\ ETag \in 0..cluster /\ repo \in 0..cluster
    BY <2>3 DEF Init
  <2> QED
    BY <2>1, <2>2, <2>3, <2>4, <2>5 DEF TypeOK
<1>4. BrokerType
  BY DEF Init, BrokerInit, BrokerType, ProxyPS!Init
<1>5. Exclusive /\ Subscribed /\ OnItsWay
  BY DEF Init, Exclusive, Subscribed, OnItsWay, Routines
<1> QED
  BY <1>3, <1>4, <1>5 DEF IInv

\* Every step preserves the invariant, and publishes nothing older.
LEMMA NextOK ==
  ASSUME IInv, [Next]_vars PROVE IInv' /\ (Next => NotOlder)
<1>1. CASE UNCHANGED vars
  <2>1. UNCHANGED <<cluster, serverVars, proxySubs, adds, queue, proc, dispatcher, waiting, dirty, proxySending>>
    BY <1>1 DEF vars, brokerVars, queueVars, proxyVars
  <2>2. TypeOK' /\ Exclusive' /\ Subscribed' /\ NotOlder
    BY <2>1, BrokerAlone
  <2>3. BrokerType' /\ OnItsWay'
    BY <2>1 DEF IInv, BrokerType, OnItsWay, serverVars
  <2> QED
    BY <2>2, <2>3 DEF IInv
<1>2. CASE BrokerSteps /\ UNCHANGED <<cluster, serverVars>>
  BY <1>2, BrokerStep, Zenon
<1>3. CASE \E msg \in Msgs : ClusterChange(msg)
  BY <1>3, ChangeStep, Zenon
<1>4. CASE TimerFires
  BY <1>4, TimerStep, Zenon
<1>5. CASE ListenerSteps
  BY <1>5, ListenerStartStep, ListenerUpdateStep, ListenerFiresStep, ListenerWaitedStep, Zenon DEF ListenerSteps
<1>6. CASE InformerSteps
  BY <1>6, InformerStartStep, InformerUpdateStep, Zenon DEF InformerSteps
<1>7. CASE \E r \in Routines : JobSteps(r)
  BY <1>7, ComputeStep, PublishStep, FailsStep, Zenon DEF JobSteps
<1> QED
  BY <1>1, <1>2, <1>3, <1>4, <1>5, <1>6, <1>7, Zenon DEF Next

\* And so in every state of every run.
LEMMA Inductive == Spec => []IInv
BY InitOK, NextOK, PTL DEF Spec

\* A change of the cluster that the repo does not show is on its way to it:
\* whatever the order in which the queue, the dispatcher, the listener, the
\* informer and their jobs take their steps, none of them drops it.
THEOREM UpdatesOnTheirWay == Spec => []StaleIsOnItsWay
<1>1. IInv => StaleIsOnItsWay
  BY DEF IInv, OnItsWay, StaleIsOnItsWay
<1> QED
  BY <1>1, Inductive, PTL

\* No job replaces what was published by something older: proxy.Mutex covers
\* both the computation and the publication.
THEOREM PublishedNeverOlder == Spec => NeverPublishesOlder
<1>1. IInv /\ [Next]_vars => [repo' # 0 => repo' >= ETag]_vars
  BY NextOK, Zenon DEF NotOlder
<1> QED
  BY <1>1, Inductive, PTL DEF Spec, NeverPublishesOlder
=============================================================================
