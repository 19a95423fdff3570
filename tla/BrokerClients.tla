---------------------------- MODULE BrokerClients ----------------------------
(***************************************************************************)
(* The broker with the subscribers that subscribe, receive in a loop and   *)
(* leave with Broker.Unsub: the per-proxy routine informTrafficPolicies on *)
(* proxyUpdatePubSub, WatchAndUpdateLogLevel on kubeEventPubSub.           *)
(***************************************************************************)
EXTENDS Broker

CONSTANT uuidOf   (* the proxy UUID of each channel of proxyUpdatePubSub    *)

VARIABLE client   (* where the owner of each channel is                     *)

clientVars == <<brokerVars, client>>

Chans == ProxyChans \cup KubeChans

Goto(c, pc) == client' = [client EXCEPT ![c] = pc]

ClientsInit ==
  /\ BrokerInit
  /\ client = [c \in Chans |-> "start"]

\* Sub to the broadcasts and to the proxy's own topic, or to EcnetConfig updates.
Subscribe(c) ==
  /\ client[c] = "start"
  /\ IF c \in ProxyChans
       THEN SubProxy(c, {ProxyUpdateTopic, GetPubSubTopicForProxyUUID(uuidOf[c])})
       ELSE SubKube(c, {KindTopic("EcnetConfigUpdated")})
  /\ Goto(c, "select")

\* A receive of the select: informTrafficPolicies then queues a job and waits
\* for it, WatchAndUpdateLogLevel returns to its select.
Receive(c) ==
  /\ client[c] = "select"
  /\ IF c \in ProxyChans
       THEN ReceiveProxy(c) /\ Goto(c, "job")
       ELSE ReceiveKube(c) /\ UNCHANGED client

\* <-s.workQueues.AddJob(newJob())
JobDone(c) ==
  /\ client[c] = "job"
  /\ Goto(c, "select")
  /\ UNCHANGED brokerVars

\* The quit or stop case: the deferred Unsub starts its goroutine.
Quit(c) ==
  /\ client[c] = "select"
  /\ Goto(c, "unsub")
  /\ UNCHANGED brokerVars

\* Mutant: Unsub returns without draining the channel.
Drain_Never(c) ==
  /\ client[c] = "unsub"
  /\ UNCHANGED clientVars

\* "for range ch": what still arrives is thrown away.
Drain(c) ==
  /\ client[c] = "unsub"
  /\ IF c \in ProxyChans THEN ReceiveProxy(c) ELSE ReceiveKube(c)
  /\ UNCHANGED client

\* The pub-sub serves the Unsub and closes the channel.
Unsubscribed(c) ==
  /\ client[c] = "unsub"
  /\ IF c \in ProxyChans THEN UnsubProxy(c) ELSE UnsubKube(c)
  /\ Goto(c, "gone")

ClientNext(c) ==
  \/ Subscribe(c)
  \/ Receive(c)
  \/ JobDone(c)
  \/ Quit(c)
  \/ Drain(c)
  \/ Unsubscribed(c)

ClientsNext ==
  \/ \E msg \in Msgs : AddRateLimited(msg) /\ UNCHANGED client
  \/ BrokerSteps /\ UNCHANGED client
  \/ \E c \in Chans : ClientNext(c)

ClientsSpec == ClientsInit /\ [][ClientsNext]_clientVars

\* Goroutines run, jobs end, and the command channel serves its senders in
\* turn.  Nothing makes a subscriber quit.
FairClientsSpec ==
  /\ ClientsSpec
  /\ \A msg \in Msgs : WF_clientVars(Add(msg) /\ UNCHANGED client)
  /\ WF_clientVars(Get /\ UNCHANGED client)
  /\ WF_clientVars(HandOver /\ UNCHANGED client)
  /\ WF_clientVars(WindowOver /\ UNCHANGED client)
  /\ SF_clientVars(PubTargeted /\ UNCHANGED client)
  /\ SF_clientVars(Dispatch /\ UNCHANGED client)
  /\ SF_clientVars(PubKube /\ UNCHANGED client)
  /\ \A c \in Chans :
       /\ SF_clientVars(Subscribe(c))
       /\ WF_clientVars(Receive(c) \/ JobDone(c) \/ Drain(c))
       /\ SF_clientVars(Unsubscribed(c))

-----------------------------------------------------------------------------
ClientsTypeOK ==
  /\ adds \in 0..MaxAdds
  /\ waiting \subseteq Msgs
  /\ queue \in Seq(Msgs)
  /\ dirty \subseteq Msgs
  /\ processing \subseteq Msgs
  /\ proc.pc \in {"get", "pubProxy", "handOver", "pubKube"}
  /\ proc.msg \in Msgs \cup {noMsg}
  /\ dispatcher.pc \in {"select", "publish"}
  /\ dispatcher.batch \subseteq 1..totalQProxyEventCount
  /\ proxySending.to \subseteq ProxyChans
  /\ kubeSending.to \subseteq KubeChans
  /\ \A c \in ProxyChans : owed[c] \subseteq 1..totalQProxyEventCount
  /\ client \in [Chans -> {"start", "select", "job", "unsub", "gone"}]

\* A message handed to the workqueue is never dropped by it: what was added
\* and not yet taken is queued exactly once, or waits for the processor to be
\* done with an equal message.
DirtyIsScheduled ==
  \A msg \in Msgs :
    LET places == {i \in DOMAIN queue : queue[i] = msg}
    IN  /\ \A i, k \in places : i = k
        /\ msg \in dirty => places # {} \/ proc.msg = msg
        /\ places # {} => msg \in dirty /\ proc.msg # msg
        /\ msg \in processing <=> msg = proc.msg

\* A broadcast that a subscriber has not been told of is held by the
\* dispatcher or being sent to that very subscriber: coalescing and the
\* rendezvous with slow or leaving subscribers lose none.
OwedIsInFlight ==
  \A c \in ProxyChans : \A n \in owed[c] :
    \/ n \in dispatcher.batch
    \/ c \in proxySending.to /\ n \in proxySending.msg.covers

\* The metrics of the broker: every dispatch, made or still to be made,
\* stands for at least one proxy update event read from the workqueue.
DispatchesWithinQueued ==
  totalDispatchedProxyEventCount
    + (IF dispatcher.batch = {} THEN 0 ELSE 1)
    + (IF proc.pc \in {"pubProxy", "handOver"} THEN 1 ELSE 0) <= totalQProxyEventCount

\* Nothing is lost between an informer's event and a subscriber: the workqueue
\* drops no message, coalescing and the rendezvous no broadcast, and the
\* metrics count every event before its dispatch.
NothingLost == ClientsTypeOK /\ DirtyIsScheduled /\ OwedIsInFlight /\ DispatchesWithinQueued

\* The processor gets to every message that is added, whatever subscribers do,
\* and a subscriber is told of every broadcast made while it is subscribed.
EveryMessageArrives ==
  /\ \A msg \in Msgs : msg \in waiting ~> proc.msg = msg
  /\ \A c \in ProxyChans : \A n \in 1..MaxAdds : n \in owed[c] ~> n \notin owed[c]

\* Broker.Unsub returns, even when the pub-sub is sending to the channel that
\* leaves: its goroutine and the draining loop are both needed.
UnsubReturns == \A c \in Chans : client[c] = "unsub" ~> client[c] = "gone"
=============================================================================
