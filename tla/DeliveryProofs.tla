--------------------------- MODULE DeliveryProofs ---------------------------
(***************************************************************************)
(* From an event in the cluster to a subscriber, and on to the kernel's    *)
(* maps: the broker with any number of subscribers and messages, and the   *)
(* bridge, one such subscriber, with any host names, addresses, changes,   *)
(* faults and crashes.                                                     *)
(***************************************************************************)
EXTENDS BrokerClients, BridgeSync, TLAPS

-----------------------------------------------------------------------------
(* The workqueue.                                                          *)

Elems(s) == {s[i] : i \in DOMAIN s}

Once(s) == \A i, k \in DOMAIN s : s[i] = s[k] => i = k

\* Appending what is not there.
LEMMA AppendOnce ==
  ASSUME NEW S, NEW s \in Seq(S), NEW x \in S, Once(s), x \notin Elems(s)
  PROVE  /\ Append(s, x) \in Seq(S)
         /\ Elems(Append(s, x)) = Elems(s) \cup {x}
         /\ Once(Append(s, x))
<1> DEFINE t == Append(s, x)
           n == Len(s)
<1>1. /\ t \in Seq(S) /\ n \in Nat /\ DOMAIN s = 1..n /\ DOMAIN t = 1..(n + 1)
      /\ t[n + 1] = x /\ \A i \in 1..n : t[i] = s[i]
  OBVIOUS
<1> HIDE DEF t, n
<1>2. \A i \in 1..(n + 1) : i \in 1..n \/ i = n + 1
  BY <1>1
<1>3. n + 1 \in 1..(n + 1) /\ \A i \in 1..n : i \in 1..(n + 1)
  BY <1>1
<1>4. Elems(t) = Elems(s) \cup {x}
  BY <1>1, <1>2, <1>3, Zenon DEF Elems
<1>5. \A i \in 1..n : s[i] # x
  BY <1>1, Zenon DEF Elems
<1>6. Once(t)
  BY <1>1, <1>2, <1>5, Zenon DEF Once
<1> QED
  BY <1>1, <1>4, <1>6 DEF t

\* Taking the first, which is not there a second time.
LEMMA TailOnce ==
  ASSUME NEW S, NEW s \in Seq(S), s # << >>, Once(s)
  PROVE  /\ Head(s) \in Elems(s) /\ Head(s) \in S
         /\ Tail(s) \in Seq(S)
         /\ Elems(Tail(s)) = Elems(s) \ {Head(s)}
         /\ Once(Tail(s))
<1> DEFINE t == Tail(s)
           n == Len(s)
<1>1. /\ t \in Seq(S) /\ n \in Nat \ {0} /\ DOMAIN s = 1..n /\ DOMAIN t = 1..(n - 1)
      /\ Head(s) = s[1] /\ Head(s) \in S /\ \A i \in 1..(n - 1) : t[i] = s[i + 1]
  OBVIOUS
<1> HIDE DEF t, n
<1>2. 1 \in 1..n /\ \A i \in 1..(n - 1) : i + 1 \in 1..n /\ i + 1 # 1
  BY <1>1
<1>3. \A k \in 1..n : k # 1 => \E i \in 1..(n - 1) : k = i + 1
  <2> SUFFICES ASSUME NEW k \in 1..n, k # 1
               PROVE  k - 1 \in 1..(n - 1) /\ k = (k - 1) + 1
    OBVIOUS
  <2> QED
    BY <1>1
<1>4. \A i, k \in 1..(n - 1) : i + 1 = k + 1 => i = k
  BY <1>1
<1>5. \A i, k \in 1..n : s[i] = s[k] => i = k
  BY <1>1, Zenon DEF Once
<1>6. Elems(t) = Elems(s) \ {Head(s)}
  <2>1. ASSUME NEW x \in Elems(t) PROVE x \in Elems(s) /\ x # Head(s)
    <3>1. PICK i \in 1..(n - 1) : x = t[i]
      BY <1>1, Zenon DEF Elems
    <3>2. x = s[i + 1] /\ i + 1 \in 1..n /\ i + 1 # 1
      BY <1>1, <1>2, <3>1, Zenon
    <3> QED
      BY <1>1, <1>2, <1>5, <3>2, Zenon DEF Elems
  <2>2. ASSUME NEW x \in Elems(s), x # Head(s) PROVE x \in Elems(t)
    <3>1. PICK k \in 1..n : x = s[k]
      BY <1>1, Zenon DEF Elems
    <3>2. PICK i \in 1..(n - 1) : k = i + 1
      BY <1>1, <1>3, <2>2, <3>1, Zenon
    <3>3. x = t[i]
      BY <1>1, <3>1, <3>2, Zenon
    <3> QED
      BY <1>1, <3>3, Zenon DEF Elems
  <2> QED
    BY <2>1, <2>2, Zenon
<1>7. Once(t)
  <2> SUFFICES ASSUME NEW i \in 1..(n - 1), NEW k \in 1..(n - 1), t[i] = t[k]
               PROVE  i = k
    BY <1>1, Zenon DEF Once
  <2>1. s[i + 1] = s[k + 1]
    BY <1>1, Zenon
  <2> QED
    BY <1>2, <1>4, <1>5, <2>1, Zenon
<1>8. Head(s) \in Elems(s)
  BY <1>1, <1>2, Zenon DEF Elems
<1> QED
  BY <1>1, <1>6, <1>7, <1>8 DEF t

\* The workqueue and its processor: what is queued is queued once, is dirty and
\* is not being processed; what is dirty is queued or being processed.
QueueInv ==
  /\ adds \in 0..MaxAdds
  /\ waiting \subseteq Msgs
  /\ queue \in Seq(Msgs)
  /\ dirty \subseteq Msgs
  /\ proc \in [pc : {"get", "pubProxy", "handOver", "pubKube"}, msg : Msgs \cup {noMsg}]
  /\ proc.pc = "get" <=> proc.msg = noMsg
  /\ processing = {proc.msg} \ {noMsg}
  /\ Once(queue)
  /\ Elems(queue) \subseteq dirty
  /\ proc.msg \notin Elems(queue)
  /\ \A msg \in dirty : msg \in Elems(queue) \/ msg = proc.msg

\* Without a step of the workqueue or the processor.
LEMMA QueueSame ==
  ASSUME QueueInv, UNCHANGED queueVars, proc' \in [pc : {"pubKube"}, msg : {proc.msg}] \/ proc' = proc,
         proc' # proc => proc.pc # "get"
  PROVE  QueueInv'
<1>1. UNCHANGED <<adds, waiting, queue, dirty, processing>>
  BY DEF queueVars
<1>2. proc' \in [pc : {"get", "pubProxy", "handOver", "pubKube"}, msg : Msgs \cup {noMsg}]
  BY DEF QueueInv
<1>3. proc'.msg = proc.msg /\ (proc'.pc = "get" <=> proc.pc = "get")
  BY DEF QueueInv
<1> QED
  BY <1>1, <1>2, <1>3 DEF QueueInv

\* AddRateLimited only puts a message into the heap.
LEMMA AddRateLimitedQueue ==
  ASSUME QueueInv, NEW msg \in Msgs, AddRateLimited(msg)
  PROVE  QueueInv'
<1>1. adds' \in 0..MaxAdds
  BY BrokerAssumption DEF QueueInv, AddRateLimited
<1>2. waiting' \subseteq Msgs /\ UNCHANGED <<queue, dirty, processing, proc>>
  BY DEF QueueInv, AddRateLimited
<1> QED
  BY <1>1, <1>2 DEF QueueInv

\* Add queues a message unless an equal one is queued or being processed.
LEMMA AddQueue ==
  ASSUME QueueInv, NEW msg \in Msgs, Add(msg)
  PROVE  QueueInv'
<1>1. /\ waiting' \subseteq Msgs /\ dirty' = dirty \cup {msg} /\ dirty' \subseteq Msgs
      /\ UNCHANGED <<adds, processing, proc>>
  BY DEF Add, QueueInv
<1>2. CASE msg \in dirty \cup processing
  <2>1. queue' = queue
    BY <1>2 DEF Add
  <2>2. msg \in Elems(queue) \/ msg = proc.msg
    BY <1>2 DEF QueueInv
  <2> QED
    BY <1>1, <2>1, <2>2 DEF QueueInv
<1>3. CASE msg \notin dirty \cup processing
  <2>1. queue' = Append(queue, msg)
    BY <1>3 DEF Add
  <2>2. msg \notin Elems(queue) /\ msg # proc.msg
    BY <1>3, BrokerAssumption DEF QueueInv
  <2>3. queue' \in Seq(Msgs) /\ Elems(queue') = Elems(queue) \cup {msg} /\ Once(queue')
    BY <2>1, <2>2, AppendOnce, Zenon DEF QueueInv
  <2> QED
    BY <1>1, <2>2, <2>3 DEF QueueInv
<1> QED
  BY <1>2, <1>3

\* Get moves the first message from the queue to the processor.
LEMMA GetQueue ==
  ASSUME QueueInv, Get
  PROVE  QueueInv'
<1> DEFINE h == Head(queue)
<1>1. /\ h \in Elems(queue) /\ h \in Msgs /\ queue' \in Seq(Msgs)
      /\ Elems(queue') = Elems(queue) \ {h} /\ Once(queue')
  <2>1. queue # << >> /\ queue' = Tail(queue) /\ queue \in Seq(Msgs) /\ Once(queue)
    BY DEF Get, QueueInv
  <2> QED
    BY <2>1, TailOnce, Zenon
<1>2. /\ proc.pc = "get" /\ processing' = processing \cup {h} /\ dirty' = dirty \ {h}
      /\ UNCHANGED <<adds, waiting>>
  BY DEF Get
<1>3. PICK p \in {"pubKube", "handOver", "pubProxy"} : proc' = [msg |-> h, pc |-> p]
  <2>1. PICK p : /\ proc' = [msg |-> h, pc |-> p]
                 /\ p = CASE getProxyUpdateEvent(h) = NoTopic -> "pubKube"
                          [] getProxyUpdateEvent(h) = ProxyUpdateTopic -> "handOver"
                          [] OTHER -> "pubProxy"
    BY Zenon DEF Get
  <2>2. p \in {"pubKube", "handOver", "pubProxy"}
    BY <2>1
  <2> QED
    BY <2>1, <2>2, Zenon
<1> HIDE DEF h
<1>4. /\ proc' \in [pc : {"get", "pubProxy", "handOver", "pubKube"}, msg : Msgs \cup {noMsg}]
      /\ proc'.msg = h /\ proc'.pc # "get"
  BY <1>1, <1>3
<1>5. proc.msg = noMsg /\ h # noMsg /\ processing' = {h}
  BY <1>1, <1>2, BrokerAssumption DEF QueueInv
<1>6. \A msg \in dirty : msg \in Elems(queue)
  BY <1>5, BrokerAssumption DEF QueueInv
<1>7. Elems(queue') \subseteq dirty' /\ h \notin Elems(queue') /\ \A msg \in dirty' : msg \in Elems(queue')
  BY <1>1, <1>2, <1>6 DEF QueueInv
<1> QED
  BY <1>1, <1>2, <1>4, <1>5, <1>7 DEF QueueInv

\* Done queues the message again if an equal one was added meanwhile.
LEMMA PubKubeQueue ==
  ASSUME QueueInv, PubKube
  PROVE  QueueInv'
<1> DEFINE m == proc.msg
<1>1. /\ proc.pc = "pubKube" /\ processing' = processing \ {m} /\ UNCHANGED <<adds, waiting, dirty>>
      /\ queue' = (IF m \in dirty THEN Append(queue, m) ELSE queue)
      /\ proc' = [pc |-> "get", msg |-> noMsg]
  BY DEF PubKube
<1>2. m \in Msgs /\ m # noMsg /\ m \notin Elems(queue)
  BY <1>1 DEF QueueInv
<1>3. processing' = {} /\ proc'.msg = noMsg /\ proc'.pc = "get"
      /\ proc' \in [pc : {"get", "pubProxy", "handOver", "pubKube"}, msg : Msgs \cup {noMsg}]
  BY <1>1 DEF QueueInv
<1> HIDE DEF m
<1>4. queue \in Seq(Msgs) /\ Once(queue) /\ Elems(queue) \subseteq dirty /\ \A x \in dirty : x \in Elems(queue) \/ x = m
  BY Zenon DEF QueueInv, m
<1>5. queue' \in Seq(Msgs) /\ Once(queue') /\ Elems(queue') = dirty
  <2>1. CASE m \in dirty
    <3>1. queue' = Append(queue, m)
      BY <1>1, <2>1, Zenon
    <3>2. queue' \in Seq(Msgs) /\ Once(queue') /\ Elems(queue') = Elems(queue) \cup {m}
      BY <1>2, <1>4, <3>1, AppendOnce, Zenon
    <3> QED
      BY <1>4, <2>1, <3>2, Zenon
  <2>2. CASE m \notin dirty
    <3>1. queue' = queue /\ \A x \in dirty : x \in Elems(queue)
      BY <1>1, <1>4, <2>2, Zenon
    <3> QED
      BY <1>4, <3>1, Zenon
  <2> QED
    BY <2>1, <2>2, Zenon
<1>6. noMsg \notin Elems(queue')
  BY <1>5, BrokerAssumption DEF QueueInv
<1> QED
  BY <1>1, <1>3, <1>5, <1>6, Zenon DEF QueueInv

-----------------------------------------------------------------------------
(* The dispatcher and the metrics.                                         *)

DispatcherType ==
  /\ dispatcher = [pc |-> dispatcher.pc, event |-> dispatcher.event, batch |-> dispatcher.batch]
  /\ dispatcher.pc \in {"select", "publish"}

\* A dispatch in the making has a batch, which holds events counted before.
BatchInv ==
  /\ DispatcherType
  /\ totalQProxyEventCount \in Nat /\ totalDispatchedProxyEventCount \in Nat
  /\ dispatcher.batch \subseteq 1..totalQProxyEventCount
  /\ dispatcher.pc = "publish" => dispatcher.batch # {}
  /\ DispatchesWithinQueued

\* Get counts an event before it is dispatched or handed over.
LEMMA GetBatch ==
  ASSUME QueueInv, BatchInv, Get
  PROVE  BatchInv' /\ totalQProxyEventCount' \in Nat /\ totalQProxyEventCount' >= totalQProxyEventCount
<1> DEFINE h == Head(queue)
           topic == getProxyUpdateEvent(h)
<1>1. /\ proc.pc = "get" /\ UNCHANGED <<dispatcher, totalDispatchedProxyEventCount>>
      /\ proc' = [msg |-> h, pc |-> CASE topic = NoTopic -> "pubKube"
                                      [] topic = ProxyUpdateTopic -> "handOver"
                                      [] OTHER -> "pubProxy"]
      /\ totalQProxyEventCount' =
           IF topic = NoTopic THEN totalQProxyEventCount ELSE totalQProxyEventCount + 1
  BY DEF Get
<1> HIDE DEF h, topic
<1>2. topic = NoTopic => proc'.pc = "pubKube"
  <2>1. NoTopic # ProxyUpdateTopic
    BY DEF NoTopic, ProxyUpdateTopic, KindTopic
  <2> QED
    BY <1>1, <2>1
<1>3. /\ totalQProxyEventCount' \in Nat /\ totalQProxyEventCount' >= totalQProxyEventCount
      /\ 1..totalQProxyEventCount \subseteq 1..totalQProxyEventCount'
  BY <1>1 DEF BatchInv
<1>4. DispatchesWithinQueued'
  <2>1. /\ proc.pc = "get" /\ UNCHANGED <<dispatcher, totalDispatchedProxyEventCount>>
        /\ \/ proc'.pc = "pubKube" /\ totalQProxyEventCount' = totalQProxyEventCount
           \/ totalQProxyEventCount' = totalQProxyEventCount + 1
    BY <1>1, <1>2, Zenon
  <2> QED
    BY <2>1 DEF BatchInv, DispatchesWithinQueued
<1>5. DispatcherType'
  BY <1>1, Zenon DEF BatchInv, DispatcherType
<1>6. totalDispatchedProxyEventCount' \in Nat /\ dispatcher'.batch \subseteq 1..totalQProxyEventCount'
      /\ (dispatcher'.pc = "publish" => dispatcher'.batch # {})
  BY <1>1, <1>3 DEF BatchInv
<1> QED
  BY <1>3, <1>4, <1>5, <1>6, Zenon DEF BatchInv

\* An event for one proxy is counted as dispatched once it is published.
LEMMA PubTargetedBatch ==
  ASSUME QueueInv, BatchInv, PubTargeted
  PROVE  BatchInv'
<1>1. /\ proc.pc = "pubProxy" /\ proc'.pc = "pubKube" /\ UNCHANGED <<dispatcher, totalQProxyEventCount>>
      /\ totalDispatchedProxyEventCount' = totalDispatchedProxyEventCount + 1
  BY DEF PubTargeted, QueueInv
<1>2. DispatchesWithinQueued'
  BY <1>1 DEF BatchInv, DispatchesWithinQueued
<1>3. totalDispatchedProxyEventCount' \in Nat
  BY <1>1 DEF BatchInv
<1> QED
  BY <1>1, <1>2, <1>3, Zenon DEF BatchInv, DispatcherType

\* A broadcast joins the batch.
LEMMA HandOverBatch ==
  ASSUME QueueInv, BatchInv, HandOver
  PROVE  BatchInv' /\ dispatcher'.batch = dispatcher.batch \cup {totalQProxyEventCount}
           /\ totalQProxyEventCount \in 1..totalQProxyEventCount
<1>1. /\ proc.pc = "handOver" /\ dispatcher.pc = "select" /\ UNCHANGED counters
      /\ dispatcher' = [dispatcher EXCEPT !.event = proc.msg, !.batch = @ \cup {totalQProxyEventCount}]
  BY DEF HandOver
<1>2. proc'.pc = "pubKube"
  BY DEF HandOver, QueueInv
<1>3. dispatcher' = [pc |-> "select", event |-> proc.msg, batch |-> dispatcher.batch \cup {totalQProxyEventCount}]
  BY <1>1, Zenon DEF BatchInv, DispatcherType
<1>4. /\ dispatcher'.pc = "select" /\ dispatcher'.batch = dispatcher.batch \cup {totalQProxyEventCount}
      /\ DispatcherType'
  BY <1>3 DEF DispatcherType
<1>5. UNCHANGED <<totalQProxyEventCount, totalDispatchedProxyEventCount>>
  BY <1>1 DEF counters
<1>6. DispatchesWithinQueued' /\ totalQProxyEventCount \in 1..totalQProxyEventCount
  BY <1>1, <1>2, <1>5 DEF BatchInv, DispatchesWithinQueued
<1> QED
  BY <1>4, <1>5, <1>6 DEF BatchInv

\* A window ends only for a batch that is not empty.
LEMMA WindowOverBatch ==
  ASSUME BatchInv, WindowOver
  PROVE  BatchInv' /\ dispatcher'.batch = dispatcher.batch
<1>1. /\ dispatcher.batch # {} /\ UNCHANGED <<counters, proc>>
      /\ dispatcher' = [dispatcher EXCEPT !.pc = "publish"]
  BY DEF WindowOver
<1>2. dispatcher' = [pc |-> "publish", event |-> dispatcher.event, batch |-> dispatcher.batch]
  BY <1>1, Zenon DEF BatchInv, DispatcherType
<1>3. dispatcher'.batch = dispatcher.batch /\ DispatcherType'
  BY <1>2 DEF DispatcherType
<1>4. DispatchesWithinQueued'
  BY <1>1, <1>3 DEF BatchInv, DispatchesWithinQueued, counters
<1> QED
  BY <1>1, <1>3, <1>4 DEF BatchInv, counters

\* A dispatch is counted in place of the batch that it publishes.
LEMMA DispatchBatch ==
  ASSUME BatchInv, Dispatch
  PROVE  BatchInv' /\ dispatcher'.batch = {}
<1>1. /\ dispatcher.pc = "publish" /\ UNCHANGED <<proc, totalQProxyEventCount>>
      /\ dispatcher' = [dispatcher EXCEPT !.pc = "select", !.batch = {}]
      /\ totalDispatchedProxyEventCount' = totalDispatchedProxyEventCount + 1
  BY DEF Dispatch
<1>2. dispatcher' = [pc |-> "select", event |-> dispatcher.event, batch |-> {}]
  BY <1>1, Zenon DEF BatchInv, DispatcherType
<1>3. dispatcher'.pc = "select" /\ dispatcher'.batch = {} /\ DispatcherType'
  BY <1>2 DEF DispatcherType
<1>4. DispatchesWithinQueued' /\ totalDispatchedProxyEventCount' \in Nat
  BY <1>1, <1>3 DEF BatchInv, DispatchesWithinQueued
<1> QED
  BY <1>1, <1>3, <1>4 DEF BatchInv

\* No other step touches them; the processor goes back to its queue.
LEMMA BatchSame ==
  ASSUME BatchInv, UNCHANGED <<dispatcher, totalQProxyEventCount, totalDispatchedProxyEventCount>>,
         proc' = proc \/ proc'.pc = "get"
  PROVE  BatchInv'
<1>1. DispatchesWithinQueued'
  BY DEF BatchInv, DispatchesWithinQueued
<1> QED
  BY <1>1, Zenon DEF BatchInv, DispatcherType

-----------------------------------------------------------------------------
(* The broadcasts that subscribers are owed.                               *)

\* A pub-sub instance sends to its own channels.
Sends(x, chans) == x = [msg |-> x.msg, to |-> x.to] /\ x.to \subseteq chans

\* Only a subscriber is owed a broadcast: the next dispatch will reach it.
OwedInv ==
  /\ proxySubs = [c \in ProxyChans |-> proxySubs[c]]
  /\ owed = [c \in ProxyChans |-> owed[c]]
  /\ Sends(proxySending, ProxyChans)
  /\ \A c \in ProxyChans : /\ owed[c] \subseteq 1..totalQProxyEventCount
                           /\ owed[c] # {} => ProxyUpdateTopic \in proxySubs[c]
  /\ OwedIsInFlight

\* What a publication sends, and to whom.
LEMMA PubSends ==
  ASSUME NEW msg, NEW topic, ProxyPS!Pub(msg, topic)
  PROVE  /\ proxySending.to = {} /\ UNCHANGED proxySubs
         /\ Sends(proxySending', ProxyChans)
         /\ proxySending'.to = {c \in ProxyChans : topic \in proxySubs[c]}
         /\ proxySending'.to # {} => proxySending'.msg = msg
<1> DEFINE T == ProxyPS!Subscribers(topic)
<1>1. /\ proxySending = [msg |-> noMsg, to |-> {}] /\ UNCHANGED proxySubs
      /\ proxySending' = IF T = {} THEN [msg |-> noMsg, to |-> {}] ELSE [msg |-> msg, to |-> T]
  BY DEF ProxyPS!Pub, ProxyPS!idle
<1>2. T = {c \in ProxyChans : topic \in proxySubs[c]}
  BY DEF ProxyPS!Subscribers
<1> HIDE DEF T
<1>3. CASE T = {}
  BY <1>1, <1>2, <1>3, Zenon DEF Sends
<1>4. CASE T # {}
  BY <1>1, <1>2, <1>4, Zenon DEF Sends
<1> QED
  BY <1>3, <1>4, Zenon

\* Steps that leave the pub-sub and the batch alone.
LEMMA OwedSame ==
  ASSUME OwedInv, UNCHANGED <<proxySubs, proxySending, owed>>, dispatcher'.batch = dispatcher.batch,
         totalQProxyEventCount \in Nat, totalQProxyEventCount' \in Nat,
         totalQProxyEventCount' >= totalQProxyEventCount
  PROVE  OwedInv'
<1>1. 1..totalQProxyEventCount \subseteq 1..totalQProxyEventCount'
  OBVIOUS
<1>2. OwedIsInFlight'
  BY Zenon DEF OwedInv, OwedIsInFlight
<1>3. \A c \in ProxyChans : /\ owed'[c] \subseteq 1..totalQProxyEventCount'
                            /\ owed'[c] # {} => ProxyUpdateTopic \in proxySubs'[c]
  BY <1>1 DEF OwedInv
<1> QED
  BY <1>2, <1>3, Zenon DEF OwedInv

\* A publication for one proxy starts only when no broadcast is being sent.
LEMMA PubTargetedOwed ==
  ASSUME OwedInv, PubTargeted
  PROVE  OwedInv'
<1>1. /\ proxySending.to = {} /\ UNCHANGED proxySubs /\ Sends(proxySending', ProxyChans)
      /\ UNCHANGED <<dispatcher, totalQProxyEventCount, owed>>
  BY PubSends DEF PubTargeted
<1>2. OwedIsInFlight'
  BY <1>1, Zenon DEF OwedInv, OwedIsInFlight
<1> QED
  BY <1>1, <1>2, Zenon DEF OwedInv

\* A broadcast that is handed over is held by the dispatcher.
LEMMA HandOverOwed ==
  ASSUME QueueInv, BatchInv, OwedInv, HandOver
  PROVE  OwedInv'
<1> DEFINE q == totalQProxyEventCount
<1>1. dispatcher'.batch = dispatcher.batch \cup {q} /\ q \in 1..q
  BY HandOverBatch
<1>2. /\ UNCHANGED <<proxySubs, proxySending, q>>
      /\ owed' = [c \in ProxyChans |-> IF ProxyUpdateTopic \in proxySubs[c] THEN owed[c] \cup {q} ELSE owed[c]]
  BY DEF HandOver, counters, proxyVars, ProxyPS!Subscribers
<1> HIDE DEF q
<1>3. owed' = [c \in ProxyChans |-> owed'[c]]
  BY <1>2
<1>4. ASSUME NEW c \in ProxyChans
      PROVE  owed'[c] = IF ProxyUpdateTopic \in proxySubs[c] THEN owed[c] \cup {q} ELSE owed[c]
  BY <1>2, Zenon
<1>5. ASSUME NEW c \in ProxyChans
      PROVE  /\ owed'[c] \subseteq 1..q
             /\ owed'[c] # {} => ProxyUpdateTopic \in proxySubs[c]
  BY <1>1, <1>4, Zenon DEF OwedInv, q
<1>6. OwedIsInFlight'
  BY <1>1, <1>2, <1>4, Zenon DEF OwedInv, OwedIsInFlight
<1>7. totalQProxyEventCount' = q
  BY <1>2 DEF q
<1> QED
  BY <1>2, <1>3, <1>5, <1>6, <1>7, Zenon DEF OwedInv

\* A dispatch goes to everybody who is owed an event of the batch.
LEMMA DispatchOwed ==
  ASSUME OwedInv, Dispatch
  PROVE  OwedInv'
<1> DEFINE m == [event |-> dispatcher.event, covers |-> dispatcher.batch]
<1>1. ProxyPS!Pub(m, ProxyUpdateTopic) /\ UNCHANGED <<totalQProxyEventCount, owed>>
  BY DEF Dispatch
<1>2. /\ proxySending.to = {} /\ UNCHANGED proxySubs /\ Sends(proxySending', ProxyChans)
      /\ proxySending'.to = {c \in ProxyChans : ProxyUpdateTopic \in proxySubs[c]}
      /\ proxySending'.to # {} => proxySending'.msg = m
  BY <1>1, PubSends
<1>3. m.covers = dispatcher.batch
  OBVIOUS
<1> HIDE DEF m
<1>4. OwedIsInFlight'
  <2> SUFFICES ASSUME NEW c \in ProxyChans, NEW n \in owed[c]
               PROVE  c \in proxySending'.to /\ n \in proxySending'.msg.covers
    BY <1>1 DEF OwedIsInFlight
  <2>1. n \in dispatcher.batch
    BY <1>2, Zenon DEF OwedInv, OwedIsInFlight
  <2>2. c \in proxySending'.to
    BY <1>2 DEF OwedInv
  <2> QED
    BY <1>2, <1>3, <2>1, <2>2
<1> QED
  BY <1>1, <1>2, <1>4, Zenon DEF OwedInv

\* A receiver is told of all events of the batch; the others stay in line.
LEMMA ReceiveProxyOwed ==
  ASSUME OwedInv, NEW c \in ProxyChans, ReceiveProxy(c)
  PROVE  OwedInv'
<1> DEFINE x == proxySending
<1>1. /\ c \in x.to /\ UNCHANGED <<proxySubs, dispatcher, totalQProxyEventCount>>
      /\ proxySending' = IF x.to = {c} THEN [msg |-> noMsg, to |-> {}] ELSE [x EXCEPT !.to = @ \ {c}]
      /\ owed' = [owed EXCEPT ![c] = @ \ x.msg.covers]
  BY DEF ReceiveProxy, ProxyPS!Deliver, ProxyPS!idle, counters
<1>2. x = [msg |-> x.msg, to |-> x.to] /\ x.to \subseteq ProxyChans
  BY DEF OwedInv, Sends
<1> HIDE DEF x
<1>3. Sends(proxySending', ProxyChans) /\ proxySending'.to = x.to \ {c}
      /\ (proxySending'.to # {} => proxySending'.msg = x.msg)
  <2>1. CASE x.to = {c}
    <3>1. proxySending' = [msg |-> noMsg, to |-> {}]
      BY <1>1, <2>1, Zenon
    <3> QED
      BY <2>1, <3>1 DEF Sends
  <2>2. CASE x.to # {c}
    <3>1. proxySending' = [msg |-> x.msg, to |-> x.to \ {c}]
      BY <1>1, <1>2, <2>2, Zenon
    <3> QED
      BY <1>2, <3>1 DEF Sends
  <2> QED
    BY <2>1, <2>2, Zenon
<1>4. /\ owed' = [d \in ProxyChans |-> owed'[d]] /\ owed'[c] = owed[c] \ x.msg.covers
      /\ \A d \in ProxyChans : d # c => owed'[d] = owed[d]
  BY <1>1, Zenon DEF OwedInv
<1>5. OwedIsInFlight'
  <2> SUFFICES ASSUME NEW d \in ProxyChans, NEW n \in owed'[d], n \notin dispatcher'.batch
               PROVE  d \in proxySending'.to /\ n \in proxySending'.msg.covers
    BY DEF OwedIsInFlight
  <2>1. n \in owed[d] /\ n \notin dispatcher.batch
    BY <1>1, <1>4
  <2>2. d \in x.to /\ n \in x.msg.covers
    BY <2>1, Zenon DEF OwedInv, OwedIsInFlight, x
  <2>3. d # c
    BY <1>4, <2>2
  <2> QED
    BY <1>3, <2>2, <2>3
<1>6. \A d \in ProxyChans : /\ owed'[d] \subseteq 1..totalQProxyEventCount'
                            /\ owed'[d] # {} => ProxyUpdateTopic \in proxySubs'[d]
  BY <1>1, <1>4, Zenon DEF OwedInv
<1> QED
  BY <1>1, <1>3, <1>4, <1>5, <1>6, Zenon DEF OwedInv

\* Subscribing makes nobody lose a subscription.
LEMMA SubProxyOwed ==
  ASSUME OwedInv, NEW c \in ProxyChans, NEW T, SubProxy(c, T)
  PROVE  OwedInv'
<1>1. /\ UNCHANGED <<proxySending, dispatcher, totalQProxyEventCount, owed>>
      /\ proxySubs' = [proxySubs EXCEPT ![c] = @ \cup T]
  BY DEF SubProxy, ProxyPS!Sub, counters
<1>2. /\ proxySubs' = [d \in ProxyChans |-> proxySubs'[d]]
      /\ \A d \in ProxyChans : proxySubs[d] \subseteq proxySubs'[d]
  BY <1>1 DEF OwedInv
<1>3. OwedIsInFlight'
  BY <1>1, Zenon DEF OwedInv, OwedIsInFlight
<1> QED
  BY <1>1, <1>2, <1>3, Zenon DEF OwedInv

\* Who leaves is owed nothing.
LEMMA UnsubProxyOwed ==
  ASSUME OwedInv, NEW c \in ProxyChans, UnsubProxy(c)
  PROVE  OwedInv'
<1>1. /\ UNCHANGED <<proxySending, dispatcher, totalQProxyEventCount>>
      /\ proxySubs' = [proxySubs EXCEPT ![c] = {}] /\ owed' = [owed EXCEPT ![c] = {}]
  BY DEF UnsubProxy, ProxyPS!Unsub, counters
<1>2. /\ proxySubs' = [d \in ProxyChans |-> proxySubs'[d]] /\ owed' = [d \in ProxyChans |-> owed'[d]]
      /\ owed'[c] = {} /\ \A d \in ProxyChans : d # c => proxySubs'[d] = proxySubs[d] /\ owed'[d] = owed[d]
  BY <1>1, Zenon DEF OwedInv
<1>3. OwedIsInFlight'
  BY <1>1, <1>2, Zenon DEF OwedInv, OwedIsInFlight
<1>4. \A d \in ProxyChans : /\ owed'[d] \subseteq 1..totalQProxyEventCount'
                            /\ owed'[d] # {} => ProxyUpdateTopic \in proxySubs'[d]
  BY <1>1, <1>2, Zenon DEF OwedInv
<1> QED
  BY <1>1, <1>2, <1>3, <1>4, Zenon DEF OwedInv

-----------------------------------------------------------------------------
(* The broker and its subscribers together.                                *)

ClientStates == {"start", "select", "job", "unsub", "gone"}

\* The inductive invariant.
ClientsInv ==
  /\ QueueInv
  /\ BatchInv
  /\ OwedInv
  /\ Sends(kubeSending, KubeChans)
  /\ client \in [Chans -> ClientStates]

\* The invariant says what the property says.
LEMMA ClientsSafe == ClientsInv => NothingLost
<1> SUFFICES ASSUME ClientsInv
             PROVE  NothingLost
  OBVIOUS
<1>1. ClientsTypeOK
  <2>1. processing \subseteq Msgs /\ proc.pc \in {"get", "pubProxy", "handOver", "pubKube"}
        /\ proc.msg \in Msgs \cup {noMsg}
    BY DEF ClientsInv, QueueInv
  <2> QED
    BY <2>1, Zenon DEF ClientsInv, QueueInv, BatchInv, DispatcherType, OwedInv, Sends, ClientStates, ClientsTypeOK
<1>2. DirtyIsScheduled
  <2> SUFFICES ASSUME NEW msg \in Msgs
               PROVE  LET places == {i \in DOMAIN queue : queue[i] = msg}
                      IN  /\ \A i, k \in places : i = k
                          /\ msg \in dirty => places # {} \/ proc.msg = msg
                          /\ places # {} => msg \in dirty /\ proc.msg # msg
                          /\ msg \in processing <=> msg = proc.msg
    BY DEF DirtyIsScheduled
  <2> DEFINE places == {i \in DOMAIN queue : queue[i] = msg}
  <2>1. \A i, k \in places : i = k
    BY Zenon DEF ClientsInv, QueueInv, Once
  <2>2. places # {} <=> msg \in Elems(queue)
    BY Zenon DEF Elems
  <2>3. msg # noMsg
    BY BrokerAssumption
  <2> HIDE DEF places
  <2>4. /\ msg \in dirty => places # {} \/ proc.msg = msg
        /\ places # {} => msg \in dirty /\ proc.msg # msg
        /\ msg \in processing <=> msg = proc.msg
    BY <2>2, <2>3, Zenon DEF ClientsInv, QueueInv
  <2> QED
    BY <2>1, <2>4 DEF places
<1> QED
  BY <1>1, <1>2 DEF ClientsInv, BatchInv, OwedInv, NothingLost

\* Nothing is queued or owed at the start.
LEMMA ClientsInitInv == ClientsInit => ClientsInv
<1> SUFFICES ASSUME ClientsInit
             PROVE  ClientsInv
  OBVIOUS
<1>1. queue = << >> /\ queue \in Seq(Msgs) /\ DOMAIN queue = {}
  BY DEF ClientsInit, BrokerInit
<1>2. Elems(queue) = {} /\ Once(queue)
  BY <1>1, Zenon DEF Elems, Once
<1>3. QueueInv
  BY <1>1, <1>2, BrokerAssumption DEF ClientsInit, BrokerInit, QueueInv
<1>4. dispatcher = [pc |-> "select", event |-> noMsg, batch |-> {}]
  BY DEF ClientsInit, BrokerInit
<1>5. BatchInv
  BY <1>4 DEF ClientsInit, BrokerInit, BatchInv, DispatcherType, DispatchesWithinQueued
<1>6. OwedInv
  BY DEF ClientsInit, BrokerInit, ProxyPS!Init, ProxyPS!idle, OwedInv, Sends, OwedIsInFlight
<1>7. Sends(kubeSending, KubeChans) /\ client \in [Chans -> ClientStates]
  BY DEF ClientsInit, BrokerInit, KubePS!Init, KubePS!idle, Sends, ClientStates
<1> QED
  BY <1>3, <1>5, <1>6, <1>7 DEF ClientsInv

\* A publication of a Kubernetes event goes to channels of its instance.
LEMMA KubePubSends ==
  ASSUME NEW msg, NEW topic, KubePS!Pub(msg, topic)
  PROVE  Sends(kubeSending', KubeChans)
<1> DEFINE T == KubePS!Subscribers(topic)
<1>1. kubeSending' = IF T = {} THEN [msg |-> noMsg, to |-> {}] ELSE [msg |-> msg, to |-> T]
  BY DEF KubePS!Pub, KubePS!idle
<1>2. T \subseteq KubeChans
  BY DEF KubePS!Subscribers
<1> HIDE DEF T
<1>3. CASE T = {}
  BY <1>1, <1>3 DEF Sends
<1>4. CASE T # {}
  BY <1>1, <1>2, <1>4 DEF Sends
<1> QED
  BY <1>3, <1>4, Zenon

\* And so does what is left of it after a receive.
LEMMA KubeDeliverSends ==
  ASSUME Sends(kubeSending, KubeChans), NEW c, KubePS!Deliver(c)
  PROVE  Sends(kubeSending', KubeChans)
<1>1. kubeSending' = IF kubeSending.to = {c} THEN [msg |-> noMsg, to |-> {}] ELSE [kubeSending EXCEPT !.to = @ \ {c}]
  BY DEF KubePS!Deliver, KubePS!idle
<1>2. CASE kubeSending.to = {c}
  BY <1>1, <1>2 DEF Sends
<1>3. CASE kubeSending.to # {c}
  <2>1. kubeSending' = [msg |-> kubeSending.msg, to |-> kubeSending.to \ {c}]
    BY <1>1, <1>3, Zenon DEF Sends
  <2> QED
    BY <2>1 DEF Sends
<1> QED
  BY <1>2, <1>3, Zenon

\* The broker's own steps, and those of event handlers, keep the invariant.
LEMMA BrokerKeeps ==
  ASSUME ClientsInv, UNCHANGED client, BrokerSteps \/ \E msg \in Msgs : AddRateLimited(msg)
  PROVE  ClientsInv'
<1> USE DEF ClientsInv
<1>0. client' \in [Chans -> ClientStates]
  BY Zenon DEF Chans
<1>1. ASSUME NEW msg \in Msgs, AddRateLimited(msg) \/ Add(msg)
      PROVE  ClientsInv'
  <2>1. UNCHANGED <<proc, dispatcher, counters, proxyVars, kubeVars, owed>>
    BY <1>1, Zenon DEF AddRateLimited, Add
  <2>2. QueueInv'
    BY <1>1, AddRateLimitedQueue, AddQueue, Zenon
  <2>3. UNCHANGED <<totalQProxyEventCount, totalDispatchedProxyEventCount, proxySubs, proxySending, kubeSending>>
    BY <2>1 DEF counters, proxyVars, kubeVars
  <2>4. BatchInv'
    BY <2>1, <2>3, BatchSame, Zenon
  <2>5. OwedInv'
    <3>1. totalQProxyEventCount \in Nat /\ totalQProxyEventCount' >= totalQProxyEventCount
      BY <2>3 DEF BatchInv
    <3> QED
      BY <2>1, <2>3, <3>1, OwedSame, Zenon
  <2> QED
    BY <1>0, <2>2, <2>3, <2>4, <2>5, Zenon
<1>2. CASE Get
  <2>1. UNCHANGED <<dispatcher, proxySubs, proxySending, kubeSending, owed>>
    BY <1>2 DEF Get, proxyVars, kubeVars
  <2>2. QueueInv'
    BY <1>2, GetQueue, Zenon
  <2>3. BatchInv' /\ totalQProxyEventCount' \in Nat /\ totalQProxyEventCount' >= totalQProxyEventCount
    BY <1>2, GetBatch, Zenon
  <2>4. totalQProxyEventCount \in Nat
    BY DEF BatchInv
  <2>5. OwedInv'
    BY <2>1, <2>3, <2>4, OwedSame, Zenon
  <2> QED
    BY <1>0, <2>1, <2>2, <2>3, <2>5, Zenon
<1>3. ASSUME PubTargeted \/ HandOver
      PROVE  QueueInv' /\ Sends(kubeSending', KubeChans)
  <2>1. UNCHANGED <<queueVars, kubeSending>> /\ proc' = [proc EXCEPT !.pc = "pubKube"] /\ proc.pc # "get"
    BY <1>3 DEF PubTargeted, HandOver, kubeVars
  <2>2. proc' \in [pc : {"pubKube"}, msg : {proc.msg}]
    BY <2>1 DEF QueueInv
  <2> QED
    BY <2>1, <2>2, QueueSame, Zenon
<1>4. CASE PubTargeted
  BY <1>0, <1>3, <1>4, PubTargetedBatch, PubTargetedOwed, Zenon
<1>5. CASE HandOver
  BY <1>0, <1>3, <1>5, HandOverBatch, HandOverOwed, Zenon
<1>6. CASE WindowOver
  <2>1. UNCHANGED <<queueVars, proc, totalQProxyEventCount, proxySubs, proxySending, kubeSending, owed>>
    BY <1>6 DEF WindowOver, counters, proxyVars, kubeVars
  <2>2. QueueInv'
    BY <2>1, QueueSame, Zenon
  <2>3. BatchInv' /\ dispatcher'.batch = dispatcher.batch
    BY <1>6, WindowOverBatch, Zenon
  <2>4. totalQProxyEventCount \in Nat /\ totalQProxyEventCount' >= totalQProxyEventCount
    BY <2>1 DEF BatchInv
  <2>5. OwedInv'
    BY <2>1, <2>3, <2>4, OwedSame, Zenon
  <2> QED
    BY <1>0, <2>1, <2>2, <2>3, <2>5, Zenon
<1>7. CASE Dispatch
  <2>1. UNCHANGED <<queueVars, proc, kubeSending>>
    BY <1>7 DEF Dispatch, kubeVars
  <2>2. QueueInv'
    BY <2>1, QueueSame, Zenon
  <2> QED
    BY <1>0, <1>7, <2>1, <2>2, DispatchBatch, DispatchOwed, Zenon
<1>8. CASE PubKube
  <2>1. /\ UNCHANGED <<dispatcher, totalQProxyEventCount, totalDispatchedProxyEventCount, proxySubs, proxySending, owed>>
        /\ proc'.pc = "get"
    BY <1>8 DEF PubKube, counters, proxyVars
  <2>2. QueueInv'
    BY <1>8, PubKubeQueue, Zenon
  <2>3. BatchInv'
    BY <2>1, BatchSame, Zenon
  <2>4. totalQProxyEventCount \in Nat /\ totalQProxyEventCount' >= totalQProxyEventCount
    BY <2>1 DEF BatchInv
  <2>5. OwedInv'
    BY <2>1, <2>4, OwedSame, Zenon
  <2>6. Sends(kubeSending', KubeChans)
    BY <1>8, KubePubSends, Zenon DEF PubKube
  <2> QED
    BY <1>0, <2>2, <2>3, <2>5, <2>6, Zenon
<1> QED
  BY <1>1, <1>2, <1>4, <1>5, <1>6, <1>7, <1>8, Zenon DEF BrokerSteps

\* A subscriber touches only the pub-sub instance of its channel.
LEMMA ClientKeeps ==
  ASSUME ClientsInv, NEW c \in Chans, ClientNext(c)
  PROVE  ClientsInv'
<1> USE DEF ClientsInv
<1>1. /\ UNCHANGED <<queueVars, proc, dispatcher, counters>>
      /\ \/ UNCHANGED <<proxyVars, owed>> \/ ReceiveProxy(c) \/ UnsubProxy(c) \/ \E T : SubProxy(c, T)
      /\ \/ UNCHANGED kubeSending \/ KubePS!Deliver(c)
      /\ c \notin ProxyChans => UNCHANGED <<proxyVars, owed>>
  <2>1. CASE Subscribe(c)
    BY <2>1, Zenon DEF Subscribe, SubProxy, SubKube, KubePS!Sub, kubeVars
  <2>2. CASE Receive(c) \/ Drain(c)
    BY <2>2, Zenon DEF Receive, Drain, ReceiveProxy, ReceiveKube, kubeVars
  <2>3. CASE Unsubscribed(c)
    BY <2>3, Zenon DEF Unsubscribed, UnsubProxy, UnsubKube, KubePS!Unsub, kubeVars
  <2>4. CASE JobDone(c) \/ Quit(c)
    BY <2>4, Zenon DEF JobDone, Quit, brokerVars, kubeVars
  <2> QED
    BY <2>1, <2>2, <2>3, <2>4, Zenon DEF ClientNext
<1>2. client' \in [Chans -> ClientStates]
  <2>1. client' = client \/ \E st \in ClientStates : client' = [client EXCEPT ![c] = st]
    BY Zenon DEF ClientNext, Subscribe, Receive, JobDone, Quit, Drain, Unsubscribed, Goto, ClientStates
  <2> QED
    BY <2>1
<1>3. UNCHANGED <<totalQProxyEventCount, totalDispatchedProxyEventCount>>
  BY <1>1 DEF counters
<1>4. QueueInv' /\ BatchInv'
  BY <1>1, <1>3, QueueSame, BatchSame, Zenon
<1>5. OwedInv'
  <2>1. CASE UNCHANGED <<proxyVars, owed>>
    <3>1. totalQProxyEventCount \in Nat /\ totalQProxyEventCount' >= totalQProxyEventCount
          /\ UNCHANGED <<proxySubs, proxySending, owed>>
      BY <1>3, <2>1 DEF BatchInv, proxyVars
    <3> QED
      BY <1>1, <1>3, <3>1, OwedSame, Zenon
  <2>2. CASE c \in ProxyChans /\ (ReceiveProxy(c) \/ UnsubProxy(c) \/ \E T : SubProxy(c, T))
    BY <2>2, ReceiveProxyOwed, UnsubProxyOwed, SubProxyOwed, Zenon
  <2> QED
    BY <1>1, <2>1, <2>2, Zenon
<1>6. Sends(kubeSending', KubeChans)
  BY <1>1, KubeDeliverSends, Zenon
<1> QED
  BY <1>2, <1>4, <1>5, <1>6, Zenon DEF Chans

\* Whatever subscribers do, the workqueue drops no message, the dispatcher and
\* the rendezvous of proxyUpdatePubSub no broadcast, and the metrics count every
\* event before its dispatch: for any number of messages and subscribers.
THEOREM NothingIsLost == ClientsSpec => []NothingLost
<1>1. ClientsInit => ClientsInv
  BY ClientsInitInv
<1>2. ClientsInv /\ [ClientsNext]_clientVars => ClientsInv'
  <2> SUFFICES ASSUME ClientsInv, [ClientsNext]_clientVars
               PROVE  ClientsInv'
    OBVIOUS
  <2>1. CASE UNCHANGED clientVars
    <3>1. UNCHANGED <<adds, waiting, queue, dirty, processing, proc, dispatcher, totalQProxyEventCount,
                      totalDispatchedProxyEventCount, proxySubs, proxySending, kubeSending, owed, client>>
      BY <2>1, Zenon DEF clientVars, brokerVars, queueVars, counters, proxyVars, kubeVars
    <3>2. totalQProxyEventCount \in Nat /\ totalQProxyEventCount' >= totalQProxyEventCount
      BY <3>1 DEF ClientsInv, BatchInv
    <3>3. QueueInv' /\ BatchInv' /\ OwedInv'
      BY <3>1, <3>2, QueueSame, BatchSame, OwedSame, Zenon DEF ClientsInv, queueVars
    <3> QED
      BY <3>1, <3>3, Zenon DEF ClientsInv
  <2> QED
    BY <2>1, BrokerKeeps, ClientKeeps, Zenon DEF ClientsNext
<1>3. ClientsInv => NothingLost
  BY ClientsSafe
<1> QED
  BY <1>1, <1>2, <1>3, PTL DEF ClientsSpec

-----------------------------------------------------------------------------
(* The bridge.                                                             *)

\* A host name that the kernel does not resolve is on its way there.
OnItsWay ==
  \/ hosts \subseteq resdb
  \/ pc \in {"start", "down", "getEndpoints", "updateEndpoints", "getPolicy"}
  \/ news > 0 \/ slidingTimer.running \/ slidingTimer.c
  \/ pc = "resolves" /\ hosts \ resdb \subseteq todo
  \/ pc = "done" /\ reconfirm
  \/ faults > 0

\* What the types rest on: a broadcast stands for a change, and the job visits
\* endpoints only with the service at hand.
Counted ==
  /\ changes \in 0..MaxChanges /\ news <= changes
  /\ faults \in Nat
  /\ pc = "updateEndpoints" /\ todo # {} => svcRead # none

\* Besides the property: a process that is down has forgotten its maps.
SyncInv ==
  /\ TypeOK /\ Counted
  /\ MemoryWithinKernel /\ (pc = "down" => dnsResolves = {})
  /\ OnItsWay

\* A process that ends leaves nothing half done.
LEMMA DiesKeeps ==
  ASSUME SyncInv, Dies, UNCHANGED <<cluster, faults>>, resdb' \in {resdb, {}}, endptMap' \in {endptMap, NoEntry}
  PROVE  SyncInv'
<1>1. UNCHANGED <<svc, endpts, hosts, announced, changes>>
  BY DEF cluster
<1>2. TypeOK'
  BY <1>1, ChangesAssumption DEF SyncInv, TypeOK, Counted, Dies, NoEntry
<1>3. Counted'
  BY <1>1 DEF SyncInv, Counted, Dies
<1> QED
  BY <1>1, <1>2, <1>3 DEF SyncInv, MemoryWithinKernel, OnItsWay, Dies

\* A change of the policies or the endpoints is broadcast to a listener that is there.
LEMMA ChangeKeeps ==
  ASSUME SyncInv, ClusterSteps
  PROVE  SyncInv'
<1>1. /\ UNCHANGED <<pc, slidingTimer, reconfirm, svcRead, latest, todo, dnsEndpoints, dnsResolves, endptMap, resdb, faults>>
      /\ changes < MaxChanges /\ changes' = changes + 1
  BY DEF ClusterSteps, EndpointsChange, PolicyChange, ServiceChange, OneMore, timing, job, memory, kernel
<1>2. svc' \in CIPs \cup {none} /\ endpts' \in (SUBSET EIPs) \cup {{none}} /\ hosts' \subseteq Hosts /\ announced' \in BOOLEAN
  BY Zenon DEF ClusterSteps, EndpointsChange, PolicyChange, ServiceChange, Broadcast, SyncInv, TypeOK
<1>3. /\ news' \in {news, news + 1}
      /\ (hosts' = hosts /\ news' = news) \/ pc \in {"start", "down"} \/ news' = news + 1
  BY DEF ClusterSteps, EndpointsChange, PolicyChange, ServiceChange, Broadcast
<1>4. Counted' /\ news' \in 0..MaxChanges
  BY <1>1, <1>3, ChangesAssumption DEF SyncInv, Counted, TypeOK
<1>5. TypeOK'
  BY <1>1, <1>2, <1>4 DEF SyncInv, TypeOK
<1>6. news \in Nat
  BY DEF SyncInv, TypeOK
<1>7. OnItsWay'
  BY <1>1, <1>3, <1>6 DEF SyncInv, OnItsWay
<1> QED
  BY <1>1, <1>4, <1>5, <1>7 DEF SyncInv, MemoryWithinKernel

\* The timer and the listener pass on what has been broadcast.
LEMMA ListenerKeeps ==
  ASSUME SyncInv, ListenerSteps \/ TimerFires
  PROVE  SyncInv'
<1>1. UNCHANGED <<svc, endpts, hosts, announced, changes, latest, todo, dnsEndpoints, dnsResolves, endptMap, resdb, faults>>
  BY DEF ListenerSteps, ListenerStart, ListenerUpdate, ListenerFires, ListenerGoesOn, TimerFires,
         cluster, job, memory, kernel
<1>2. /\ slidingTimer' \in [running : BOOLEAN, c : BOOLEAN] /\ reconfirm' \in BOOLEAN
      /\ pc' \in {"start", "select", "getEndpoints", "updateEndpoints", "getPolicy", "resolves", "done", "down"}
      /\ svcRead' \in CIPs \cup {none}
  <2>1. slidingTimer' \in [running : BOOLEAN, c : BOOLEAN]
    <3>1. \/ UNCHANGED slidingTimer
          \/ \E b \in BOOLEAN : \/ slidingTimer' = [slidingTimer EXCEPT !.running = b]
                               \/ slidingTimer' = [slidingTimer EXCEPT !.c = b]
          \/ slidingTimer' = [running |-> FALSE, c |-> TRUE]
      BY Zenon DEF ListenerSteps, ListenerStart, ListenerUpdate, ListenerFires, ListenerGoesOn, TimerFires, Reset, timing
    <3>2. slidingTimer \in [running : BOOLEAN, c : BOOLEAN]
      BY DEF SyncInv, TypeOK
    <3>3. ASSUME NEW b \in BOOLEAN
          PROVE  /\ [slidingTimer EXCEPT !.running = b] \in [running : BOOLEAN, c : BOOLEAN]
                 /\ [slidingTimer EXCEPT !.c = b] \in [running : BOOLEAN, c : BOOLEAN]
      BY <3>2, Zenon
    <3>4. [running |-> FALSE, c |-> TRUE] \in [running : BOOLEAN, c : BOOLEAN]
      BY Zenon
    <3> QED
      BY <3>1, <3>2, <3>3, <3>4, Zenon
  <2>2. reconfirm' \in {reconfirm, TRUE, FALSE} /\ pc' \in {pc, "select", "getEndpoints"} /\ svcRead' \in {svcRead, svc}
    BY Zenon DEF ListenerSteps, ListenerStart, ListenerUpdate, ListenerFires, ListenerGoesOn, TimerFires, timing, job
  <2>3. /\ reconfirm \in BOOLEAN /\ svcRead \in CIPs \cup {none} /\ svc \in CIPs \cup {none}
        /\ pc \in {"start", "select", "getEndpoints", "updateEndpoints", "getPolicy", "resolves", "done", "down"}
    BY Zenon DEF SyncInv, TypeOK
  <2> QED
    BY <2>1, <2>2, <2>3, Zenon
<1>3. news' \in Nat /\ news' <= news
  BY DEF ListenerSteps, ListenerStart, ListenerUpdate, ListenerFires, ListenerGoesOn, TimerFires, SyncInv, TypeOK
<1>4. news' \in 0..MaxChanges /\ news' <= changes'
  BY <1>1, <1>3, ChangesAssumption DEF SyncInv, TypeOK, Counted
<1>5. TypeOK'
  BY <1>1, <1>2, <1>4 DEF SyncInv, TypeOK
<1>6. /\ pc' = "updateEndpoints" => pc = "updateEndpoints" /\ svcRead' = svcRead
      /\ pc' = "down" => pc = "down"
  BY DEF ListenerSteps, ListenerStart, ListenerUpdate, ListenerFires, ListenerGoesOn, TimerFires, job
<1>7. Counted'
  BY <1>1, <1>4, <1>6 DEF SyncInv, Counted
<1>8. OnItsWay'
  <2>1. CASE TimerFires \/ ListenerStart \/ ListenerUpdate
    <3>1. slidingTimer'.running \/ slidingTimer'.c
      BY <2>1 DEF TimerFires, ListenerStart, ListenerUpdate, Reset, SyncInv, TypeOK
    <3> QED
      BY <3>1, Zenon DEF OnItsWay
  <2>2. CASE ListenerFires
    BY <2>2 DEF ListenerFires, OnItsWay
  <2>3. CASE ListenerGoesOn
    <3>1. /\ pc = "done" /\ UNCHANGED <<news, faults, hosts, resdb>>
          /\ slidingTimer'.running \/ (~reconfirm /\ UNCHANGED slidingTimer)
      BY <1>1, <2>3 DEF ListenerGoesOn, Reset, timing, SyncInv, TypeOK
    <3> QED
      BY <3>1 DEF SyncInv, OnItsWay
  <2> QED
    BY <2>1, <2>2, <2>3, Zenon DEF ListenerSteps
<1> QED
  BY <1>1, <1>5, <1>6, <1>7, <1>8 DEF SyncInv, MemoryWithinKernel

\* What the job leaves alone.
JobFrame ==
  UNCHANGED <<svc, endpts, hosts, announced, changes, news, slidingTimer, reconfirm, svcRead>>

\* A map from DNS pods to cluster IPs.
Addresses(f) == DOMAIN f \subseteq EIPs /\ \A e \in DOMAIN f : f[e] \in CIPs

\* An entry more, or some less.
LEMMA AddressesKept ==
  ASSUME NEW f, Addresses(f)
  PROVE  /\ \A e \in EIPs, a \in CIPs : Addresses(Put(f, e, a))
         /\ \A S : Addresses(Without(f, S))
<1>1. ASSUME NEW e \in EIPs, NEW a \in CIPs
      PROVE  Addresses(Put(f, e, a))
  BY DEF Addresses, Put
<1>2. ASSUME NEW S
      PROVE  Addresses(Without(f, S))
  BY DEF Addresses, Without
<1> QED
  BY <1>1, <1>2, Zenon

\* A step of the job that changes the types of nothing but what it works on.
LEMMA JobTypes ==
  ASSUME SyncInv, JobFrame,
         pc' \in {"updateEndpoints", "getPolicy", "resolves", "done"},
         todo' \subseteq latest', latest' \subseteq Hosts \cup EIPs,
         dnsResolves' \subseteq Hosts, resdb' \subseteq Hosts,
         Addresses(dnsEndpoints'), Addresses(endptMap'), faults' \in Nat,
         pc' = "updateEndpoints" /\ todo' # {} => svcRead # none
  PROVE  TypeOK' /\ Counted'
<1>1. UNCHANGED <<svc, endpts, hosts, announced, changes, news, slidingTimer, reconfirm, svcRead>>
  BY DEF JobFrame
<1>2. \A f \in {dnsEndpoints', endptMap'} : DOMAIN f \subseteq EIPs /\ \A e \in DOMAIN f : f[e] \in CIPs
  BY Zenon DEF Addresses
<1>3. pc' \in {"start", "select", "getEndpoints", "updateEndpoints", "getPolicy", "resolves", "done", "down"}
  OBVIOUS
<1>4. TypeOK'
  BY <1>1, <1>2, <1>3, Zenon DEF SyncInv, TypeOK
<1>5. Counted'
  BY <1>1, Zenon DEF SyncInv, Counted
<1> QED
  BY <1>4, <1>5

\* The endpoints, up to the reading of the policies.
LEMMA EndpointsKeep ==
  ASSUME SyncInv, GetEndpoints \/ DeleteEndpoints \/ \E e \in EIPs, failed \in BOOLEAN : UpdateEndpoint(e, failed)
  PROVE  SyncInv'
<1>0. /\ Addresses(dnsEndpoints) /\ Addresses(endptMap) /\ dnsResolves \subseteq Hosts /\ resdb \subseteq Hosts
      /\ todo \subseteq latest /\ latest \subseteq Hosts \cup EIPs /\ faults \in Nat
  BY Zenon DEF SyncInv, TypeOK, Counted, Addresses
<1>1. ASSUME TypeOK', Counted', UNCHANGED <<hosts, dnsResolves, resdb>>, faults' >= faults,
             pc' \in {"updateEndpoints", "getPolicy"}
      PROVE  SyncInv'
  <2>1. OnItsWay' /\ pc' # "down"
    BY <1>1 DEF OnItsWay
  <2>2. MemoryWithinKernel'
    BY <1>0, <1>1 DEF SyncInv, MemoryWithinKernel
  <2> QED
    BY <1>1, <2>1, <2>2 DEF SyncInv
<1>2. CASE GetEndpoints
  <2>1. CASE endpts = {none} \/ (endpts # {} /\ svcRead = none)
    <3>1. Dies /\ UNCHANGED <<cluster, faults>> /\ UNCHANGED <<endptMap, resdb>>
      BY <1>2, <2>1 DEF GetEndpoints, kernel
    <3> QED
      BY <3>1, DiesKeeps
  <2>2. CASE ~(endpts = {none} \/ (endpts # {} /\ svcRead = none))
    <3>1. /\ pc' = "updateEndpoints" /\ latest' = endpts /\ todo' = endpts /\ JobFrame
          /\ UNCHANGED <<dnsEndpoints, dnsResolves, endptMap, resdb, faults>>
      BY <1>2, <2>2 DEF GetEndpoints, JobFrame, cluster, timing, memory, kernel
    <3>2. endpts \subseteq EIPs /\ (endpts # {} => svcRead # none)
      <4>1. endpts \in (SUBSET EIPs) \cup {{none}}
        BY Zenon DEF SyncInv, TypeOK
      <4>2. endpts # {none} /\ (endpts # {} => svcRead # none)
        BY <2>2, Zenon
      <4> QED
        BY <4>1, <4>2
    <3>3. TypeOK' /\ Counted'
      BY <1>0, <3>1, <3>2, JobTypes
    <3> QED
      BY <1>0, <1>1, <3>1, <3>3 DEF JobFrame
  <2> QED
    BY <2>1, <2>2
<1>3. CASE DeleteEndpoints
  <2> DEFINE gone == DOMAIN dnsEndpoints \ latest
  <2>1. /\ pc' = "getPolicy" /\ JobFrame /\ UNCHANGED <<latest, todo, dnsResolves, resdb, faults>>
        /\ dnsEndpoints' = Without(dnsEndpoints, gone) /\ endptMap' = Without(endptMap, gone)
    BY <1>3 DEF DeleteEndpoints, JobFrame, cluster, timing, job
  <2> HIDE DEF gone
  <2>2. Addresses(dnsEndpoints') /\ Addresses(endptMap')
    BY <1>0, <2>1, AddressesKept, Zenon
  <2>3. TypeOK' /\ Counted'
    BY <1>0, <2>1, <2>2, JobTypes
  <2> QED
    BY <1>0, <1>1, <2>1, <2>3 DEF JobFrame
<1>4. ASSUME NEW e \in EIPs, NEW failed \in BOOLEAN, UpdateEndpoint(e, failed)
      PROVE  SyncInv'
  <2>1. /\ pc = "updateEndpoints" /\ e \in todo /\ todo' = todo \ {e} /\ JobFrame
        /\ UNCHANGED <<pc, latest, dnsResolves, resdb>>
    BY <1>4 DEF UpdateEndpoint, JobFrame, cluster, timing
  <2>2. dnsEndpoints' \in {dnsEndpoints, Put(dnsEndpoints, e, svcRead)} /\ endptMap' \in {endptMap, Put(endptMap, e, svcRead)}
    BY <1>4, Zenon DEF UpdateEndpoint
  <2>3. svcRead \in CIPs
    BY <2>1 DEF SyncInv, TypeOK, Counted
  <2>4. Addresses(dnsEndpoints') /\ Addresses(endptMap')
    BY <1>0, <2>2, <2>3, AddressesKept, Zenon
  <2>5. faults' \in Nat /\ faults' >= faults
    BY <1>0, <1>4 DEF UpdateEndpoint, Fails
  <2>6. svcRead # none
    BY <2>1 DEF SyncInv, Counted
  <2>7. TypeOK' /\ Counted'
    BY <1>0, <2>1, <2>4, <2>5, <2>6, JobTypes
  <2> QED
    BY <1>1, <2>1, <2>5, <2>7, Zenon DEF JobFrame
<1> QED
  BY <1>2, <1>3, <1>4

\* The host names: a name is taken off the list once the kernel has it, or
\* its update has failed.
LEMMA ResolvesKeep ==
  ASSUME SyncInv,
         \/ GetPolicy \/ ResolvesDone
         \/ \E h \in Hosts, failed \in BOOLEAN : AddResolve(h, failed)
         \/ \E h \in Hosts : DeleteResolve(h)
  PROVE  SyncInv'
<1>0. /\ Addresses(dnsEndpoints) /\ Addresses(endptMap) /\ dnsResolves \subseteq Hosts /\ resdb \subseteq Hosts
      /\ todo \subseteq latest /\ latest \subseteq Hosts \cup EIPs /\ faults \in Nat /\ hosts \subseteq Hosts
  BY Zenon DEF SyncInv, TypeOK, Counted, Addresses
<1>1. JobFrame /\ UNCHANGED <<dnsEndpoints, endptMap>> /\ pc \in {"getPolicy", "resolves"} /\ pc' \in {"resolves", "done"}
  BY Zenon DEF GetPolicy, ResolvesDone, AddResolve, DeleteResolve, JobFrame, cluster, timing, job, memory, kernel
<1>2. CASE GetPolicy
  <2>1. /\ UNCHANGED <<dnsResolves, resdb, faults>>
        /\ \/ hosts = {} /\ UNCHANGED <<latest, todo>>
           \/ pc' = "resolves" /\ latest' = hosts /\ todo' = hosts
    BY <1>2, Zenon DEF GetPolicy, memory, kernel
  <2>2. todo' \subseteq latest' /\ latest' \subseteq Hosts \cup EIPs
    BY <1>0, <2>1, Zenon
  <2>3. TypeOK' /\ Counted'
    BY <1>0, <1>1, <2>1, <2>2, JobTypes
  <2>4. OnItsWay' /\ MemoryWithinKernel' /\ pc' # "down"
    BY <1>1, <2>1 DEF SyncInv, OnItsWay, MemoryWithinKernel, JobFrame
  <2> QED
    BY <2>3, <2>4 DEF SyncInv
<1>3. ASSUME NEW h \in Hosts, NEW failed \in BOOLEAN, AddResolve(h, failed)
      PROVE  SyncInv'
  <2>1. /\ pc = "resolves" /\ pc' = "resolves" /\ latest' = latest /\ todo' = todo \ {h}
        /\ dnsResolves' = dnsResolves \cup {h}
        /\ resdb' = (IF failed \/ h \in dnsResolves THEN resdb ELSE resdb \cup {h})
        /\ IF failed THEN faults' = faults + 1 ELSE faults' = faults
    BY <1>3, Zenon DEF AddResolve, Fails, PackDomainName
  <2>2. dnsResolves' \subseteq Hosts /\ resdb' \subseteq Hosts /\ todo' \subseteq latest' /\ resdb \subseteq resdb'
    BY <1>0, <2>1
  <2>3. faults' \in Nat /\ (failed => faults' > 0) /\ (faults > 0 => faults' > 0)
    BY <1>0, <2>1
  <2>4. TypeOK' /\ Counted'
    BY <1>0, <1>1, <2>1, <2>2, <2>3, JobTypes
  <2>5. faults' > 0 \/ (faults' = 0 /\ faults = 0 /\ ~failed)
    BY <1>0, <2>1, <2>3
  <2>6. CASE faults' > 0
    <3>1. OnItsWay' /\ MemoryWithinKernel' /\ pc' # "down"
      BY <2>1, <2>6 DEF OnItsWay, MemoryWithinKernel
    <3> QED
      BY <2>4, <3>1 DEF SyncInv
  <2>7. CASE faults' = 0 /\ faults = 0 /\ ~failed
    <3>1. dnsResolves \subseteq resdb
      BY <2>7 DEF SyncInv, MemoryWithinKernel
    <3>2. h \in resdb' /\ dnsResolves' \subseteq resdb'
      BY <2>1, <2>2, <2>7, <3>1
    <3>3. UNCHANGED <<hosts, news, slidingTimer>>
      BY <1>1 DEF JobFrame
    <3>4. hosts \subseteq resdb \/ news > 0 \/ slidingTimer.running \/ slidingTimer.c \/ hosts \ resdb \subseteq todo
      BY <2>1, <2>7 DEF SyncInv, OnItsWay
    <3>5. hosts \ resdb \subseteq todo => hosts \ resdb' \subseteq todo \ {h}
      BY <2>2, <3>2, Zenon
    <3>6. OnItsWay'
      BY <2>1, <2>2, <3>3, <3>4, <3>5, Zenon DEF OnItsWay
    <3>7. MemoryWithinKernel' /\ pc' # "down"
      BY <2>1, <3>2 DEF MemoryWithinKernel
    <3> QED
      BY <2>4, <3>6, <3>7, Zenon DEF SyncInv
  <2> QED
    BY <2>5, <2>6, <2>7, Zenon
<1>4. ASSUME NEW h \in Hosts, DeleteResolve(h)
      PROVE  SyncInv'
  <2>1. /\ pc = "resolves" /\ pc' = "resolves" /\ UNCHANGED <<latest, todo, faults>>
        /\ dnsResolves' = dnsResolves \ {h} /\ resdb' = resdb
    BY <1>4 DEF DeleteResolve, PackDomainName, job
  <2>2. TypeOK' /\ Counted'
    BY <1>0, <1>1, <2>1, JobTypes
  <2>3. MemoryWithinKernel' /\ pc' # "down"
    BY <2>1 DEF SyncInv, MemoryWithinKernel
  <2>4. OnItsWay'
    BY <1>1, <2>1, Zenon DEF SyncInv, OnItsWay, JobFrame
  <2> QED
    BY <2>2, <2>3, <2>4, Zenon DEF SyncInv
<1>5. CASE ResolvesDone
  <2>1. pc = "resolves" /\ pc' = "done" /\ todo = {} /\ UNCHANGED <<latest, todo, dnsResolves, resdb, faults>>
    BY <1>5 DEF ResolvesDone, job, memory, kernel
  <2>2. TypeOK' /\ Counted'
    BY <1>0, <1>1, <2>1, JobTypes
  <2>3. MemoryWithinKernel' /\ pc' # "down"
    BY <2>1 DEF SyncInv, MemoryWithinKernel
  <2>4. UNCHANGED <<hosts, news, slidingTimer>>
    BY <1>1 DEF JobFrame
  <2>5. hosts \subseteq resdb \/ news > 0 \/ slidingTimer.running \/ slidingTimer.c \/ faults > 0
    BY <2>1 DEF SyncInv, OnItsWay
  <2>6. OnItsWay'
    BY <2>1, <2>4, <2>5, Zenon DEF OnItsWay
  <2> QED
    BY <2>2, <2>3, <2>6, Zenon DEF SyncInv
<1> QED
  BY <1>2, <1>3, <1>4, <1>5, Zenon

\* A restart keeps the pinned maps or makes new ones, and starts afresh.
LEMMA RestartKeeps ==
  ASSUME SyncInv, NEW pinned \in BOOLEAN, Restart(pinned)
  PROVE  SyncInv'
<1>1. /\ pc = "down" /\ pc' = "start" /\ resdb' \in {resdb, {}} /\ endptMap' \in {endptMap, NoEntry}
      /\ UNCHANGED <<svc, endpts, hosts, announced, changes, news, slidingTimer, reconfirm, svcRead, latest, todo,
                     dnsEndpoints, dnsResolves, faults>>
  BY DEF Restart, cluster, timing, job, memory, kernel
<1>2. TypeOK'
  BY <1>1 DEF SyncInv, TypeOK, NoEntry
<1>3. Counted'
  BY <1>1 DEF SyncInv, Counted
<1> QED
  BY <1>1, <1>2, <1>3 DEF SyncInv, MemoryWithinKernel, OnItsWay

\* A host name of the policies that a node does not resolve is on its way to
\* the kernel's map, whatever changes, crashes and restarts came before: for
\* any number of them, of host names and of DNS pods.
THEOREM NoNameForgotten == Spec => []MissingIsScheduled
<1>1. Init => SyncInv
  <2> SUFFICES ASSUME Init
               PROVE  SyncInv
    OBVIOUS
  <2>1. TypeOK
    <3>1. slidingTimer \in [running : BOOLEAN, c : BOOLEAN] /\ announced \in BOOLEAN /\ reconfirm \in BOOLEAN
      BY Zenon DEF Init
    <3>2. news \in 0..MaxChanges /\ DOMAIN NoEntry = {}
      BY ChangesAssumption DEF Init, NoEntry
    <3> QED
      BY <3>1, <3>2 DEF Init, TypeOK
  <2>2. Counted
    BY ChangesAssumption DEF Init, Counted
  <2>3. MemoryWithinKernel /\ pc = "start" /\ OnItsWay
    BY Zenon DEF Init, MemoryWithinKernel, OnItsWay
  <2> QED
    BY <2>1, <2>2, <2>3, Zenon DEF SyncInv
<1>2. SyncInv /\ [Next]_vars => SyncInv'
  <2> SUFFICES ASSUME SyncInv, [Next]_vars
               PROVE  SyncInv'
    OBVIOUS
  <2>1. CASE UNCHANGED vars
    <3>1. UNCHANGED <<svc, endpts, hosts, announced, changes, news, pc, slidingTimer, reconfirm, svcRead, latest, todo,
                      dnsEndpoints, dnsResolves, endptMap, resdb, faults>>
      BY <2>1, Zenon DEF vars, cluster, timing, job, memory, kernel
    <3>2. TypeOK' = TypeOK /\ Counted' = Counted
      BY <3>1 DEF TypeOK, Counted
    <3>3. MemoryWithinKernel' = MemoryWithinKernel /\ OnItsWay' = OnItsWay
      BY <3>1 DEF MemoryWithinKernel, OnItsWay
    <3> QED
      BY <3>1, <3>2, <3>3 DEF SyncInv
  <2>2. CASE Crash
    BY <2>2, DiesKeeps, Zenon DEF Crash, kernel
  <2>3. CASE Stop
    <3>1. Dies /\ UNCHANGED <<cluster, faults>> /\ resdb' = {} /\ endptMap' = NoEntry
      BY <2>3 DEF Stop, UnLoadProgs
    <3> QED
      BY <3>1, DiesKeeps, Zenon
  <2>4. CASE JobSteps
    BY <2>4, EndpointsKeep, ResolvesKeep, Zenon DEF JobSteps
  <2> QED
    BY <2>1, <2>2, <2>3, <2>4, ChangeKeeps, ListenerKeeps, RestartKeeps, Zenon DEF Next
<1>3. SyncInv => MissingIsScheduled
  BY DEF SyncInv, OnItsWay, MissingIsScheduled
<1> QED
  BY <1>1, <1>2, <1>3, PTL DEF Spec
=============================================================================
