--------------------------- MODULE ComponentsProofs ---------------------------
(* What the programs and the commands keep of what the pods work with, for any  *)
(* number of namespaces, pods, operators, commands, faults and edits: first the *)
(* EcnetConfig that a user wrote, then what a program that serves has found.    *)
EXTENDS Cli, TLAPS

\* A bootstrap pod that is about to write and still has the latest version.
Writes(p) == pod[p].pc = "updateConfig" /\ pod[p].fresh

ConfigType ==
  /\ edits \in Nat
  /\ config = [ns \in Namespaces |-> config[ns]]
  /\ \A ns \in Namespaces : config[ns] # absent => config[ns].value \in Nat /\ config[ns].value <= edits

IsPod(r) == r = [pc |-> r.pc, cur |-> r.cur, todo |-> r.todo, found |-> r.found, fresh |-> r.fresh]

PodType == pod = [p \in Pods |-> pod[p]] /\ \A p \in Pods : IsPod(pod[p])

\* What it is about to write is what is there.
ReadIsCurrent ==
  \A p \in Pods : Writes(p) => /\ pod[p].cur = NsOf[p]
                               /\ config[NsOf[p]] # absent /\ pod[p].found = config[NsOf[p]]

ConfigInv == ConfigType /\ PodType /\ ReadIsCurrent

\* Nobody has begun to write that had not before.
NoNewWriter ==
  \A p \in Pods : Writes(p)' => Writes(p) /\ pod'[p].cur = pod[p].cur /\ pod'[p].found = pod[p].found

\* What a step may do to the EcnetConfigs.
KeepsUser == \A ns \in Namespaces : config[ns] # absent => config'[ns] = absent \/ config'[ns].value >= config[ns].value

\* Nothing is read or written.
LEMMA SameConfig ==
  ASSUME ConfigInv, UNCHANGED <<config, edits>>, PodType', NoNewWriter PROVE ConfigInv' /\ KeepsUser
<1>1. ConfigType'
  BY DEF ConfigInv, ConfigType
<1>2. ReadIsCurrent'
  BY DEF ConfigInv, ReadIsCurrent, NoNewWriter
<1>3. KeepsUser
  BY DEF ConfigInv, ConfigType, KeepsUser
<1> QED
  BY <1>1, <1>2, <1>3 DEF ConfigInv

\* One pod goes on, to something else than writing.
LEMMA OnePod ==
  ASSUME PodType, NEW p \in Pods, NEW r, IsPod(r), r.pc # "updateConfig", pod' = [pod EXCEPT ![p] = r]
  PROVE  PodType' /\ NoNewWriter
<1>1. pod' = [q \in Pods |-> pod'[q]] /\ pod'[p] = r /\ \A q \in Pods : q # p => pod'[q] = pod[q]
  BY DEF PodType
<1>2. PodType'
  BY <1>1 DEF PodType, IsPod
<1>3. NoNewWriter
  BY <1>1 DEF NoNewWriter, Writes
<1> QED
  BY <1>2, <1>3

\* Moved, to something else than writing.
LEMMA MovedPod ==
  ASSUME PodType, NEW p \in Pods, NEW pc, pc # "updateConfig", pod' = Moved(p, pc)
  PROVE  PodType' /\ NoNewWriter
<1> DEFINE r == [pc |-> pc, cur |-> pod[p].cur, todo |-> pod[p].todo, found |-> pod[p].found, fresh |-> pod[p].fresh]
<1>1. pod' = [pod EXCEPT ![p] = [pod[p] EXCEPT !.pc = pc]]
  BY DEF Moved, PodType
<1>2. [pod[p] EXCEPT !.pc = pc] = r
  BY DEF PodType, IsPod
<1>3. pod' = [pod EXCEPT ![p] = r] /\ IsPod(r)
  BY <1>1, <1>2, Zenon DEF IsPod
<1> QED
  BY <1>3, OnePod, Zenon

\* A container starts again.
LEMMA FatalPod ==
  ASSUME PodType, NEW p \in Pods, Fatal(p) PROVE PodType' /\ NoNewWriter
<1>1. IsPod(Started(p)) /\ Started(p).pc # "updateConfig"
  BY Zenon DEF Started, BootstrapMain, ServerMain, Off, IsPod
<1> QED
  BY <1>1, OnePod, Zenon DEF Fatal

\* Some objects are written: what was read of them is stale.
LEMMA StalePods ==
  ASSUME PodType, NEW objs,
         pod' = [q \in Pods |-> [pod[q] EXCEPT !.fresh = @ /\ pod[q].cur \notin objs]]
  PROVE  PodType' /\ NoNewWriter /\ \A q \in Pods : Writes(q)' => pod[q].cur \notin objs
<1>1. ASSUME NEW q \in Pods
      PROVE  /\ pod'[q] = [pc |-> pod[q].pc, cur |-> pod[q].cur, todo |-> pod[q].todo, found |-> pod[q].found,
                           fresh |-> pod[q].fresh /\ pod[q].cur \notin objs]
  BY DEF PodType, IsPod
<1>2. ASSUME NEW q \in Pods
      PROVE  /\ pod'[q].pc = pod[q].pc /\ pod'[q].cur = pod[q].cur /\ pod'[q].found = pod[q].found
             /\ pod'[q].fresh = (pod[q].fresh /\ pod[q].cur \notin objs)
  <2>1. PICK fresh : fresh = (pod[q].fresh /\ pod[q].cur \notin objs)
    OBVIOUS
  <2>2. pod'[q] = [pc |-> pod[q].pc, cur |-> pod[q].cur, todo |-> pod[q].todo, found |-> pod[q].found, fresh |-> fresh]
    BY <1>1, <2>1, Zenon
  <2>3. pod'[q].pc = pod[q].pc /\ pod'[q].cur = pod[q].cur /\ pod'[q].found = pod[q].found /\ pod'[q].fresh = fresh
    BY <2>2
  <2> QED
    BY <2>1, <2>3, Zenon
<1>3. PodType'
  BY <1>1 DEF PodType, IsPod
<1>4. NoNewWriter /\ \A q \in Pods : Writes(q)' => pod[q].cur \notin objs
  BY <1>2, Zenon DEF NoNewWriter, Writes
<1> QED
  BY <1>3, <1>4

\* What Written makes of the pods.
Staled(w, obj) ==
  /\ w = [q \in Pods |-> w[q]]
  /\ \A q \in Pods : /\ IsPod(w[q]) /\ w[q].pc = pod[q].pc /\ w[q].cur = pod[q].cur
                     /\ w[q].todo = pod[q].todo /\ w[q].found = pod[q].found
                     /\ w[q].fresh => pod[q].fresh /\ pod[q].cur # obj

\* Written makes stale what was read of the object.
LEMMA WrittenStaled ==
  ASSUME PodType, NEW obj PROVE Staled(Written(obj, pod), obj)
<1>1. PICK f : f = [q \in Pods |-> pod[q].fresh /\ pod[q].cur # obj]
  BY Zenon
<1>2. ASSUME NEW q \in Pods PROVE f[q] = (pod[q].fresh /\ pod[q].cur # obj)
  BY <1>1, Zenon
<1>3. ASSUME NEW q \in Pods, f[q] PROVE pod[q].fresh /\ pod[q].cur # obj
  BY <1>2, <1>3, Zenon
<1>4. Written(obj, pod) = [q \in Pods |-> [pod[q] EXCEPT !.fresh = f[q]]]
  BY <1>2, Zenon DEF Written
<1>5. PICK w : w = [q \in Pods |-> [pod[q] EXCEPT !.fresh = f[q]]]
  BY Zenon
<1>6. ASSUME NEW q \in Pods
      PROVE  w[q] = [pc |-> pod[q].pc, cur |-> pod[q].cur, todo |-> pod[q].todo, found |-> pod[q].found, fresh |-> f[q]]
  BY <1>5 DEF PodType, IsPod
<1>7. Staled(w, obj)
  <2>1. w = [q \in Pods |-> w[q]]
    BY <1>5
  <2>2. ASSUME NEW q \in Pods
        PROVE  /\ IsPod(w[q]) /\ w[q].pc = pod[q].pc /\ w[q].cur = pod[q].cur
               /\ w[q].todo = pod[q].todo /\ w[q].found = pod[q].found /\ w[q].fresh = f[q]
    <3>1. PICK r : r = f[q]
      OBVIOUS
    <3>2. w[q] = [pc |-> pod[q].pc, cur |-> pod[q].cur, todo |-> pod[q].todo, found |-> pod[q].found, fresh |-> r]
      BY <1>6, <3>1, Zenon
    <3>3. /\ w[q].pc = pod[q].pc /\ w[q].cur = pod[q].cur /\ w[q].todo = pod[q].todo
          /\ w[q].found = pod[q].found /\ w[q].fresh = r
      BY <3>2
    <3> QED
      BY <3>1, <3>2, <3>3, Zenon DEF IsPod
  <2> QED
    BY <1>3, <2>1, <2>2, Zenon DEF Staled
<1> QED
  BY <1>4, <1>5, <1>7

\* The pod that wrote the object goes on.
GoesOn(w, p, pc, todo) == pod' = [w EXCEPT ![p].pc = pc, ![p].todo = todo]

\* It takes no other pod along.
LEMMA WriterGoesOn ==
  ASSUME PodType, NEW p \in Pods, NEW obj, NEW w, Staled(w, obj), NEW pc, NEW todo, pc # "updateConfig",
         GoesOn(w, p, pc, todo)
  PROVE  PodType' /\ NoNewWriter /\ \A q \in Pods : Writes(q)' => q # p /\ pod[q].cur # obj
<1>1. w = [q \in Pods |-> w[q]] /\ IsPod(w[p])
  BY DEF Staled
<1>2. pod' = [q \in Pods |-> pod'[q]] /\ \A q \in Pods : q # p => pod'[q] = w[q]
  BY <1>1 DEF GoesOn
<1>3. pod'[p] = [[w[p] EXCEPT !.pc = pc] EXCEPT !.todo = todo]
  BY <1>1 DEF GoesOn
<1>4. pod'[p] = [pc |-> pc, cur |-> w[p].cur, todo |-> todo, found |-> w[p].found, fresh |-> w[p].fresh]
  BY <1>1, <1>3, Zenon DEF IsPod
<1>5. PodType'
  BY <1>2, <1>4 DEF PodType, IsPod, Staled
<1>6. ~Writes(p)'
  BY <1>4 DEF Writes
<1>7. ASSUME NEW q \in Pods, q # p, Writes(q)'
      PROVE  /\ Writes(q) /\ pod[q].cur # obj
             /\ pod'[q].cur = pod[q].cur /\ pod'[q].found = pod[q].found
  <2>1. pod'[q] = w[q]
    BY <1>2, <1>7
  <2>2. w[q].fresh /\ w[q].pc = "updateConfig"
    BY <1>7, <2>1 DEF Writes
  <2> QED
    BY <2>1, <2>2 DEF Writes, Staled
<1> QED
  BY <1>5, <1>6, <1>7 DEF NoNewWriter

\* Written alone.
LEMMA WrittenOnly ==
  ASSUME PodType, NEW obj, pod' = Written(obj, pod)
  PROVE  PodType' /\ NoNewWriter /\ \A q \in Pods : Writes(q)' => pod[q].cur \notin {obj}
<1>1. ASSUME NEW q \in Pods PROVE (pod[q].cur # obj) = (pod[q].cur \notin {obj})
  OBVIOUS
<1>2. pod' = [q \in Pods |-> [pod[q] EXCEPT !.fresh = @ /\ pod[q].cur \notin {obj}]]
  BY <1>1, Zenon DEF Written
<1> QED
  BY <1>2, StalePods, Zenon

\* The EcnetConfigs of some namespaces are deleted or written by a user, and
\* made stale.
LEMMA ChangedConfig ==
  ASSUME ConfigInv, NEW objs, PodType', ConfigType', KeepsUser, NoNewWriter,
         \A q \in Pods : Writes(q)' => pod[q].cur \notin objs,
         \A ns \in Namespaces \ objs : config'[ns] = config[ns]
  PROVE  ConfigInv'
<1>1. ASSUME NEW q \in Pods, Writes(q)'
      PROVE  pod'[q].cur = NsOf[q] /\ config'[NsOf[q]] # absent /\ pod'[q].found = config'[NsOf[q]]
  <2>1. Writes(q) /\ pod'[q].cur = pod[q].cur /\ pod'[q].found = pod[q].found
    BY <1>1 DEF NoNewWriter
  <2>2. NsOf[q] \in Namespaces
    BY PodsAssumption DEF Pods
  <2>3. pod[q].cur = NsOf[q] /\ config[NsOf[q]] # absent /\ pod[q].found = config[NsOf[q]]
    BY <2>1 DEF ConfigInv, ReadIsCurrent
  <2>4. NsOf[q] \notin objs
    BY <1>1, <2>3
  <2> QED
    BY <2>1, <2>2, <2>3, <2>4
<1>2. ReadIsCurrent'
  BY <1>1 DEF ReadIsCurrent
<1> QED
  BY <1>2 DEF ConfigInv

\* The steps of a pod that only move it on.
LEMMA QuietStep ==
  ASSUME ConfigInv, NEW p \in Pods,
         \/ GetPreset(p) \/ GetPod(p) \/ Initialize(p) \/ InitContainer(p) \/ CachesSynced(p) \/ StartController(p)
         \/ LoadProgs(p) \/ AttachProgs(p) \/ RequestFails(p) \/ FatalEvent(p)
  PROVE  ConfigInv' /\ KeepsUser
<1>1. PodType
  BY Zenon DEF ConfigInv
<1>2. \/ \E pc \in {"createConfig", "watchEvents", "ready", "informers", "server", "attach"} : pod' = Moved(p, pc)
      \/ Fatal(p)
  BY DEF GetPreset, GetPod, Initialize, InitContainer, CachesSynced, StartController, LoadProgs, AttachProgs,
         RequestFails, FatalEvent, Fatal
<1>3. UNCHANGED <<config, edits>>
  BY DEF GetPreset, GetPod, Initialize, InitContainer, CachesSynced, StartController, LoadProgs, AttachProgs,
         RequestFails, FatalEvent
<1>4. PodType' /\ NoNewWriter
  BY <1>1, <1>2, MovedPod, FatalPod
<1> QED
  BY <1>3, <1>4, SameConfig

\* applyOrUpdateCRDs does not touch the EcnetConfigs.
LEMMA CrdStep ==
  ASSUME ConfigInv, NEW p \in Pods, GetCrd(p) \/ PutCrd(p) PROVE ConfigInv' /\ KeepsUser
<1>1. PodType
  BY DEF ConfigInv
<1>2. ASSUME GetCrd(p) PROVE PodType' /\ NoNewWriter
  <2> DEFINE c == Head(pod[p].todo)
             r == [pc |-> "putCrd", cur |-> c, todo |-> pod[p].todo, found |-> crd[c], fresh |-> TRUE]
  <2>1. pod' = [pod EXCEPT ![p] = r]
    BY <1>2, Zenon DEF GetCrd
  <2>2. IsPod(r) /\ r.pc # "updateConfig"
    BY DEF IsPod
  <2> HIDE DEF r
  <2> QED
    BY <1>1, <2>1, <2>2, OnePod, Zenon
<1>3. ASSUME PutCrd(p) PROVE PodType' /\ NoNewWriter
  <2> DEFINE c  == pod[p].cur
             w  == Written(c, pod)
             pc == IF Tail(pod[p].todo) = <<>> THEN "getConfig" ELSE "crds"
  <2>1. CASE Fatal(p)
    BY <1>1, <2>1, FatalPod
  <2>2. CASE GoesOn(w, p, pc, Tail(pod[p].todo))
    <3>1. Staled(w, c)
      BY <1>1, WrittenStaled
    <3>2. pc # "updateConfig"
      OBVIOUS
    <3> HIDE DEF w, pc, c
    <3> QED
      BY <1>1, <2>2, <3>1, <3>2, WriterGoesOn
  <2>3. Fatal(p) \/ GoesOn(w, p, pc, Tail(pod[p].todo))
    BY <1>3, Zenon DEF PutCrd, GoesOn
  <2> QED
    BY <2>1, <2>2, <2>3, Zenon
<1>4. UNCHANGED <<config, edits>>
  BY DEF GetCrd, PutCrd
<1> QED
  BY <1>2, <1>3, <1>4, SameConfig

\* ensureEcnetConfig: what it reads is what is there.
LEMMA GetConfigStep ==
  ASSUME ConfigInv, NEW p \in Pods, GetConfig(p) PROVE ConfigInv' /\ KeepsUser
<1> DEFINE found == config[NsOf[p]]
           pc == IF found = absent THEN "getPreset" ELSE IF found.annotated THEN "getPod" ELSE "updateConfig"
           r == [pc |-> pc, cur |-> NsOf[p], todo |-> pod[p].todo, found |-> found, fresh |-> TRUE]
<1>1. ConfigType /\ PodType /\ ReadIsCurrent
  BY DEF ConfigInv
<1>2. pod' = [pod EXCEPT ![p] = r] /\ UNCHANGED <<config, edits>>
  BY Zenon DEF GetConfig
<1>3. pc = "updateConfig" => found # absent
  BY Zenon
<1>4. r.pc = pc /\ r.cur = NsOf[p] /\ r.found = found /\ IsPod(r)
  BY DEF IsPod
<1> HIDE DEF r, pc
<1>5. pod' = [q \in Pods |-> pod'[q]] /\ pod'[p] = r /\ \A q \in Pods : q # p => pod'[q] = pod[q]
  BY <1>1, <1>2 DEF PodType
<1>6. PodType'
  BY <1>1, <1>4, <1>5 DEF PodType, IsPod
<1>7. ConfigType' /\ KeepsUser
  BY <1>1, <1>2 DEF ConfigType, KeepsUser
<1>8. ReadIsCurrent'
  BY <1>1, <1>2, <1>3, <1>4, <1>5 DEF ReadIsCurrent, Writes
<1> QED
  BY <1>6, <1>7, <1>8 DEF ConfigInv

\* createDefaultEcnetConfig writes only where there is nothing.
LEMMA CreateStep ==
  ASSUME ConfigInv, NEW p \in Pods, CreateDefaultEcnetConfig(p) PROVE ConfigInv' /\ KeepsUser
<1>1. ConfigType /\ PodType /\ ReadIsCurrent
  BY DEF ConfigInv
<1>2. CASE Fatal(p) /\ UNCHANGED <<config, edits>>
  BY <1>1, <1>2, FatalPod, SameConfig
<1>3. CASE pod' = Moved(p, "getPod") /\ UNCHANGED <<config, edits>>
  BY <1>1, <1>3, MovedPod, SameConfig
<1>4. CASE /\ pod' = Moved(p, "getPod") /\ UNCHANGED edits /\ config[NsOf[p]] = absent
           /\ config' = [config EXCEPT ![NsOf[p]] = buildDefaultEcnetConfig]
  <2>1. PodType' /\ NoNewWriter
    BY <1>1, <1>4, MovedPod
  <2>2. /\ config' = [ns \in Namespaces |-> config'[ns]]
        /\ \A ns \in Namespaces : config'[ns] = IF ns = NsOf[p] THEN buildDefaultEcnetConfig ELSE config[ns]
    BY <1>1, <1>4 DEF ConfigType
  <2>3. ConfigType'
    BY <1>1, <1>4, <2>2 DEF ConfigType, buildDefaultEcnetConfig
  <2>4. KeepsUser
    BY <1>1, <1>4, <2>2 DEF KeepsUser, ConfigType
  <2>5. \A q \in Pods : Writes(q)' => pod[q].cur \notin {NsOf[p]}
    BY <1>1, <1>4, <2>1 DEF NoNewWriter, ReadIsCurrent
  <2>6. ConfigInv'
    <3>1. \A ns \in Namespaces \ {NsOf[p]} : config'[ns] = config[ns]
      BY <2>2
    <3> QED
      BY <2>1, <2>3, <2>4, <2>5, <3>1, ChangedConfig, Zenon
  <2> QED
    BY <2>4, <2>6
<1>5. \/ Fatal(p) /\ UNCHANGED <<config, edits>>
      \/ pod' = Moved(p, "getPod") /\ UNCHANGED <<config, edits>>
      \/ /\ pod' = Moved(p, "getPod") /\ UNCHANGED edits /\ config[NsOf[p]] = absent
         /\ config' = [config EXCEPT ![NsOf[p]] = buildDefaultEcnetConfig]
  BY DEF CreateDefaultEcnetConfig
<1> QED
  BY <1>2, <1>3, <1>4, <1>5

\* ensureEcnetConfig writes back the value that is there.
LEMMA UpdateStep ==
  ASSUME ConfigInv, NEW p \in Pods, UpdateConfig(p) PROVE ConfigInv' /\ KeepsUser
<1> DEFINE ns == NsOf[p]
           w  == Written(ns, pod)
           v  == [value |-> pod[p].found.value, annotated |-> TRUE]
<1>1. ConfigType /\ PodType /\ ReadIsCurrent
  BY DEF ConfigInv
<1>2. CASE Fatal(p) /\ UNCHANGED <<config, edits>>
  BY <1>1, <1>2, FatalPod, SameConfig
<1>3. ASSUME pod[p].fresh, config' = [config EXCEPT ![ns] = v], pod' = [w EXCEPT ![p].pc = "getPod"], UNCHANGED edits
      PROVE  ConfigInv' /\ KeepsUser
  <2>1. ns \in Namespaces /\ Writes(p)
    BY <1>3, PodsAssumption DEF Pods, UpdateConfig, At, Writes
  <2>2. config[ns] # absent /\ v.value = config[ns].value
    BY <1>1, <2>1 DEF ReadIsCurrent
  <2>3. Staled(w, ns)
    BY <1>1, WrittenStaled
  <2> HIDE DEF w, v
  <2>4. GoesOn(w, p, "getPod", w[p].todo)
    <3>1. w = [q \in Pods |-> w[q]] /\ IsPod(w[p])
      BY <2>3 DEF Staled
    <3> QED
      BY <1>3, <3>1, Zenon DEF GoesOn, IsPod
  <2>5. PodType' /\ NoNewWriter /\ \A q \in Pods : Writes(q)' => pod[q].cur \notin {ns}
    BY <1>1, <2>3, <2>4, WriterGoesOn
  <2>6. config' = [n \in Namespaces |-> config'[n]] /\ \A n \in Namespaces : config'[n] = IF n = ns THEN v ELSE config[n]
    BY <1>1, <1>3 DEF ConfigType
  <2>7. ConfigType'
    BY <1>1, <1>3, <2>1, <2>2, <2>6 DEF ConfigType
  <2>8. KeepsUser
    BY <1>1, <2>1, <2>2, <2>6 DEF KeepsUser, ConfigType
  <2>9. \A n \in Namespaces \ {ns} : config'[n] = config[n]
    BY <2>6
  <2> QED
    BY <2>5, <2>7, <2>8, <2>9, ChangedConfig, Zenon
<1>4. \/ Fatal(p) /\ UNCHANGED <<config, edits>>
      \/ /\ pod[p].fresh /\ config' = [config EXCEPT ![ns] = v] /\ pod' = [w EXCEPT ![p].pc = "getPod"]
         /\ UNCHANGED edits
  BY Zenon DEF UpdateConfig
<1> QED
  BY <1>2, <1>3, <1>4

\* A user's edit counts higher than what was there.
LEMMA EditStep ==
  ASSUME ConfigInv, NEW ns \in Namespaces, EditConfig(ns) PROVE ConfigInv' /\ KeepsUser
<1>1. ConfigType /\ PodType
  BY DEF ConfigInv
<1>2. PICK annotated : config' = [config EXCEPT ![ns] = [value |-> edits + 1, annotated |-> annotated]]
  BY Zenon DEF EditConfig
<1>3. edits' = edits + 1 /\ pod' = Written(ns, pod)
  BY DEF EditConfig
<1>4. PodType' /\ NoNewWriter /\ \A q \in Pods : Writes(q)' => pod[q].cur \notin {ns}
  BY <1>1, <1>3, WrittenOnly
<1>5. /\ config' = [n \in Namespaces |-> config'[n]]
      /\ \A n \in Namespaces : config'[n] = IF n = ns THEN [value |-> edits + 1, annotated |-> annotated] ELSE config[n]
  BY <1>1, <1>2 DEF ConfigType
<1>6. ConfigType'
  BY <1>1, <1>3, <1>5 DEF ConfigType
<1>7. KeepsUser
  BY <1>1, <1>3, <1>5 DEF ConfigType, KeepsUser
<1>8. \A n \in Namespaces \ {ns} : config'[n] = config[n]
  BY <1>5
<1> QED
  BY <1>4, <1>6, <1>7, <1>8, ChangedConfig, Zenon

\* EcnetConfigs are deleted, and what was read of them is stale.
LEMMA DeleteStep ==
  ASSUME ConfigInv, NEW gone, NEW objs, gone \subseteq objs,
         config' = [ns \in Namespaces |-> IF ns \in gone THEN absent ELSE config[ns]], UNCHANGED edits,
         pod' = [q \in Pods |-> [pod[q] EXCEPT !.fresh = @ /\ pod[q].cur \notin objs]]
  PROVE  ConfigInv' /\ KeepsUser
<1>1. ConfigType /\ PodType
  BY DEF ConfigInv
<1>2. PodType' /\ NoNewWriter /\ \A q \in Pods : Writes(q)' => pod[q].cur \notin objs
  BY <1>1, StalePods, Zenon
<1>3. /\ config' = [ns \in Namespaces |-> config'[ns]]
      /\ \A ns \in Namespaces : config'[ns] = IF ns \in gone THEN absent ELSE config[ns]
  OBVIOUS
<1>4. ConfigType' /\ KeepsUser
  BY <1>1, <1>3 DEF ConfigType, KeepsUser
<1>5. \A ns \in Namespaces \ objs : config'[ns] = config[ns]
  BY <1>3
<1> QED
  BY <1>2, <1>4, <1>5, ChangedConfig, Zenon

\* The steps of uninstall that delete.
LEMMA UninstallStep ==
  ASSUME ConfigInv, NEW o \in Operators, PostDelete(o) \/ DeleteNs(o) \/ DeleteClusterResources(o)
  PROVE  ConfigInv' /\ KeepsUser
<1> DEFINE ns == (CHOOSE m \in cmd[o].seen : TRUE)[1]
<1>0. config = [n \in Namespaces |-> config[n]] /\ PodType /\ UNCHANGED edits
  BY DEF ConfigInv, ConfigType, PostDelete, DeleteNs, DeleteClusterResources
<1>1. ASSUME NEW n, config' = [config EXCEPT ![n] = absent]
      PROVE  config' = [k \in Namespaces |-> IF k \in {n} THEN absent ELSE config[k]]
  BY <1>0, <1>1
<1>2. ASSUME UNCHANGED <<config, pod>> PROVE ConfigInv' /\ KeepsUser
  <2>1. PodType' /\ NoNewWriter
    BY <1>0, <1>2 DEF PodType, NoNewWriter, Writes
  <2> QED
    BY <1>0, <1>2, <2>1, SameConfig
<1>3. ASSUME PostDelete(o) PROVE ConfigInv' /\ KeepsUser
  <2>1. config' = [config EXCEPT ![ns] = absent]
    BY <1>3, Zenon DEF PostDelete
  <2>2. pod' = [q \in Pods |-> [pod[q] EXCEPT !.fresh = @ /\ pod[q].cur \notin Crds \cup {ns}]]
    BY <1>3, Zenon DEF PostDelete
  <2>3. {ns} \subseteq Crds \cup {ns}
    OBVIOUS
  <2> HIDE DEF ns
  <2>4. config' = [k \in Namespaces |-> IF k \in {ns} THEN absent ELSE config[k]]
    BY <1>1, <2>1, Zenon
  <2> QED
    BY <1>0, <2>2, <2>3, <2>4, DeleteStep, Zenon
<1>4. ASSUME DeleteNs(o) PROVE ConfigInv' /\ KeepsUser
  <2>1. \/ UNCHANGED <<config, pod>>
        \/ config' = [config EXCEPT ![ns] = absent] /\ pod' = Written(ns, pod)
    BY <1>4, Zenon DEF DeleteNs
  <2> HIDE DEF ns
  <2>2. ASSUME config' = [config EXCEPT ![ns] = absent], pod' = Written(ns, pod) PROVE ConfigInv' /\ KeepsUser
    <3>1. config' = [k \in Namespaces |-> IF k \in {ns} THEN absent ELSE config[k]]
      BY <1>1, <2>2, Zenon
    <3>2. ASSUME NEW q \in Pods PROVE (pod[q].cur # ns) = (pod[q].cur \notin {ns})
      OBVIOUS
    <3>3. pod' = [q \in Pods |-> [pod[q] EXCEPT !.fresh = @ /\ pod[q].cur \notin {ns}]]
      BY <2>2, <3>2, Zenon DEF Written
    <3> QED
      BY <1>0, <3>1, <3>3, DeleteStep, Zenon
  <2> QED
    BY <1>2, <2>1, <2>2
<1>5. ASSUME DeleteClusterResources(o) PROVE ConfigInv' /\ KeepsUser
  <2>1. UNCHANGED <<config, pod>> \/ uninstallCustomResourceDefinitions
    BY <1>5, Zenon DEF DeleteClusterResources, uninstallClusterResources
  <2>2. ASSUME uninstallCustomResourceDefinitions PROVE ConfigInv' /\ KeepsUser
    <3> DEFINE objs == Namespaces \cup {"ecnetconfig"}
    <3>1. config' = [k \in Namespaces |-> IF k \in Namespaces THEN absent ELSE config[k]]
      BY <2>2 DEF uninstallCustomResourceDefinitions
    <3>2. pod' = [q \in Pods |-> [pod[q] EXCEPT !.fresh = @ /\ pod[q].cur \notin objs]]
      BY <2>2, Zenon DEF uninstallCustomResourceDefinitions
    <3>3. Namespaces \subseteq objs
      OBVIOUS
    <3> HIDE DEF objs
    <3> QED
      BY <1>0, <3>1, <3>2, <3>3, DeleteStep, Zenon
  <2> QED
    BY <1>2, <2>1, <2>2
<1> QED
  BY <1>3, <1>4, <1>5, Zenon

\* Pods that are launched or gone write nothing.
LEMMA DeployStep ==
  ASSUME ConfigInv, NEW o \in Operators, Deploy(o) PROVE ConfigInv' /\ KeepsUser
<1> DEFINE ns == cmd[o].c.ns
<1>1. PodType /\ UNCHANGED <<config, edits>>
  BY DEF ConfigInv, Deploy
<1>2. UNCHANGED pod \/ pod' = [p \in Pods |-> IF NsOf[p] = ns THEN Launched(p) ELSE pod[p]]
  BY Zenon DEF Deploy
<1>3. \A p \in Pods : IsPod(Launched(p)) /\ Launched(p).pc # "updateConfig"
  BY Zenon DEF Launched, Started, BootstrapMain, ServerMain, Off, IsPod
<1> HIDE DEF ns
<1>4. pod' = [p \in Pods |-> pod'[p]] /\ \A p \in Pods : pod'[p] \in {pod[p], Launched(p)}
  BY <1>1, <1>2 DEF PodType
<1>5. PodType' /\ NoNewWriter
  BY <1>1, <1>3, <1>4 DEF PodType, NoNewWriter, Writes
<1> QED
  BY <1>1, <1>5, SameConfig, Zenon

\* The steps of the other commands leave pods and EcnetConfigs alone.
LEMMA OtherStep ==
  ASSUME ConfigInv, UNCHANGED <<config, edits, pod>> PROVE ConfigInv' /\ KeepsUser
<1>1. PodType' /\ NoNewWriter
  BY DEF ConfigInv, PodType, NoNewWriter, Writes
<1> QED
  BY <1>1, SameConfig

\* At the start no pod is about to write.
LEMMA InitConfig == Init => ConfigInv
<1> SUFFICES ASSUME Init PROVE ConfigInv
  OBVIOUS
<1>1. edits = 0 /\ config = [ns \in Namespaces |-> config[ns]]
  BY DEF Init
<1>2. \A ns \in Namespaces : config[ns] # absent => config[ns].value = 0
  BY DEF Init
<1>3. pod = [p \in Pods |-> pod[p]] /\ \A p \in Pods : pod[p] \in {Off, [Off EXCEPT !.pc = "ready"]}
  BY DEF Init
<1>4. PodType /\ ReadIsCurrent
  BY <1>3 DEF PodType, IsPod, Off, ReadIsCurrent, Writes
<1> QED
  BY <1>1, <1>2, <1>4 DEF ConfigInv, ConfigType

\* Every step keeps the invariant and what users wrote.
LEMMA NextConfig == ConfigInv /\ [Next]_vars => ConfigInv' /\ KeepsUser
<1> SUFFICES ASSUME ConfigInv, [Next]_vars PROVE ConfigInv' /\ KeepsUser
  OBVIOUS
<1>1. ASSUME NEW p \in Pods, PodStep(p) \/ RequestFails(p) \/ FatalEvent(p) PROVE ConfigInv' /\ KeepsUser
  BY <1>1, QuietStep, CrdStep, GetConfigStep, CreateStep, UpdateStep DEF PodStep
<1>2. ASSUME NEW p \in Pods, Terminate(p) PROVE ConfigInv' /\ KeepsUser
  <2>1. IsPod(Off) /\ Off.pc # "updateConfig"
    BY DEF Off, IsPod
  <2>2. PodType' /\ NoNewWriter
    BY <1>2, <2>1, OnePod, Zenon DEF ConfigInv, Terminate
  <2>3. UNCHANGED <<config, edits>>
    BY <1>2 DEF Terminate
  <2> QED
    BY <2>2, <2>3, SameConfig
<1>3. ASSUME NEW ns \in Namespaces, EditConfig(ns) PROVE ConfigInv' /\ KeepsUser
  BY <1>3, EditStep
<1>4. ASSUME NEW o \in Operators, NEW c \in Commands, Run(o, c) PROVE ConfigInv' /\ KeepsUser
  BY <1>4, OtherStep DEF Run, podVars
<1>5. ASSUME NEW o \in Operators, Step(o) PROVE ConfigInv' /\ KeepsUser
  <2>1. CASE Deploy(o)
    BY <2>1, DeployStep
  <2>2. CASE PostDelete(o) \/ DeleteNs(o) \/ DeleteClusterResources(o)
    BY <2>2, UninstallStep
  <2>3. CASE \/ Check(o) \/ Upgrade(o) \/ List(o) \/ HelmUninstall(o)
             \/ AddExists(o) \/ AddGetNs(o) \/ AddPatch(o) \/ RemoveGetNs(o) \/ RemovePatch(o) \/ Ignore(o)
    <3>1. UNCHANGED <<config, edits, pod>>
      BY <2>3, Zenon DEF Check, Upgrade, List, HelmUninstall, AddExists, AddGetNs, AddPatch, RemoveGetNs, RemovePatch,
                         Ignore, podVars
    <3> QED
      BY <3>1, OtherStep
  <2> QED
    BY <1>5, <2>1, <2>2, <2>3 DEF Step
<1>6. CASE UNCHANGED vars
  BY <1>6, OtherStep DEF vars, podVars
<1> QED
  BY <1>1, <1>2, <1>3, <1>4, <1>5, <1>6 DEF Next

\* For any number of people and pods: neither ensureEcnetConfig nor
\* createDefaultEcnetConfig ever replaces what a user wrote into an
\* EcnetConfig, whatever is installed, deleted and created again meanwhile.
THEOREM ConfigKept == Spec => UserConfigKept
<1>1. ConfigInv /\ [Next]_vars =>
        [\A ns \in Namespaces :
           config[ns] # absent => config'[ns] = absent \/ config'[ns].value >= config[ns].value]_podVars
  BY NextConfig DEF KeepsUser
<1>2. ConfigInv /\ [Next]_vars => ConfigInv'
  BY NextConfig
<1> QED
  BY <1>1, <1>2, InitConfig, PTL DEF Spec, UserConfigKept

-----------------------------------------------------------------------------
(* What a program has found by the time it serves, and the pods that are on    *)
(* their way there.                                                            *)

\* Where a program has an EcnetConfig.
Checked == {"getPod", "watchEvents", "informers", "server", "attach", "ready"}
HasCrds == Checked \cup {"getConfig", "getPreset", "createConfig", "updateConfig"}

InTodo(c, todo) == \E i \in 1..Len(todo) : todo[i] = c

\* Of a CRD that is not up to date yet the file is still to come.
CrdsComing(p) ==
  /\ pod[p].todo \in Seq(STRING) /\ pod[p].todo # <<>>
  /\ \A c \in Crds : crd[c] = "new" \/ InTodo(c, pod[p].todo)

PodServes(p) ==
  /\ pod[p].pc \in {"crds", "putCrd"} => CrdsComing(p)
  /\ pod[p].pc = "putCrd" => pod[p].cur = Head(pod[p].todo)
  /\ pod[p].pc \in HasCrds => \A c \in Crds : crd[c] = "new"
  /\ pod[p].pc \in Checked => config[NsOf[p]] # absent
  /\ p \notin Bootstraps => pod[p].pc \in Checked \cup {"off", "init"}

ServeInv ==
  /\ crd = [c \in Crds |-> crd[c]]
  /\ \A p \in Pods : NsOf[p] \notin removed => PodServes(p)

Same(q) == pod'[q].pc = pod[q].pc /\ pod'[q].cur = pod[q].cur /\ pod'[q].todo = pod[q].todo

\* A namespace of which nothing is deleted.
Keeps(ns) ==
  ns \notin removed' =>
    /\ ns \notin removed
    /\ \A c \in Crds : crd[c] = "new" => crd'[c] = "new"
    /\ config[ns] # absent => config'[ns] # absent

\* A pod that does nothing is where it was.
LEMMA SameServes ==
  ASSUME ServeInv, NEW q \in Pods, Same(q), Keeps(NsOf[q]) PROVE NsOf[q] \notin removed' => PodServes(q)'
<1> SUFFICES ASSUME NsOf[q] \notin removed' PROVE PodServes(q)'
  OBVIOUS
<1>1. PodServes(q) /\ pod'[q].pc = pod[q].pc /\ pod'[q].cur = pod[q].cur /\ pod'[q].todo = pod[q].todo
  BY DEF ServeInv, Keeps, Same
<1>2. \A c \in Crds : crd[c] = "new" => crd'[c] = "new"
  BY DEF Keeps
<1>3. CrdsComing(q) => CrdsComing(q)'
  BY <1>1, <1>2, Zenon DEF CrdsComing, Crds
<1>4. config[NsOf[q]] # absent => config'[NsOf[q]] # absent
  BY DEF Keeps
<1>5. Crds' = Crds
  BY Zenon DEF Crds
<1> QED
  BY <1>1, <1>2, <1>3, <1>4, <1>5, Zenon DEF PodServes

\* One pod goes on while nothing is written.
LEMMA OneServes ==
  ASSUME PodType, ServeInv, UNCHANGED <<crd, config, removed>>, NEW p \in Pods, NEW r, pod' = [pod EXCEPT ![p] = r],
         NsOf[p] \notin removed => PodServes(p)'
  PROVE  ServeInv'
<1>1. pod'[p] = r /\ \A q \in Pods : q # p => pod'[q] = pod[q]
  BY Zenon DEF PodType
<1>2. \A q \in Pods : q # p /\ NsOf[q] \notin removed' => PodServes(q)'
  BY <1>1, SameServes DEF Same, Keeps
<1>3. crd' = [c \in Crds |-> crd'[c]]
  BY DEF ServeInv
<1> QED
  BY <1>2, <1>3, Zenon DEF ServeInv, Crds

\* One pod moves on.
LEMMA MovedServes ==
  ASSUME PodType, ServeInv, UNCHANGED <<crd, config, removed>>, NEW p \in Pods, NEW pc, pod' = Moved(p, pc),
         \/ pc \in Checked /\ pod[p].pc \in Checked
         \/ pc = "createConfig" /\ pod[p].pc = "getPreset"
  PROVE  ServeInv'
<1>1. pod' = [pod EXCEPT ![p] = [pod[p] EXCEPT !.pc = pc]]
  BY DEF Moved, PodType
<1>2. pod'[p].pc = pc
  BY <1>1, Zenon DEF PodType, IsPod
<1>3. ASSUME NsOf[p] \notin removed PROVE PodServes(p)'
  <2>1. PodServes(p)
    BY <1>3 DEF ServeInv
  <2> QED
    BY <1>2, <2>1 DEF PodServes, Checked, HasCrds, Crds
<1> QED
  BY <1>1, <1>3, OneServes, Zenon

\* What a container that starts finds.
LEMMA StartedServes ==
  ASSUME NEW p \in Pods, pod'[p] = Started(p),
         p \notin Bootstraps => (\A c \in Crds : crd'[c] = "new") /\ config'[NsOf[p]] # absent
  PROVE  PodServes(p)'
<1>1. CASE p \in Bootstraps
  <2>1. pod'[p].pc = "crds" /\ pod'[p].todo = CrdFiles
    BY <1>1 DEF Started, BootstrapMain, Off
  <2>2. CrdsComing(p)'
    BY <2>1, CrdsAssumption DEF CrdsComing, InTodo, Crds
  <2> QED
    BY <1>1, <2>1, <2>2 DEF PodServes, Checked, HasCrds
<1>2. CASE p \notin Bootstraps
  <2>1. pod'[p].pc = "getPod"
    BY <1>2 DEF Started, ServerMain, Off
  <2> QED
    BY <1>2, <2>1 DEF PodServes, Checked, HasCrds, Crds
<1> QED
  BY <1>1, <1>2

\* A container starts again, or for the first time once ecnet-bootstrap is
\* healthy.
LEMMA FatalServes ==
  ASSUME PodType, ServeInv, UNCHANGED <<crd, config, removed>>, NEW p \in Pods, Fatal(p),
         \/ pod[p].pc \notin {"off", "init"}
         \/ \E b \in Bootstraps : NsOf[b] = NsOf[p] /\ Readiness(b)
  PROVE  ServeInv'
<1>1. pod' = [pod EXCEPT ![p] = Started(p)]
  BY DEF Fatal
<1>2. pod'[p] = Started(p)
  BY <1>1 DEF PodType
<1>3. ASSUME NsOf[p] \notin removed PROVE PodServes(p)'
  <2>1. ASSUME p \notin Bootstraps PROVE (\A c \in Crds : crd'[c] = "new") /\ config'[NsOf[p]] # absent
    <3>1. PICK b \in Pods : NsOf[b] = NsOf[p] /\ pod[b].pc \in Checked
      BY <1>3, <2>1 DEF ServeInv, PodServes, Pods, Readiness, At, Checked
    <3>2. PodServes(b)
      BY <1>3, <3>1 DEF ServeInv
    <3> QED
      BY <3>1, <3>2, Zenon DEF PodServes, HasCrds
  <2> QED
    BY <1>2, <2>1, StartedServes, Zenon
<1> QED
  BY <1>1, <1>3, OneServes, Zenon

\* The steps of a pod that only move it on.
LEMMA QuietServes ==
  ASSUME PodType, ServeInv, NEW p \in Pods,
         \/ GetPreset(p) \/ GetPod(p) \/ Initialize(p) \/ InitContainer(p) \/ CachesSynced(p) \/ StartController(p)
         \/ LoadProgs(p) \/ AttachProgs(p) \/ RequestFails(p) \/ FatalEvent(p)
  PROVE  ServeInv'
<1>1. UNCHANGED <<crd, config, removed>>
  BY Zenon DEF GetPreset, GetPod, Initialize, InitContainer, CachesSynced, StartController, LoadProgs, AttachProgs,
         RequestFails, FatalEvent
<1>2. \/ /\ Fatal(p)
         /\ pod[p].pc \notin {"off", "init"} \/ \E b \in Bootstraps : NsOf[b] = NsOf[p] /\ Readiness(b)
      \/ \E pc \in Checked : pod' = Moved(p, pc) /\ pod[p].pc \in Checked
      \/ pod' = Moved(p, "createConfig") /\ pod[p].pc = "getPreset"
  <2>1. CASE InitContainer(p) \/ RequestFails(p) \/ FatalEvent(p)
    BY <2>1, Zenon DEF InitContainer, RequestFails, FatalEvent, Fatal
  <2>2. CASE GetPreset(p)
    BY <2>2, Zenon DEF GetPreset, At
  <2>3. CASE GetPod(p) \/ Initialize(p) \/ CachesSynced(p) \/ StartController(p) \/ LoadProgs(p) \/ AttachProgs(p)
    BY <2>3 DEF GetPod, Initialize, CachesSynced, StartController, LoadProgs, AttachProgs, At, Checked
  <2> QED
    BY <2>1, <2>2, <2>3, Zenon
<1> QED
  BY <1>1, <1>2, FatalServes, MovedServes, Zenon

\* What the pods are doing does not change with what they read.
LEMMA StaleSame ==
  ASSUME PodType, NEW objs, NEW q \in Pods,
         pod' = [p \in Pods |-> [pod[p] EXCEPT !.fresh = @ /\ pod[p].cur \notin objs]]
  PROVE  Same(q)
<1>1. PICK fresh : fresh = (pod[q].fresh /\ pod[q].cur \notin objs)
  OBVIOUS
<1>2. pod'[q] = [pod[q] EXCEPT !.fresh = fresh]
  BY <1>1, Zenon
<1> QED
  BY <1>2 DEF Same, PodType, IsPod

\* The pod that wrote goes on alone.
LEMMA WriterSame ==
  ASSUME PodType, NEW p \in Pods, NEW obj, NEW w, Staled(w, obj), NEW pc, NEW todo, GoesOn(w, p, pc, todo)
  PROVE  /\ \A q \in Pods : q # p => Same(q)
         /\ pod'[p].pc = pc /\ pod'[p].cur = pod[p].cur /\ pod'[p].todo = todo
<1>1. w = [q \in Pods |-> w[q]] /\ IsPod(w[p])
  BY DEF Staled
<1>2. \A q \in Pods : q # p => pod'[q] = w[q]
  BY <1>1 DEF GoesOn
<1>3. pod'[p] = [[w[p] EXCEPT !.pc = pc] EXCEPT !.todo = todo]
  BY <1>1 DEF GoesOn
<1>4. pod'[p] = [pc |-> pc, cur |-> w[p].cur, todo |-> todo, found |-> w[p].found, fresh |-> w[p].fresh]
  BY <1>1, <1>3, Zenon DEF IsPod
<1> QED
  BY <1>2, <1>4 DEF Same, Staled

\* applyOrUpdateCRDs: the CRD is read.
LEMMA GetCrdServes ==
  ASSUME PodType, ServeInv, NEW p \in Pods, GetCrd(p) PROVE ServeInv'
<1> DEFINE c == Head(pod[p].todo)
           r == [pc |-> "putCrd", cur |-> c, todo |-> pod[p].todo, found |-> crd[c], fresh |-> TRUE]
<1>1. pod' = [pod EXCEPT ![p] = r] /\ UNCHANGED <<crd, config, removed>> /\ pod[p].pc = "crds"
  BY Zenon DEF GetCrd, At
<1>2. pod'[p] = r
  BY <1>1, Zenon DEF PodType
<1>3. ASSUME NsOf[p] \notin removed PROVE PodServes(p)'
  <2>1. PodServes(p)
    BY <1>3, Zenon DEF ServeInv
  <2>2. pod'[p].pc = "putCrd" /\ pod'[p].todo = pod[p].todo /\ pod'[p].cur = Head(pod'[p].todo)
    BY <1>2
  <2>3. CrdsComing(p) /\ p \in Bootstraps
    BY <1>1, <2>1 DEF PodServes, Checked
  <2>4. CrdsComing(p)'
    BY <1>1, <2>2, <2>3, Zenon DEF CrdsComing, Crds
  <2> QED
    BY <2>2, <2>3, <2>4 DEF PodServes, Checked, HasCrds
<1> HIDE DEF r
<1> QED
  BY <1>1, <1>3, OneServes, Zenon

\* Of the files that were to come all but the first still are.
LEMMA TodoTail ==
  ASSUME NEW todo \in Seq(STRING), todo # <<>>
  PROVE  /\ Tail(todo) \in Seq(STRING)
         /\ \A x : InTodo(x, todo) => x = Head(todo) \/ InTodo(x, Tail(todo))
<1>1. Tail(todo) \in Seq(STRING) /\ Len(Tail(todo)) = Len(todo) - 1 /\ Len(todo) \in Nat
  OBVIOUS
<1>2. ASSUME NEW x, NEW i \in 1..Len(todo), todo[i] = x PROVE x = Head(todo) \/ InTodo(x, Tail(todo))
  <2>1. CASE i = 1
    BY <1>2, <2>1
  <2>2. CASE i # 1
    <3>1. i - 1 \in 1..Len(Tail(todo)) /\ Tail(todo)[i - 1] = x
      BY <1>1, <1>2, <2>2
    <3> QED
      BY <3>1, Zenon DEF InTodo
  <2> QED
    BY <2>1, <2>2
<1> QED
  BY <1>1, <1>2 DEF InTodo

\* applyOrUpdateCRDs: the CRD is written, and its file is done.
LEMMA PutCrdServes ==
  ASSUME PodType, ServeInv, NEW p \in Pods, PutCrd(p) PROVE ServeInv'
<1> DEFINE c    == pod[p].cur
           w    == Written(c, pod)
           left == Tail(pod[p].todo)
           pc   == IF left = <<>> THEN "getConfig" ELSE "crds"
<1>0. pod[p].pc = "putCrd" /\ UNCHANGED <<config, removed>>
  BY Zenon DEF PutCrd, At
<1>1. CASE Fatal(p) /\ UNCHANGED crd
  BY <1>0, <1>1, FatalServes
<1>2. ASSUME crd' = [crd EXCEPT ![c] = "new"], GoesOn(w, p, pc, left) PROVE ServeInv'
  <2>1. crd' = [x \in Crds |-> crd'[x]] /\ \A x \in Crds : crd'[x] = IF x = c THEN "new" ELSE crd[x]
    BY <1>2, Zenon DEF ServeInv
  <2>2. /\ \A q \in Pods : q # p => Same(q)
        /\ pod'[p].pc = pc /\ pod'[p].cur = pod[p].cur /\ pod'[p].todo = left
    <3>1. Staled(w, c)
      BY WrittenStaled, Zenon
    <3> HIDE DEF w, c, pc, left
    <3> QED
      BY <1>2, <3>1, WriterSame
  <2>3. ASSUME NEW q \in Pods, q # p PROVE NsOf[q] \notin removed' => PodServes(q)'
    <3>1. Keeps(NsOf[q])
      BY <1>0, <2>1 DEF Keeps
    <3> QED
      BY <2>2, <2>3, <3>1, SameServes, Zenon
  <2>4. ASSUME NsOf[p] \notin removed PROVE PodServes(p)'
    <3>1. PodServes(p)
      BY <2>4 DEF ServeInv
    <3>2. CrdsComing(p) /\ c = Head(pod[p].todo) /\ p \in Bootstraps
      BY <1>0, <3>1 DEF PodServes, Checked
    <3>3. pod[p].todo \in Seq(STRING) /\ pod[p].todo # <<>>
      BY <3>2 DEF CrdsComing
    <3>4. left \in Seq(STRING) /\ \A x : InTodo(x, pod[p].todo) => x = c \/ InTodo(x, left)
      BY <3>2, <3>3, TodoTail, Zenon
    <3>5. \A x \in Crds : crd'[x] = "new" \/ InTodo(x, left)
      BY <2>1, <3>2, <3>4 DEF CrdsComing
    <3>6. \A x : ~InTodo(x, <<>>)
      BY DEF InTodo
    <3>7. pc \in {"getConfig", "crds"} /\ (pc = "getConfig" <=> left = <<>>)
      BY Zenon
    <3> HIDE DEF pc, left, c
    <3>8. CASE left = <<>>
      BY <2>2, <3>2, <3>5, <3>6, <3>7, <3>8, Zenon DEF PodServes, Checked, HasCrds, Crds
    <3>9. CASE left # <<>>
      <4>1. CrdsComing(p)'
        BY <2>2, <3>4, <3>5, <3>9 DEF CrdsComing, InTodo, Crds
      <4> QED
        BY <2>2, <3>2, <3>7, <3>9, <4>1, Zenon DEF PodServes, Checked, HasCrds
    <3> QED
      BY <3>8, <3>9, Zenon
  <2> QED
    BY <1>0, <2>1, <2>3, <2>4, Zenon DEF ServeInv, Crds
<1>3. \/ Fatal(p) /\ UNCHANGED crd
      \/ crd' = [crd EXCEPT ![c] = "new"] /\ GoesOn(w, p, pc, left)
  <2> DEFINE ok == IF pod[p].found = absent THEN crd[c] = absent ELSE crd[c] # absent /\ pod[p].fresh
  <2>1. CASE ok
    <3>1. crd' = [crd EXCEPT ![c] = "new"]
      BY <2>1, Zenon DEF PutCrd
    <3>2. GoesOn(w, p, pc, left)
      BY <2>1, Zenon DEF PutCrd, GoesOn
    <3> QED
      BY <3>1, <3>2, Zenon
  <2>2. CASE ~ok
    BY <2>2, Zenon DEF PutCrd
  <2> QED
    BY <2>1, <2>2, Zenon
<1> QED
  BY <1>1, <1>2, <1>3, Zenon

\* ensureEcnetConfig: what is there already need not be created.
LEMMA GetConfigServes ==
  ASSUME PodType, ServeInv, NEW p \in Pods, GetConfig(p) PROVE ServeInv'
<1> DEFINE found == config[NsOf[p]]
           pc == IF found = absent THEN "getPreset" ELSE IF found.annotated THEN "getPod" ELSE "updateConfig"
           r == [pc |-> pc, cur |-> NsOf[p], todo |-> pod[p].todo, found |-> found, fresh |-> TRUE]
<1>1. pod' = [pod EXCEPT ![p] = r] /\ UNCHANGED <<crd, config, removed>> /\ pod[p].pc = "getConfig"
  BY Zenon DEF GetConfig, At
<1>2. pod'[p].pc = pc
  BY <1>1, Zenon DEF PodType
<1>3. pc \in {"getPreset", "getPod", "updateConfig"} /\ (pc = "getPod" => found # absent)
  BY Zenon
<1>4. ASSUME NsOf[p] \notin removed PROVE PodServes(p)'
  <2>1. PodServes(p)
    BY <1>4 DEF ServeInv
  <2> HIDE DEF pc
  <2> QED
    BY <1>1, <1>2, <1>3, <2>1 DEF PodServes, Checked, HasCrds, Crds
<1> HIDE DEF r
<1> QED
  BY <1>1, <1>4, OneServes, Zenon

\* A pod writes the EcnetConfig of its namespace.
LEMMA ConfigWritten ==
  ASSUME PodType, ServeInv, ConfigType, NEW p \in Pods, UNCHANGED <<crd, removed>>,
         pod[p].pc \in HasCrds, pod'[p].pc = "getPod", \A q \in Pods : q # p => Same(q),
         config'[NsOf[p]] # absent, \A ns \in Namespaces : ns # NsOf[p] => config'[ns] = config[ns]
  PROVE  ServeInv'
<1>1. ASSUME NEW q \in Pods, q # p PROVE NsOf[q] \notin removed' => PodServes(q)'
  <2>1. NsOf[q] \in Namespaces
    BY PodsAssumption, Zenon DEF Pods
  <2>2. Keeps(NsOf[q])
    BY <2>1, Zenon DEF Keeps
  <2> QED
    BY <1>1, <2>2, SameServes, Zenon
<1>2. ASSUME NsOf[p] \notin removed' PROVE PodServes(p)'
  <2>1. PodServes(p)
    BY <1>2 DEF ServeInv
  <2> QED
    BY <2>1 DEF PodServes, Checked, HasCrds, Crds
<1>3. crd' = [c \in Crds |-> crd'[c]]
  BY DEF ServeInv
<1> QED
  BY <1>1, <1>2, <1>3, Zenon DEF ServeInv, Crds

\* createDefaultEcnetConfig: there is one afterwards.
LEMMA CreateServes ==
  ASSUME ConfigInv, ServeInv, NEW p \in Pods, CreateDefaultEcnetConfig(p) PROVE ServeInv'
<1> DEFINE ns == NsOf[p]
<1>1. PodType /\ ConfigType /\ ns \in Namespaces
  BY PodsAssumption, Zenon DEF ConfigInv, Pods
<1>2. pod[p].pc = "createConfig" /\ UNCHANGED <<crd, removed>>
  BY DEF CreateDefaultEcnetConfig, At
<1>3. \/ Fatal(p) /\ UNCHANGED config
      \/ /\ pod' = Moved(p, "getPod")
         /\ config' = IF config[ns] # absent THEN config ELSE [config EXCEPT ![ns] = buildDefaultEcnetConfig]
  BY Zenon DEF CreateDefaultEcnetConfig
<1>4. CASE Fatal(p) /\ UNCHANGED config
  BY <1>1, <1>2, <1>4, FatalServes, Zenon
<1>5. CASE /\ pod' = Moved(p, "getPod")
           /\ config' = IF config[ns] # absent THEN config ELSE [config EXCEPT ![ns] = buildDefaultEcnetConfig]
  <2>1. buildDefaultEcnetConfig # absent
    <3>1. buildDefaultEcnetConfig \in [value : Nat, annotated : BOOLEAN]
      BY DEF buildDefaultEcnetConfig
    <3> QED
      BY <3>1, AbsentAssumption, Zenon
  <2>2. config'[ns] # absent /\ \A n \in Namespaces : n # ns => config'[n] = config[n]
    BY <1>1, <1>5, <2>1 DEF ConfigType
  <2>3. pod' = [pod EXCEPT ![p] = [pod[p] EXCEPT !.pc = "getPod"]]
    BY <1>1, <1>5 DEF Moved, PodType
  <2>4. pod'[p].pc = "getPod" /\ \A q \in Pods : q # p => Same(q)
    BY <1>1, <2>3 DEF PodType, IsPod, Same
  <2>5. pod[p].pc \in HasCrds
    BY <1>2 DEF HasCrds
  <2> HIDE DEF ns
  <2> QED
    BY <1>1, <1>2, <2>2, <2>4, <2>5, ConfigWritten DEF ns
<1> QED
  BY <1>3, <1>4, <1>5

\* ensureEcnetConfig: the one that is there is written.
LEMMA UpdateServes ==
  ASSUME ConfigInv, ServeInv, NEW p \in Pods, UpdateConfig(p) PROVE ServeInv'
<1> DEFINE ns == NsOf[p]
           w  == Written(ns, pod)
           v  == [value |-> pod[p].found.value, annotated |-> TRUE]
<1>1. PodType /\ ConfigType /\ ns \in Namespaces
  BY PodsAssumption DEF ConfigInv, Pods
<1>2. pod[p].pc = "updateConfig" /\ UNCHANGED <<crd, removed>>
  BY DEF UpdateConfig, At
<1>3. \/ Fatal(p) /\ UNCHANGED config
      \/ pod[p].fresh /\ config' = [config EXCEPT ![ns] = v] /\ pod' = [w EXCEPT ![p].pc = "getPod"]
  BY Zenon DEF UpdateConfig
<1>4. CASE Fatal(p) /\ UNCHANGED config
  BY <1>1, <1>2, <1>4, FatalServes, Zenon
<1>5. ASSUME pod[p].fresh, config' = [config EXCEPT ![ns] = v], pod' = [w EXCEPT ![p].pc = "getPod"] PROVE ServeInv'
  <2>1. v # absent
    <3>1. Writes(p)
      BY <1>2, <1>5 DEF Writes
    <3>2. pod[p].found.value \in Nat
      BY <1>1, <3>1, Zenon DEF ConfigInv, ReadIsCurrent, ConfigType
    <3>3. v \in [value : Nat, annotated : BOOLEAN]
      BY <3>2
    <3> QED
      BY <3>3, AbsentAssumption, Zenon
  <2>2. Staled(w, ns)
    BY <1>1, WrittenStaled
  <2> HIDE DEF w, v
  <2>3. config'[ns] # absent /\ \A n \in Namespaces : n # ns => config'[n] = config[n]
    BY <1>1, <1>5, <2>1 DEF ConfigType
  <2>4. GoesOn(w, p, "getPod", w[p].todo)
    <3>1. w = [q \in Pods |-> w[q]] /\ IsPod(w[p])
      BY <2>2, Zenon DEF Staled
    <3> QED
      BY <1>5, <3>1, Zenon DEF GoesOn, IsPod
  <2>5. pod'[p].pc = "getPod" /\ \A q \in Pods : q # p => Same(q)
    BY <1>1, <2>2, <2>4, WriterSame
  <2>6. pod[p].pc \in HasCrds
    BY <1>2 DEF HasCrds
  <2> QED
    BY <1>1, <1>2, <2>3, <2>5, <2>6, ConfigWritten
<1> QED
  BY <1>3, <1>4, <1>5

\* A user writes an EcnetConfig, or commands delete some: the pods of the
\* namespaces where nothing is deleted are where they were.
LEMMA AllSame ==
  ASSUME ServeInv, \A q \in Pods : Same(q) /\ Keeps(NsOf[q]), crd' = [c \in Crds |-> crd'[c]] PROVE ServeInv'
  BY SameServes, Zenon DEF ServeInv, Crds

\* A user's edit.
LEMMA EditServes ==
  ASSUME ConfigInv, ServeInv, NEW ns \in Namespaces, EditConfig(ns) PROVE ServeInv'
<1>1. PodType /\ ConfigType
  BY DEF ConfigInv
<1>2. PICK annotated \in BOOLEAN : config' = [config EXCEPT ![ns] = [value |-> edits + 1, annotated |-> annotated]]
  BY Zenon DEF EditConfig
<1>3. pod' = Written(ns, pod) /\ UNCHANGED <<crd, removed>>
  BY DEF EditConfig
<1>4. [value |-> edits + 1, annotated |-> annotated] # absent
  <2>1. edits + 1 \in Nat
    BY <1>1 DEF ConfigType
  <2>2. [value |-> edits + 1, annotated |-> annotated] \in [value : Nat, annotated : BOOLEAN]
    BY <2>1, Zenon
  <2> QED
    BY <2>2, AbsentAssumption, Zenon
<1>5. \A q \in Pods : Same(q)
  BY <1>1, <1>3, WrittenStaled DEF Staled, Same
<1>6. \A q \in Pods : Keeps(NsOf[q])
  BY <1>1, <1>2, <1>3, <1>4, PodsAssumption DEF Keeps, ConfigType, Pods
<1>7. crd' = [c \in Crds |-> crd'[c]]
  BY <1>3 DEF ServeInv
<1> QED
  BY <1>5, <1>6, <1>7, AllSame

\* The steps of uninstall that delete.
LEMMA UninstallServes ==
  ASSUME ConfigInv, ServeInv, NEW o \in Operators, PostDelete(o) \/ DeleteNs(o) \/ DeleteClusterResources(o)
  PROVE  ServeInv'
<1> DEFINE ns == (CHOOSE m \in cmd[o].seen : TRUE)[1]
<1>1. PodType /\ ConfigType /\ \A q \in Pods : NsOf[q] \in Namespaces
  BY PodsAssumption DEF ConfigInv, Pods
<1>2. ASSUME PostDelete(o) PROVE ServeInv'
  <2>1. /\ crd' = [x \in Crds |-> IF crd[x] = absent THEN absent ELSE "new"]
        /\ config' = [config EXCEPT ![ns] = absent] /\ removed' = removed \cup {ns}
    BY <1>2, Zenon DEF PostDelete
  <2>2. pod' = [p \in Pods |-> [pod[p] EXCEPT !.fresh = @ /\ pod[p].cur \notin Crds \cup {ns}]]
    BY <1>2, Zenon DEF PostDelete
  <2> HIDE DEF ns
  <2>3. \A q \in Pods : Same(q)
    BY <1>1, <2>2, StaleSame, Zenon
  <2>4. ASSUME NEW q \in Pods PROVE Keeps(NsOf[q])
    BY <1>1, <2>1, AbsentAssumption DEF Keeps, ConfigType
  <2> QED
    BY <2>1, <2>3, <2>4, AllSame
<1>3. ASSUME DeleteNs(o) PROVE ServeInv'
  <2>1. \/ UNCHANGED <<config, removed, pod>>
        \/ config' = [config EXCEPT ![ns] = absent] /\ removed' = removed \cup {ns} /\ pod' = Written(ns, pod)
    BY <1>3, Zenon DEF DeleteNs
  <2>2. UNCHANGED crd
    BY <1>3, Zenon DEF DeleteNs
  <2> HIDE DEF ns
  <2>3. \A q \in Pods : Same(q)
    BY <1>1, <2>1, WrittenStaled DEF Staled, Same
  <2>4. ASSUME NEW q \in Pods PROVE Keeps(NsOf[q])
    BY <1>1, <2>1, <2>2, Zenon DEF Keeps, ConfigType
  <2>5. crd' = [c \in Crds |-> crd'[c]]
    BY <2>2 DEF ServeInv
  <2> QED
    BY <2>3, <2>4, <2>5, AllSame
<1>4. ASSUME DeleteClusterResources(o) PROVE ServeInv'
  <2>1. UNCHANGED <<crd, config, removed, pod>> \/ uninstallCustomResourceDefinitions
    BY <1>4, Zenon DEF DeleteClusterResources, uninstallClusterResources
  <2>2. \A q \in Pods : Same(q)
    <3> DEFINE objs == Namespaces \cup {"ecnetconfig"}
    <3>1. UNCHANGED pod \/ pod' = [p \in Pods |-> [pod[p] EXCEPT !.fresh = @ /\ pod[p].cur \notin objs]]
      BY <2>1, Zenon DEF uninstallCustomResourceDefinitions
    <3> HIDE DEF objs
    <3>2. CASE UNCHANGED pod
      BY <3>2 DEF Same
    <3>3. CASE pod' = [p \in Pods |-> [pod[p] EXCEPT !.fresh = @ /\ pod[p].cur \notin objs]]
      BY <1>1, <3>3, StaleSame, Zenon
    <3> QED
      BY <3>1, <3>2, <3>3
  <2>3. \A q \in Pods : Keeps(NsOf[q])
    BY <1>1, <2>1 DEF Keeps, uninstallCustomResourceDefinitions
  <2>4. crd' = [c \in Crds |-> crd'[c]]
    BY <2>1 DEF ServeInv, uninstallCustomResourceDefinitions
  <2> QED
    BY <2>2, <2>3, <2>4, AllSame
<1> QED
  BY <1>2, <1>3, <1>4

\* A deployment launches all pods of its namespace.
LEMMA DeployServes ==
  ASSUME PodType, ServeInv, NEW o \in Operators, Deploy(o) PROVE ServeInv'
<1> DEFINE ns == cmd[o].c.ns
<1>1. UNCHANGED <<crd, config>>
  BY Zenon DEF Deploy
<1>2. crd' = [c \in Crds |-> crd'[c]]
  BY <1>1 DEF ServeInv
<1>3. \/ UNCHANGED <<pod, removed>>
      \/ /\ pod' = [p \in Pods |-> IF NsOf[p] = ns THEN Launched(p) ELSE pod[p]]
         /\ removed' = removed \ {ns}
  BY Zenon DEF Deploy
<1> HIDE DEF ns
<1>4. CASE UNCHANGED <<pod, removed>>
  <2>1. \A q \in Pods : Same(q) /\ Keeps(NsOf[q])
    BY <1>1, <1>4 DEF Same, Keeps
  <2> QED
    BY <1>2, <2>1, AllSame, Zenon
<1>5. CASE /\ pod' = [p \in Pods |-> IF NsOf[p] = ns THEN Launched(p) ELSE pod[p]]
           /\ removed' = removed \ {ns}
  <2>1. ASSUME NEW q \in Pods, NsOf[q] # ns PROVE NsOf[q] \notin removed' => PodServes(q)'
    <3>1. Same(q) /\ Keeps(NsOf[q])
      BY <1>1, <1>5, <2>1, Zenon DEF Same, Keeps
    <3> QED
      BY <3>1, SameServes, Zenon
  <2>2. ASSUME NEW q \in Pods, NsOf[q] = ns PROVE PodServes(q)'
    <3>1. pod'[q] = Launched(q)
      BY <1>5, <2>2, Zenon
    <3>2. CASE q \in Bootstraps
      <4>1. pod'[q] = Started(q)
        BY <3>1, <3>2, Zenon DEF Launched
      <4> QED
        BY <3>2, <4>1, StartedServes
    <3>3. CASE q \notin Bootstraps
      <4>1. pod'[q].pc = "init"
        BY <3>1, <3>3 DEF Launched, Off
      <4> QED
        BY <4>1 DEF PodServes, Checked, HasCrds
    <3> QED
      BY <3>2, <3>3, Zenon
  <2> QED
    BY <1>2, <2>1, <2>2, Zenon DEF ServeInv, Crds
<1> QED
  BY <1>3, <1>4, <1>5

\* At the start every pod serves with what is there, or is off.
LEMMA InitServes == Init => ServeInv
<1> SUFFICES ASSUME Init PROVE ServeInv
  OBVIOUS
<1>1. crd = [c \in Crds |-> crd[c]]
  BY Zenon DEF Init
<1>2. ASSUME NEW p \in Pods PROVE PodServes(p)
  <2>1. NsOf[p] \in Namespaces
    BY PodsAssumption DEF Pods
  <2>2. \/ pod[p].pc = "off"
        \/ /\ pod[p].pc = "ready" /\ \A c \in Crds : crd[c] = "new"
           /\ config[NsOf[p]] = [value |-> 0, annotated |-> TRUE]
    <3> DEFINE of(there, ns) == \E r \in there : r[1] = ns
    <3>1. PICK there \in SUBSET Installed :
            /\ \/ there = {}
               \/ /\ crd = [c \in Crds |-> "new"]
                  /\ config = [ns \in Namespaces |-> IF of(there, ns) THEN [value |-> 0, annotated |-> TRUE] ELSE absent]
            /\ pod = [q \in Pods |-> IF of(there, NsOf[q]) THEN [Off EXCEPT !.pc = "ready"] ELSE Off]
      BY Zenon DEF Init
    <3>2. Off.pc = "off" /\ [Off EXCEPT !.pc = "ready"].pc = "ready"
      BY DEF Off
    <3>3. there = {} => ~of(there, NsOf[p])
      OBVIOUS
    <3> HIDE DEF of
    <3> QED
      BY <2>1, <3>1, <3>2, <3>3, Zenon
  <2>3. [value |-> 0, annotated |-> TRUE] # absent
    <3>1. [value |-> 0, annotated |-> TRUE] \in [value : Nat, annotated : BOOLEAN]
      BY Zenon
    <3> QED
      BY <3>1, AbsentAssumption, Zenon
  <2> QED
    BY <2>2, <2>3 DEF PodServes, Checked, HasCrds
<1> QED
  BY <1>1, <1>2 DEF ServeInv

\* Every step keeps the invariant.
LEMMA NextServes == ConfigInv /\ ServeInv /\ [Next]_vars => ServeInv'
<1> SUFFICES ASSUME ConfigInv, ServeInv, [Next]_vars PROVE ServeInv'
  OBVIOUS
<1>0. PodType
  BY Zenon DEF ConfigInv
<1>1. ASSUME NEW p \in Pods, PodStep(p) \/ RequestFails(p) \/ FatalEvent(p) PROVE ServeInv'
  BY <1>0, <1>1, QuietServes, GetCrdServes, PutCrdServes, GetConfigServes, CreateServes, UpdateServes, Zenon DEF PodStep
<1>2. ASSUME NEW p \in Pods, Terminate(p) PROVE ServeInv'
  <2>1. pod' = [pod EXCEPT ![p] = Off] /\ UNCHANGED <<crd, config, removed>>
    BY <1>2, Zenon DEF Terminate
  <2>2. pod'[p].pc = "off"
    BY <1>0, <2>1, Zenon DEF PodType, Off
  <2>3. PodServes(p)'
    BY <2>2 DEF PodServes, Checked, HasCrds
  <2>4. \E r : pod' = [pod EXCEPT ![p] = r]
    BY <2>1, Zenon
  <2> QED
    BY <1>0, <2>1, <2>3, <2>4, OneServes, Zenon
<1>3. ASSUME NEW ns \in Namespaces, EditConfig(ns) PROVE ServeInv'
  BY <1>3, EditServes
<1>4. ASSUME UNCHANGED <<crd, config, removed, pod>> PROVE ServeInv'
  <2>1. \A q \in Pods : Same(q) /\ Keeps(NsOf[q])
    BY <1>4 DEF Same, Keeps
  <2>2. crd' = [c \in Crds |-> crd'[c]]
    BY <1>4, Zenon DEF ServeInv
  <2> QED
    BY <2>1, <2>2, AllSame, Zenon
<1>5. ASSUME NEW o \in Operators, Step(o) PROVE ServeInv'
  <2>1. CASE Deploy(o)
    BY <1>0, <2>1, DeployServes
  <2>2. CASE PostDelete(o) \/ DeleteNs(o) \/ DeleteClusterResources(o)
    BY <2>2, UninstallServes
  <2>3. CASE \/ Check(o) \/ Upgrade(o) \/ List(o) \/ HelmUninstall(o)
             \/ AddExists(o) \/ AddGetNs(o) \/ AddPatch(o) \/ RemoveGetNs(o) \/ RemovePatch(o) \/ Ignore(o)
    <3>1. UNCHANGED <<crd, config, removed, pod>>
      BY <2>3, Zenon DEF Check, Upgrade, List, HelmUninstall, AddExists, AddGetNs, AddPatch, RemoveGetNs, RemovePatch,
                         Ignore, podVars
    <3> QED
      BY <1>4, <3>1
  <2> QED
    BY <1>5, <2>1, <2>2, <2>3 DEF Step
<1>6. ASSUME NEW o \in Operators, NEW c \in Commands, Run(o, c) PROVE ServeInv'
  BY <1>4, <1>6 DEF Run, podVars
<1>7. CASE UNCHANGED vars
  BY <1>4, <1>7 DEF vars, podVars
<1> QED
  BY <1>1, <1>2, <1>3, <1>5, <1>6, <1>7, Zenon DEF Next

\* For any number of people and pods: a program that serves has found the CRDs
\* of its version and an EcnetConfig, whatever conflicts, failed requests and
\* restarts it went through and whatever is installed elsewhere meanwhile,
\* unless they were deleted since.
THEOREM ServesConfigured == Spec => []ServesOnlyWithConfig
<1>1. ServeInv => ServesOnlyWithConfig
  BY DEF ServeInv, PodServes, ServesOnlyWithConfig, Readiness, At, Checked, HasCrds
<1>2. ConfigInv /\ [Next]_vars => ConfigInv'
  BY NextConfig
<1> QED
  BY <1>1, <1>2, InitConfig, InitServes, NextServes, PTL DEF Spec

=============================================================================
