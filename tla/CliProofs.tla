------------------------------- MODULE CliProofs -------------------------------
(* What the commands keep, for any number of namespaces, pods, operators,       *)
(* commands, faults and edits: what their checks guarantee, and what an         *)
(* uninstallation leaves.                                                       *)
EXTENDS ComponentsProofs

-----------------------------------------------------------------------------
(* The commands: the types of everything, and what each command knows about    *)
(* the cluster between two of its steps.                                        *)

ConfigValues == [value : 0..MaxEdits, annotated : BOOLEAN]

\* The types of what the pods work on.
PodsType ==
  /\ crd \in [Crds -> {"old", "new", absent}]
  /\ \A ns \in Namespaces : config[ns] = absent \/ config[ns] \in ConfigValues
  /\ preset \subseteq Namespaces /\ removed \subseteq Namespaces /\ late \subseteq Namespaces
  /\ faults \in 0..MaxFaults /\ edits \in 0..MaxEdits

ReleaseValues == [status : {"failed", "deployed"}, label : Names, single : BOOLEAN]

ReleaseType ==
  /\ release = [r \in Releases |-> release[r]]
  /\ \A r \in Releases : release[r] = absent \/ release[r] \in ReleaseValues

LabelsType == labels \in [Namespaces -> [monitor : Names \cup {absent}, ignored : BOOLEAN]]

\* What a command uninstalls: a namespace and perhaps a name.
Infos == Namespaces \X (Names \cup {absent})

Named == {"check", "deploy", "upgrade", "exists", "getNsToAdd", "add", "getNs", "remove"}

\* The arguments of a command, by what it does next.
CmdOK(k) ==
  /\ k.pc # "idle" => k.c.ns \in Namespaces
  /\ k.pc = "list" => k.c.name \in Names \cup {absent}
  /\ k.pc \in Named => k.c.name \in Names
  /\ k.pc \in {"check", "deploy"} => k.c.single \in BOOLEAN
  /\ k.todo \subseteq Infos
  /\ k.pc \in {"hook", "deleteNs"} => \E m \in Infos : k.seen = {m}

CmdType == cmd = [o \in Operators |-> cmd[o]] /\ \A o \in Operators : CmdOK(cmd[o])

CountType == count \in 0..MaxCommands

CliType == PodsType /\ ReleaseType /\ LabelsType /\ CountType /\ CmdType

\* A function stays one with values in a set when another of them is put in.
LEMMA PutIn ==
  ASSUME NEW S, NEW T, NEW f \in [S -> T], NEW x, NEW y \in T PROVE [f EXCEPT ![x] = y] \in [S -> T]
  BY Zenon

\* The steps of a pod keep the types: what it writes back it has read.
LEMMA PodTyped ==
  ASSUME ConfigInv, PodsType, NEW p \in Pods, PodStep(p) \/ RequestFails(p) \/ FatalEvent(p) PROVE PodsType'
<1>1. NsOf[p] \in Namespaces /\ config = [ns \in Namespaces |-> config[ns]] /\ MaxFaults \in Nat /\ MaxEdits \in Nat
  BY PodsAssumption, BoundsAssumption DEF ConfigInv, ConfigType, Pods
<1>2. CASE \/ GetCrd(p) \/ GetConfig(p) \/ GetPreset(p) \/ GetPod(p) \/ Initialize(p) \/ InitContainer(p)
           \/ CachesSynced(p) \/ StartController(p) \/ LoadProgs(p) \/ AttachProgs(p)
  <2>1. UNCHANGED <<crd, config, preset, faults, edits, removed, late>>
    BY <1>2, Zenon DEF GetCrd, GetConfig, GetPreset, GetPod, Initialize, InitContainer, CachesSynced, StartController,
                       LoadProgs, AttachProgs
  <2> QED
    BY <2>1 DEF PodsType, Crds
<1>3. CASE RequestFails(p) \/ FatalEvent(p)
  <2>1. UNCHANGED <<crd, config, preset, edits, removed, late>> /\ faults < MaxFaults /\ faults' = faults + 1
    BY <1>3, Zenon DEF RequestFails, FatalEvent
  <2> QED
    BY <1>1, <2>1 DEF PodsType, Crds
<1>4. CASE PutCrd(p)
  <2>1. UNCHANGED <<config, preset, faults, edits, removed, late>>
    BY <1>4, Zenon DEF PutCrd
  <2>2. UNCHANGED crd \/ crd' = [crd EXCEPT ![pod[p].cur] = "new"]
    BY <1>4, Zenon DEF PutCrd
  <2>3. crd' \in [Crds -> {"old", "new", absent}]
    BY <2>2, PutIn DEF PodsType
  <2> QED
    BY <2>1, <2>3 DEF PodsType, Crds
<1>5. CASE CreateDefaultEcnetConfig(p)
  <2>1. UNCHANGED <<crd, preset, faults, edits, removed>>
    BY <1>5, Zenon DEF CreateDefaultEcnetConfig
  <2>2. UNCHANGED config \/ config' = [config EXCEPT ![NsOf[p]] = buildDefaultEcnetConfig]
    BY <1>5 DEF CreateDefaultEcnetConfig
  <2>3. late' \subseteq Namespaces
    BY <1>1, <1>5 DEF CreateDefaultEcnetConfig, PodsType
  <2>4. buildDefaultEcnetConfig \in ConfigValues
    BY <1>1 DEF buildDefaultEcnetConfig, ConfigValues
  <2>5. \A ns \in Namespaces : config'[ns] = absent \/ config'[ns] \in ConfigValues
    BY <1>1, <2>2, <2>4 DEF PodsType
  <2> QED
    BY <2>1, <2>3, <2>5 DEF PodsType, Crds, ConfigValues
<1>6. CASE UpdateConfig(p)
  <2> DEFINE v == [value |-> pod[p].found.value, annotated |-> TRUE]
  <2>1. UNCHANGED <<crd, preset, faults, edits, removed, late>>
    BY <1>6, Zenon DEF UpdateConfig
  <2>2. UNCHANGED config \/ (pod[p].fresh /\ config' = [config EXCEPT ![NsOf[p]] = v])
    BY <1>6, Zenon DEF UpdateConfig
  <2>3. ASSUME pod[p].fresh PROVE v \in ConfigValues
    <3>1. Writes(p)
      BY <1>6, <2>3 DEF Writes, UpdateConfig, At
    <3>2. pod[p].found = config[NsOf[p]] /\ config[NsOf[p]] # absent
      BY <3>1 DEF ConfigInv, ReadIsCurrent
    <3>3. pod[p].found \in ConfigValues
      BY <1>1, <3>2 DEF PodsType
    <3> QED
      BY <3>3 DEF ConfigValues
  <2> HIDE DEF v
  <2>4. \A ns \in Namespaces : config'[ns] = absent \/ config'[ns] \in ConfigValues
    BY <1>1, <2>2, <2>3 DEF PodsType
  <2> QED
    BY <2>1, <2>4 DEF PodsType, Crds, ConfigValues
<1> QED
  BY <1>2, <1>3, <1>4, <1>5, <1>6 DEF PodStep

\* So does a user's edit.
LEMMA EditTyped ==
  ASSUME ConfigInv, PodsType, NEW ns \in Namespaces, EditConfig(ns) PROVE PodsType'
<1>1. config = [n \in Namespaces |-> config[n]] /\ MaxEdits \in Nat
  BY BoundsAssumption DEF ConfigInv, ConfigType
<1>2. PICK annotated \in BOOLEAN : config' = [config EXCEPT ![ns] = [value |-> edits + 1, annotated |-> annotated]]
  BY Zenon DEF EditConfig
<1>3. edits < MaxEdits /\ edits' = edits + 1 /\ UNCHANGED <<crd, preset, faults, removed, late>>
  BY Zenon DEF EditConfig
<1>4. edits + 1 \in 0..MaxEdits
  BY <1>1, <1>3 DEF PodsType
<1>5. [value |-> edits + 1, annotated |-> annotated] \in ConfigValues
  BY <1>4 DEF ConfigValues
<1>6. \A n \in Namespaces : config'[n] = absent \/ config'[n] \in ConfigValues
  BY <1>1, <1>2, <1>5 DEF PodsType
<1> QED
  BY <1>3, <1>4, <1>6 DEF PodsType, Crds, ConfigValues

\* One command goes on.
LEMMA OneCmd ==
  ASSUME CmdType, NEW o \in Operators, NEW k, CmdOK(k), cmd' = [cmd EXCEPT ![o] = k] PROVE CmdType'
<1>1. cmd' = [p \in Operators |-> cmd'[p]] /\ cmd'[o] = k /\ \A p \in Operators : p # o => cmd'[p] = cmd[p]
  BY DEF CmdType
<1>2. \A p \in Operators : CmdOK(cmd'[p])
  BY <1>1, Zenon DEF CmdType
<1>3. ASSUME NEW p \in Operators PROVE CmdOK(cmd[p])'
  BY <1>2, Zenon DEF CmdOK, Infos, Named
<1> QED
  BY <1>1, <1>3, Zenon DEF CmdType

\* Goes, as one record.
Next_(o, pc, seen, todo) == [pc |-> pc, c |-> cmd[o].c, seen |-> seen, todo |-> todo]

\* A command ends, or goes on with the arguments it has.
LEMMA GoesTyped ==
  ASSUME CmdType, NEW o \in Operators, NEW pc, NEW seen, NEW todo,
         Ends(o) \/ (Goes(o, pc, seen, todo) /\ CmdOK(Next_(o, pc, seen, todo)))
  PROVE  CmdType'
<1>1. CASE Ends(o)
  <2>1. CmdOK(Done)
    BY DEF CmdOK, Done, Named
  <2> QED
    BY <1>1, <2>1, OneCmd, Zenon DEF Ends
<1>2. CASE Goes(o, pc, seen, todo) /\ CmdOK(Next_(o, pc, seen, todo))
  <2>1. cmd' = [cmd EXCEPT ![o] = Next_(o, pc, seen, todo)]
    BY <1>2, Zenon DEF Goes, Next_
  <2> QED
    BY <1>2, <2>1, OneCmd, Zenon
<1> QED
  BY <1>1, <1>2

\* What a command line starts with, and the arguments it has there.
LEMMA CommandShape ==
  ASSUME NEW c \in Commands
  PROVE /\ c.ns \in Namespaces
        /\ c.first \in {"check", "upgrade", "list", "exists", "getNs", "ignore"}
        /\ c.first = "list" => c.name \in Names \cup {absent}
        /\ c.first \in {"check", "upgrade", "exists", "getNs"} => c.name \in Names
        /\ c.first = "check" => c.single \in BOOLEAN
<1>1. PICK ns \in Namespaces, name \in Names, x \in BOOLEAN, y \in BOOLEAN, z \in BOOLEAN :
        c \in { newInstallCmd(ns, name, x), newEcnetUpgradeCmd(ns, name),
               newUninstallCniCmd(ns, name, x, y, z), newUninstallCniCmd(ns, absent, x, y, z),
               newNamespaceAdd(ns, name), newNamespaceRemove(ns, name), newNamespaceIgnore(ns) }
  BY CommandsAssumption, Zenon
<1>2. CASE c = newInstallCmd(ns, name, x)
  BY <1>2 DEF newInstallCmd
<1>3. CASE c = newEcnetUpgradeCmd(ns, name)
  BY <1>3 DEF newEcnetUpgradeCmd
<1>4. CASE c = newUninstallCniCmd(ns, name, x, y, z)
  BY <1>4 DEF newUninstallCniCmd
<1>5. CASE c = newUninstallCniCmd(ns, absent, x, y, z)
  BY <1>5 DEF newUninstallCniCmd
<1>6. CASE c = newNamespaceAdd(ns, name)
  BY <1>6 DEF newNamespaceAdd
<1>7. CASE c = newNamespaceRemove(ns, name)
  BY <1>7 DEF newNamespaceRemove
<1>8. CASE c = newNamespaceIgnore(ns)
  BY <1>8 DEF newNamespaceIgnore
<1> QED
  BY <1>1, <1>2, <1>3, <1>4, <1>5, <1>6, <1>7, <1>8, Zenon

\* The arguments of every command that is run.
LEMMA RunTyped ==
  ASSUME CmdType, CountType, NEW o \in Operators, NEW c \in Commands, Run(o, c) PROVE CmdType' /\ CountType'
<1>1. CountType'
  BY CommandsAssumption DEF Run, CountType
<1> DEFINE k == [pc |-> c.first, c |-> c, seen |-> {}, todo |-> {}]
<1>3. c.ns \in Namespaces
  BY CommandShape
<1>4. c.first \in {"check", "upgrade", "list", "exists", "getNs", "ignore"}
  BY CommandShape
<1>5. c.first = "list" => c.name \in Names \cup {absent}
  BY CommandShape
<1>6. c.first \in {"check", "upgrade", "exists", "getNs"} => c.name \in Names
  BY CommandShape
<1>7. c.first = "check" => c.single \in BOOLEAN
  BY CommandShape
<1>8. k.pc = c.first /\ k.c = c /\ k.seen = {} /\ k.todo = {}
  OBVIOUS
<1>9. cmd' = [cmd EXCEPT ![o] = k]
  BY Zenon DEF Run
<1> HIDE DEF k
<1>10. CmdOK(k)
  BY <1>3, <1>4, <1>5, <1>6, <1>7, <1>8 DEF CmdOK, Named
<1> QED
  BY <1>1, <1>9, <1>10, OneCmd, Zenon

\* A command that goes on keeps its arguments.
LEMMA NextOK ==
  ASSUME CmdType, NEW o \in Operators, cmd[o].pc # "idle", NEW pc, NEW seen, NEW todo, todo \subseteq Infos,
         pc # "list", pc \in Named => cmd[o].pc \in Named, pc \in {"check", "deploy"} => cmd[o].pc = "check",
         pc \in {"hook", "deleteNs"} => \E m \in Infos : seen = {m}
  PROVE  CmdOK(Next_(o, pc, seen, todo))
<1> DEFINE k == Next_(o, pc, seen, todo)
<1>1. k.pc = pc /\ k.c = cmd[o].c /\ k.seen = seen /\ k.todo = todo
  BY DEF Next_
<1>2. CmdOK(cmd[o])
  BY DEF CmdType
<1> HIDE DEF k
<1>3. CmdOK(k)
  BY <1>1, <1>2 DEF CmdOK
<1> QED
  BY <1>3 DEF k

\* One release is written or deleted.
LEMMA PutRelease ==
  ASSUME ReleaseType, NEW r, NEW v, v = absent \/ v \in ReleaseValues, release' = [release EXCEPT ![r] = v]
  PROVE  ReleaseType'
<1>1. /\ release' = [q \in Releases |-> release'[q]]
      /\ \A q \in Releases : release'[q] = release[q] \/ release'[q] = v
  BY DEF ReleaseType
<1>2. \A q \in Releases : release'[q] = absent \/ release'[q] \in ReleaseValues
  BY <1>1 DEF ReleaseType
<1> QED
  BY <1>1, <1>2, Zenon DEF ReleaseType, Releases, ReleaseValues

\* helm install and upgrade.
LEMMA InstallTyped ==
  ASSUME CliType, NEW o \in Operators, Check(o) \/ Deploy(o) \/ Upgrade(o) PROVE CliType'
<1> DEFINE c == cmd[o].c
<1>0. CmdType /\ ReleaseType /\ PodsType /\ CmdOK(cmd[o])
  BY DEF CliType, CmdType
<1>1. UNCHANGED <<labels, count, crd, config, faults, edits>>
  BY Zenon DEF Check, Deploy, Upgrade, podVars
<1>2. LabelsType' /\ CountType'
  BY <1>1, Zenon DEF CliType, LabelsType, CountType
<1>3. cmd[o].pc \in {"check", "deploy", "upgrade"}
  BY Zenon DEF Check, Deploy, Upgrade, At_
<1>4. c.ns \in Namespaces /\ c.name \in Names
  BY <1>0, <1>3 DEF CmdOK, Named
<1>5. CmdType'
  <2>1. Ends(o) \/ (Goes(o, "deploy", Enforcing, {}) /\ cmd[o].pc = "check")
    BY Zenon DEF Check, Deploy, Upgrade, At_
  <2>2. CASE Ends(o)
    BY <1>0, <2>2, GoesTyped, Zenon
  <2>3. CASE Goes(o, "deploy", Enforcing, {}) /\ cmd[o].pc = "check"
    <3>1. CmdOK(Next_(o, "deploy", Enforcing, {}))
      BY <1>0, <2>3, NextOK DEF Named
    <3> QED
      BY <1>0, <2>3, <3>1, GoesTyped, Zenon
  <2> QED
    BY <2>1, <2>2, <2>3
<1>6. ReleaseType'
  <2>1. \/ UNCHANGED release
        \/ \E r : release' = [release EXCEPT ![r] = [status |-> "failed", label |-> c.name, single |-> FALSE]]
        \/ (\E r : release' = [release EXCEPT ![r] = resolveValues(c)]) /\ cmd[o].pc = "deploy"
        \/ \E r : release' = [release EXCEPT ![r] = [status |-> "deployed", label |-> "ecnet", single |-> TRUE]]
    BY Zenon DEF Check, Deploy, Upgrade, At_
  <2>2. CASE UNCHANGED release
    BY <1>0, <2>2 DEF ReleaseType, Releases, ReleaseValues
  <2>3. [status |-> "failed", label |-> c.name, single |-> FALSE] \in ReleaseValues
    BY <1>4 DEF ReleaseValues
  <2>4. [status |-> "deployed", label |-> "ecnet", single |-> TRUE] \in ReleaseValues
    BY CommandsAssumption DEF ReleaseValues
  <2>5. cmd[o].pc = "deploy" => resolveValues(c) \in ReleaseValues
    BY <1>0, <1>4, Zenon DEF ReleaseValues, resolveValues, CmdOK
  <2> QED
    BY <1>0, <2>1, <2>2, <2>3, <2>4, <2>5, PutRelease, Zenon
<1>7. PodsType'
  <2>1. UNCHANGED <<preset, removed, late>> \/ (preset' = preset \cup {c.ns} /\ removed' = removed \ {c.ns} /\ late' = late \ {c.ns})
    BY Zenon DEF Check, Deploy, Upgrade, podVars
  <2> QED
    BY <1>0, <1>1, <1>4, <2>1 DEF PodsType, Crds, ConfigValues
<1> QED
  BY <1>2, <1>5, <1>6, <1>7 DEF CliType

\* namespace add, remove and ignore.
LEMMA NamespaceTyped ==
  ASSUME CliType, NEW o \in Operators,
         AddExists(o) \/ AddGetNs(o) \/ AddPatch(o) \/ RemoveGetNs(o) \/ RemovePatch(o) \/ Ignore(o)
  PROVE  CliType'
<1> DEFINE c == cmd[o].c
<1>0. CmdType /\ LabelsType /\ CmdOK(cmd[o])
  BY DEF CliType, CmdType
<1>1. UNCHANGED <<podVars, release, count>>
  BY Zenon DEF AddExists, AddGetNs, AddPatch, RemoveGetNs, RemovePatch, Ignore
<1>2. PodsType' /\ ReleaseType' /\ CountType'
  BY <1>1, Zenon DEF CliType, PodsType, ReleaseType, CountType, podVars, Crds, ConfigValues, Releases, ReleaseValues
<1>3. \E pc \in {"getNsToAdd", "add", "remove"} : Ends(o) \/ (Goes(o, pc, {}, {}) /\ cmd[o].pc \in Named)
  BY Zenon DEF AddExists, AddGetNs, AddPatch, RemoveGetNs, RemovePatch, Ignore, At_, Named
<1>4. cmd[o].pc # "idle"
  BY Zenon DEF AddExists, AddGetNs, AddPatch, RemoveGetNs, RemovePatch, Ignore, At_
<1>5. CmdType'
  <2>1. PICK pc \in {"getNsToAdd", "add", "remove"} : Ends(o) \/ (Goes(o, pc, {}, {}) /\ cmd[o].pc \in Named)
    BY <1>3
  <2>2. cmd[o].pc \in Named => CmdOK(Next_(o, pc, {}, {}))
    BY <1>0, <1>4, NextOK, Zenon
  <2> QED
    BY <1>0, <2>1, <2>2, GoesTyped
<1>6. LabelsType'
  <2>1. \/ UNCHANGED labels
        \/ labels' = [labels EXCEPT ![c.ns].monitor = c.name] /\ cmd[o].pc = "add"
        \/ labels' = [labels EXCEPT ![c.ns] = [monitor |-> absent, ignored |-> FALSE]]
        \/ labels' = [labels EXCEPT ![c.ns].ignored = TRUE]
    BY Zenon DEF AddExists, AddGetNs, AddPatch, RemoveGetNs, RemovePatch, Ignore, At_
  <2>2. cmd[o].pc = "add" => c.name \in Names
    BY <1>0 DEF CmdOK, Named
  <2>3. CASE UNCHANGED labels
    BY <1>0, <2>3 DEF LabelsType
  <2>4. CASE labels' = [labels EXCEPT ![c.ns].monitor = c.name] /\ cmd[o].pc = "add"
    BY <1>0, <2>2, <2>4, Zenon DEF LabelsType
  <2>5. CASE labels' = [labels EXCEPT ![c.ns] = [monitor |-> absent, ignored |-> FALSE]]
    BY <1>0, <2>5, Zenon DEF LabelsType
  <2>6. CASE labels' = [labels EXCEPT ![c.ns].ignored = TRUE]
    BY <1>0, <2>6, Zenon DEF LabelsType
  <2> QED
    BY <2>1, <2>3, <2>4, <2>5, <2>6, Zenon
<1> QED
  BY <1>2, <1>5, <1>6 DEF CliType

\* What uninstall lists.
LEMMA InfosListed ==
  ASSUME ReleaseType PROVE EcnetInfoList \subseteq Infos
<1>1. ASSUME NEW r \in Controllers PROVE <<r[1], release[r].label>> \in Infos
  <2>1. r \in Releases /\ release[r] \in ReleaseValues
    BY <1>1 DEF Controllers, ReleaseType
  <2> QED
    BY <2>1 DEF Releases, ReleaseValues, Infos
<1> QED
  BY <1>1 DEF EcnetInfoList

\* uninstall: the list, and helm uninstall of one of it.
LEMMA ListTyped ==
  ASSUME CliType, NEW o \in Operators, List(o) \/ HelmUninstall(o) PROVE CliType'
<1> DEFINE c == cmd[o].c
<1>0. CmdType /\ ReleaseType /\ PodsType /\ CmdOK(cmd[o])
  BY DEF CliType, CmdType
<1>1. UNCHANGED <<labels, count, crd, config, faults, edits, removed, late>>
  BY Zenon DEF List, HelmUninstall, podVars
<1>2. LabelsType' /\ CountType'
  BY <1>1 DEF CliType, LabelsType, CountType
<1>3. cmd[o].pc \in {"list", "helm"}
  BY Zenon DEF List, HelmUninstall, At_
<1>4. cmd[o].todo \subseteq Infos
  BY <1>0 DEF CmdOK
<1>5. CASE List(o)
  <2>1. UNCHANGED <<podVars, release>> /\ cmd[o].pc = "list"
    BY <1>5, Zenon DEF List, At_
  <2>2. <<c.ns, c.name>> \in Infos
    BY <1>0, <2>1 DEF CmdOK, Infos
  <2>3. Ends(o) \/ \E todo \in SUBSET Infos : Goes(o, "helm", {}, todo)
    <3>1. CASE EcnetInfoList = {} \/ (ecnetSpecified(c) /\ ~findSpecifiedEcnet(c))
      BY <1>5, <3>1, Zenon DEF List
    <3>2. CASE ~(EcnetInfoList = {} \/ (ecnetSpecified(c) /\ ~findSpecifiedEcnet(c)))
      <4>1. CASE c.force
        <5> DEFINE todo == IF Cardinality(EcnetInfoList) = 1 THEN EcnetInfoList ELSE {<<c.ns, c.name>>}
        <5>1. Goes(o, "helm", {}, todo)
          BY <1>5, <3>2, <4>1, Zenon DEF List
        <5>2. todo \subseteq Infos
          BY <1>0, <2>2, InfosListed
        <5> HIDE DEF todo
        <5> QED
          BY <5>1, <5>2
      <4>2. CASE ~c.force
        <5>1. PICK answer \in [promptEcnetUninstall(c) -> confirm] :
                \/ Ends(o)
                \/ Goes(o, "helm", {}, {info \in DOMAIN answer : answer[info] = "y"})
          BY <1>5, <3>2, <4>2, Zenon DEF List
        <5>2. {info \in DOMAIN answer : answer[info] = "y"} \subseteq Infos
          BY <1>0, InfosListed DEF promptEcnetUninstall
        <5> QED
          BY <5>1, <5>2
      <4> QED
        BY <4>1, <4>2
    <3> QED
      BY <3>1, <3>2
  <2>4. CmdType'
    <3>1. ASSUME NEW todo \in SUBSET Infos, Goes(o, "helm", {}, todo) PROVE CmdType'
      <4>1. CmdOK(Next_(o, "helm", {}, todo))
        BY <1>0, <2>1, NextOK DEF Named
      <4> QED
        BY <1>0, <3>1, <4>1, GoesTyped, Zenon
    <3>2. Ends(o) => CmdType'
      BY <1>0, GoesTyped, Zenon
    <3> QED
      BY <2>3, <3>1, <3>2
  <2>5. PodsType' /\ ReleaseType'
    BY <1>0, <2>1 DEF PodsType, ReleaseType, podVars, Crds, ConfigValues, Releases, ReleaseValues
  <2> QED
    BY <1>2, <2>4, <2>5 DEF CliType
<1>6. CASE HelmUninstall(o)
  <2>1. PICK m \in cmd[o].todo :
          \/ /\ release' = [release EXCEPT ![m] = absent] /\ preset' = preset \ {m[1]}
             /\ Goes(o, "hook", {m}, cmd[o].todo \ {m})
          \/ UNCHANGED <<release, preset>> /\ (Goes(o, "deleteNs", {m}, cmd[o].todo \ {m}) \/ Ends(o))
    BY <1>6, Zenon DEF HelmUninstall
  <2>2. m \in Infos /\ cmd[o].todo \ {m} \subseteq Infos
    BY <1>4
  <2>3. ASSUME NEW pc \in {"hook", "deleteNs"}, Goes(o, pc, {m}, cmd[o].todo \ {m}) PROVE CmdType'
    <3>1. CmdOK(Next_(o, pc, {m}, cmd[o].todo \ {m}))
      BY <1>0, <1>3, <2>2, NextOK DEF Named
    <3> QED
      BY <1>0, <2>3, <3>1, GoesTyped, Zenon
  <2>4. Ends(o) => CmdType'
    BY <1>0, GoesTyped, Zenon
  <2>5. CmdType'
    BY <2>1, <2>3, <2>4
  <2>6. ReleaseType'
    <3>1. CASE UNCHANGED release
      BY <1>0, <3>1, Zenon DEF ReleaseType, Releases, ReleaseValues
    <3> QED
      BY <1>0, <2>1, <3>1, PutRelease, Zenon
  <2>7. PodsType'
    BY <1>0, <1>1, <2>1, Zenon DEF PodsType, Crds, ConfigValues
  <2> QED
    BY <1>2, <2>5, <2>6, <2>7 DEF CliType
<1> QED
  BY <1>5, <1>6

\* The ecnet that is being uninstalled.
LEMMA SeenOne ==
  ASSUME CmdType, NEW o \in Operators, cmd[o].pc \in {"hook", "deleteNs"}
  PROVE  \E m \in Infos : cmd[o].seen = {m} /\ (CHOOSE x \in cmd[o].seen : TRUE) = m /\ m[1] \in Namespaces
<1>1. PICK m \in Infos : cmd[o].seen = {m}
  BY DEF CmdType, CmdOK
<1>2. (CHOOSE x \in {m} : TRUE) = m
  OBVIOUS
<1>3. m[1] \in Namespaces
  BY DEF Infos
<1> QED
  BY <1>1, <1>2, <1>3, Zenon

\* uninstall: what is deleted.
LEMMA DeleteTyped ==
  ASSUME ConfigInv, CliType, NEW o \in Operators, PostDelete(o) \/ DeleteNs(o) \/ DeleteClusterResources(o)
  PROVE  CliType'
<1> DEFINE ns == (CHOOSE m \in cmd[o].seen : TRUE)[1]
<1>0. CmdType /\ ReleaseType /\ LabelsType /\ PodsType /\ CmdOK(cmd[o]) /\ config = [n \in Namespaces |-> config[n]]
  BY DEF CliType, CmdType, ConfigInv, ConfigType
<1>1. UNCHANGED <<count, faults, edits, late>>
  BY Zenon DEF PostDelete, DeleteNs, DeleteClusterResources
<1>2. CountType'
  BY <1>1 DEF CliType, CountType
<1>3. ASSUME cmd[o].pc \in {"hook", "deleteNs"} PROVE ns \in Namespaces /\ \E m \in Infos : cmd[o].seen = {m}
  BY <1>0, <1>3, SeenOne, Zenon
<1>4. cmd[o].todo \subseteq Infos
  BY <1>0 DEF CmdOK
<1>5. CASE PostDelete(o)
  <2>1. cmd[o].pc = "hook" /\ UNCHANGED <<preset, release, labels>> /\ Goes(o, "deleteNs", cmd[o].seen, cmd[o].todo)
    BY <1>5, Zenon DEF PostDelete, At_
  <2>2. /\ crd' = [x \in Crds |-> IF crd[x] = absent THEN absent ELSE "new"]
        /\ config' = [config EXCEPT ![ns] = absent] /\ removed' = removed \cup {ns}
    BY <1>5, Zenon DEF PostDelete
  <2>3. CmdOK(Next_(o, "deleteNs", cmd[o].seen, cmd[o].todo))
    BY <1>0, <1>3, <1>4, <2>1, NextOK DEF Named
  <2>4. CmdType'
    BY <1>0, <2>1, <2>3, GoesTyped, Zenon
  <2>5. ns \in Namespaces
    BY <1>3, <2>1
  <2> HIDE DEF ns
  <2>6. crd' \in [Crds -> {"old", "new", absent}] /\ removed' \subseteq Namespaces
    BY <1>0, <2>2, <2>5 DEF PodsType
  <2>7. \A n \in Namespaces : config'[n] = absent \/ config'[n] \in ConfigValues
    BY <1>0, <2>2 DEF PodsType
  <2>8. PodsType'
    BY <1>0, <1>1, <2>1, <2>6, <2>7, Zenon DEF PodsType, Crds, ConfigValues
  <2>9. ReleaseType' /\ LabelsType'
    BY <1>0, <2>1 DEF ReleaseType, LabelsType, Releases, ReleaseValues
  <2> QED
    BY <1>2, <2>4, <2>8, <2>9 DEF CliType
<1>6. CASE DeleteNs(o)
  <2>1. cmd[o].pc = "deleteNs" /\ UNCHANGED crd /\ Goes(o, "helm", {}, cmd[o].todo)
    BY <1>6, Zenon DEF DeleteNs, At_
  <2>2. \/ UNCHANGED <<release, config, labels, preset, removed>>
        \/ /\ release' = [r \in Releases |-> IF r[1] = ns THEN absent ELSE release[r]]
           /\ config' = [config EXCEPT ![ns] = absent]
           /\ labels' = [labels EXCEPT ![ns] = [monitor |-> absent, ignored |-> FALSE]]
           /\ preset' = preset \ {ns} /\ removed' = removed \cup {ns}
    BY <1>6, Zenon DEF DeleteNs
  <2>3. CmdOK(Next_(o, "helm", {}, cmd[o].todo))
    BY <1>0, <1>4, <2>1, NextOK DEF Named
  <2>4. CmdType'
    BY <1>0, <2>1, <2>3, GoesTyped, Zenon
  <2>5. ns \in Namespaces
    BY <1>3, <2>1, Zenon
  <2> HIDE DEF ns
  <2>6. \A n \in Namespaces : config'[n] = absent \/ config'[n] \in ConfigValues
    BY <1>0, <2>2, Zenon DEF PodsType
  <2>7. PodsType'
    BY <1>0, <1>1, <2>1, <2>2, <2>5, <2>6, Zenon DEF PodsType, Crds, ConfigValues
  <2>8. ReleaseType'
    <3>1. release' = [r \in Releases |-> release'[r]] /\ \A r \in Releases : release'[r] \in {absent, release[r]}
      BY <1>0, <2>2 DEF ReleaseType
    <3>2. \A r \in Releases : release'[r] = absent \/ release'[r] \in ReleaseValues
      BY <1>0, <3>1 DEF ReleaseType
    <3> QED
      BY <3>1, <3>2, Zenon DEF ReleaseType, Releases, ReleaseValues
  <2>9. LabelsType'
    <3>1. UNCHANGED labels \/ labels' = [labels EXCEPT ![ns] = [monitor |-> absent, ignored |-> FALSE]]
      BY <2>2
    <3>2. [monitor |-> absent, ignored |-> FALSE] \in [monitor : Names \cup {absent}, ignored : BOOLEAN]
      OBVIOUS
    <3> QED
      BY <1>0, <3>1, <3>2, PutIn, Zenon DEF LabelsType
  <2> QED
    BY <1>2, <2>4, <2>7, <2>8, <2>9 DEF CliType
<1>7. CASE DeleteClusterResources(o)
  <2>1. UNCHANGED <<preset, release, labels>> /\ Ends(o)
    BY <1>7, Zenon DEF DeleteClusterResources
  <2>2. \/ UNCHANGED <<crd, config, removed>>
        \/ /\ crd' = [crd EXCEPT !["ecnetconfig"] = absent] /\ config' = [n \in Namespaces |-> absent]
           /\ removed' = Namespaces
    BY <1>7, Zenon DEF DeleteClusterResources, uninstallClusterResources, uninstallCustomResourceDefinitions
  <2>3. CmdType'
    BY <1>0, <2>1, GoesTyped, Zenon
  <2>4. crd' \in [Crds -> {"old", "new", absent}] /\ removed' \subseteq Namespaces
    BY <1>0, <2>2 DEF PodsType
  <2>5. \A n \in Namespaces : config'[n] = absent \/ config'[n] \in ConfigValues
    BY <1>0, <2>2, Zenon DEF PodsType
  <2>6. PodsType'
    BY <1>0, <1>1, <2>1, <2>4, <2>5, Zenon DEF PodsType, Crds, ConfigValues
  <2>7. ReleaseType' /\ LabelsType'
    BY <1>0, <2>1 DEF ReleaseType, LabelsType, Releases, ReleaseValues
  <2> QED
    BY <1>2, <2>3, <2>6, <2>7 DEF CliType
<1> QED
  BY <1>5, <1>6, <1>7, Zenon

\* At the start.
LEMMA InitTyped == Init => CliType
<1> SUFFICES ASSUME Init PROVE CliType
  OBVIOUS
<1> DEFINE of(there, ns) == \E r \in there : r[1] = ns
<1>1. PICK there \in SUBSET Installed :
        /\ \/ crd = [c \in Crds |-> absent] /\ config = [ns \in Namespaces |-> absent]
           \/ /\ crd = [c \in Crds |-> "old"]
              /\ config = [ns \in Namespaces |-> [value |-> 0, annotated |-> FALSE]]
           \/ /\ crd = [c \in Crds |-> "new"]
              /\ config = [ns \in Namespaces |-> IF of(there, ns) THEN [value |-> 0, annotated |-> TRUE] ELSE absent]
        /\ preset = {ns \in Namespaces : of(there, ns)}
        /\ release = [r \in Releases |-> IF r \in there THEN [status |-> "deployed", label |-> r[2], single |-> FALSE]
                                         ELSE absent]
  BY Zenon DEF Init
<1> HIDE DEF of
<1>2. /\ faults = 0 /\ edits = 0 /\ removed = {} /\ late = {} /\ count = 0
      /\ labels = [ns \in Namespaces |-> [monitor |-> absent, ignored |-> FALSE]]
      /\ cmd = [o \in Operators |-> Done]
  BY Zenon DEF Init
<1>3. {MaxFaults, MaxEdits, MaxCommands} \subseteq Nat
  BY BoundsAssumption, CommandsAssumption
<1>4. 0 \in 0..MaxFaults /\ 0 \in 0..MaxEdits /\ 0 \in 0..MaxCommands
  BY <1>3
<1>5. \A b \in BOOLEAN : [value |-> 0, annotated |-> b] \in ConfigValues
  BY <1>4 DEF ConfigValues
<1>6. \A ns \in Namespaces : config[ns] = absent \/ config[ns] \in ConfigValues
  BY <1>1, <1>5, Zenon
<1>7. PodsType
  BY <1>1, <1>2, <1>4, <1>6, Zenon DEF PodsType
<1>8. ReleaseType
  <2>1. \A r \in Releases : [status |-> "deployed", label |-> r[2], single |-> FALSE] \in ReleaseValues
    BY DEF Releases, ReleaseValues
  <2> QED
    BY <1>1, <2>1 DEF ReleaseType
<1>9. LabelsType /\ CountType
  BY <1>2, <1>4, Zenon DEF LabelsType, CountType
<1>10. CmdType
  BY <1>2 DEF CmdType, CmdOK, Done, Named
<1> QED
  BY <1>7, <1>8, <1>9, <1>10 DEF CliType

\* Every step keeps the types.
LEMMA NextTyped == ConfigInv /\ CliType /\ [Next]_vars => CliType'
<1> SUFFICES ASSUME ConfigInv, CliType, [Next]_vars PROVE CliType'
  OBVIOUS
<1>1. ASSUME UNCHANGED cliVars, PodsType' PROVE CliType'
  <2>1. ReleaseType' /\ LabelsType' /\ CountType'
    BY <1>1, Zenon DEF cliVars, CliType, ReleaseType, LabelsType, CountType, Releases, ReleaseValues
  <2>2. CmdType'
    BY <1>1 DEF cliVars, CliType, CmdType, CmdOK, Infos, Named
  <2> QED
    BY <1>1, <2>1, <2>2 DEF CliType
<1>2. PodsType
  BY Zenon DEF CliType
<1>3. ASSUME UNCHANGED <<crd, config, preset, faults, edits, removed, late>> PROVE PodsType'
  BY <1>2, <1>3 DEF PodsType, Crds, ConfigValues
<1>4. ASSUME NEW p \in Pods, (PodStep(p) \/ RequestFails(p) \/ FatalEvent(p)) /\ UNCHANGED cliVars PROVE CliType'
  BY <1>1, <1>2, <1>4, PodTyped, Zenon
<1>5. ASSUME NEW p \in Pods, Terminate(p) PROVE CliType'
  BY <1>1, <1>3, <1>5 DEF Terminate, cliVars
<1>6. ASSUME NEW ns \in Namespaces, EditConfig(ns) /\ UNCHANGED cliVars PROVE CliType'
  BY <1>1, <1>2, <1>6, EditTyped, Zenon
<1>7. ASSUME NEW o \in Operators, NEW c \in Commands, Run(o, c) PROVE CliType'
  <2>1. UNCHANGED <<podVars, release, labels>>
    BY <1>7 DEF Run
  <2>2. ReleaseType' /\ LabelsType'
    BY <2>1 DEF CliType, ReleaseType, LabelsType, Releases, ReleaseValues
  <2>3. CmdType' /\ CountType'
    BY <1>7, RunTyped DEF CliType
  <2>4. PodsType'
    BY <1>3, <2>1 DEF podVars
  <2> QED
    BY <2>2, <2>3, <2>4, Zenon DEF CliType
<1>8. ASSUME NEW o \in Operators, Step(o) PROVE CliType'
  BY <1>8, InstallTyped, ListTyped, DeleteTyped, NamespaceTyped, Zenon DEF Step
<1>9. CASE UNCHANGED vars
  BY <1>1, <1>3, <1>9 DEF vars, podVars
<1> QED
  BY <1>4, <1>5, <1>6, <1>7, <1>8, <1>9, Zenon DEF Next

\* One release is deployed.
LEMMA Deployed ==
  ASSUME ReleaseType, NEW r \in Releases, NEW v \in ReleaseValues, v.status = "deployed",
         release' = [release EXCEPT ![r] = v]
  PROVE  Controllers' = Controllers \cup {r} /\ release'[r] = v /\ \A q \in Controllers : q # r => release'[q] = release[q]
<1>1. \A q \in Releases : release'[q] = IF q = r THEN v ELSE release[q]
  BY DEF ReleaseType
<1>2. v # absent
  BY InstalledAssumption DEF ReleaseValues
<1>3. Releases' = Releases
  BY DEF Releases
<1> QED
  BY <1>1, <1>2, <1>3 DEF Controllers

-----------------------------------------------------------------------------
(* What an uninstallation leaves.                                              *)

Owned(ns) == \E r \in Controllers : r[1] = ns
Hooked(ns) == \E o \in Operators : cmd[o].pc = "hook" /\ \E m \in cmd[o].seen : m[1] = ns

\* Whose an EcnetConfig is in a namespace where one was deleted.
Accounted(ns) ==
  config[ns] # absent /\ ns \in removed => ns \in late \/ edits # 0 \/ Owned(ns) \/ Hooked(ns)

\* The preset is part of the release.
CleanInv == (\A ns \in preset : Owned(ns)) /\ \A ns \in Namespaces : Accounted(ns)

\* Nothing is created: what was somebody's still is.
LEMMA StillAccounted ==
  ASSUME NEW ns \in Namespaces, Accounted(ns), config'[ns] # absent => config[ns] # absent,
         ns \in removed' => ns \in removed /\ (ns \in late => ns \in late'),
         edits' = edits, Owned(ns) => Owned(ns)' \/ Hooked(ns)', Hooked(ns) => Hooked(ns)'
  PROVE  Accounted(ns)'
  BY DEF Accounted

\* A command that runs no hook goes on.
LEMMA HookKept ==
  ASSUME CmdType, NEW o \in Operators, cmd[o].pc # "hook", NEW k, cmd' = [cmd EXCEPT ![o] = k], NEW ns, Hooked(ns)
  PROVE  Hooked(ns)'
<1>1. PICK p \in Operators : cmd[p].pc = "hook" /\ \E m \in cmd[p].seen : m[1] = ns
  BY DEF Hooked
<1>2. cmd'[p] = cmd[p]
  BY <1>1 DEF CmdType
<1> QED
  BY <1>1, <1>2 DEF Hooked

\* A command ends or goes on from elsewhere than the hook.
LEMMA GoesHook ==
  ASSUME CmdType, NEW o \in Operators, cmd[o].pc # "hook", NEW pc, NEW seen, NEW todo,
         Ends(o) \/ Goes(o, pc, seen, todo), NEW ns, Hooked(ns)
  PROVE  Hooked(ns)'
<1>1. cmd' = [cmd EXCEPT ![o] = Done] \/ cmd' = [cmd EXCEPT ![o] = Next_(o, pc, seen, todo)]
  BY Zenon DEF Ends, Goes, Next_
<1> QED
  BY <1>1, HookKept, Zenon

\* The steps of the pods: only createDefaultEcnetConfig creates one, from the
\* preset.
LEMMA PodClean ==
  ASSUME ConfigInv, CleanInv, NEW p \in Pods, PodStep(p) \/ RequestFails(p) \/ FatalEvent(p), UNCHANGED cliVars
  PROVE  CleanInv'
<1>0. UNCHANGED <<preset, removed, edits, release, cmd>>
  BY Zenon DEF PodStep, RequestFails, FatalEvent, GetCrd, PutCrd, GetConfig, GetPreset, CreateDefaultEcnetConfig,
         UpdateConfig, GetPod, Initialize, InitContainer, CachesSynced, StartController, LoadProgs, AttachProgs, cliVars
<1>1. \A ns : (Owned(ns)' <=> Owned(ns)) /\ (Hooked(ns)' <=> Hooked(ns))
  BY <1>0 DEF Owned, Hooked, Controllers, Releases
<1>2. ASSUME NEW ns \in Namespaces PROVE Accounted(ns)'
  <2>0. Accounted(ns) /\ config = [n \in Namespaces |-> config[n]]
    BY DEF CleanInv, ConfigInv, ConfigType
  <2>1. CASE CreateDefaultEcnetConfig(p)
    <3>1. late \subseteq late' /\ (config'[ns] # absent /\ config[ns] = absent => ns \in preset \/ ns \in late')
      BY <2>0, <2>1 DEF CreateDefaultEcnetConfig
    <3>2. ns \in preset => Owned(ns)
      BY DEF CleanInv
    <3> QED
      BY <1>0, <1>1, <2>0, <3>1, <3>2, Zenon DEF Accounted
  <2>2. CASE UpdateConfig(p)
    <3>1. UNCHANGED late
      BY <2>2, Zenon DEF UpdateConfig
    <3>2. config'[ns] # absent => config[ns] # absent
      <4> DEFINE v == [value |-> pod[p].found.value, annotated |-> TRUE]
      <4>1. UNCHANGED config \/ (config[NsOf[p]] # absent /\ config' = [config EXCEPT ![NsOf[p]] = v])
        BY <2>2, Zenon DEF UpdateConfig
      <4> HIDE DEF v
      <4> QED
        BY <2>0, <4>1
    <3> QED
      BY <1>0, <1>1, <2>0, <3>1, <3>2, StillAccounted, Zenon
  <2>3. CASE ~CreateDefaultEcnetConfig(p) /\ ~UpdateConfig(p)
    <3>1. UNCHANGED <<config, late>>
      BY <2>3 DEF PodStep, RequestFails, FatalEvent, GetCrd, PutCrd, GetConfig, GetPreset, GetPod, Initialize,
                  InitContainer, CachesSynced, StartController, LoadProgs, AttachProgs
    <3> QED
      BY <1>0, <1>1, <2>0, <3>1, StillAccounted, Zenon
  <2> QED
    BY <2>1, <2>2, <2>3
<1>3. \A ns \in preset' : Owned(ns)'
  BY <1>0, <1>1 DEF CleanInv
<1> QED
  BY <1>2, <1>3, Zenon DEF CleanInv

\* The steps of the commands that only add to the ecnets.
LEMMA AddClean ==
  ASSUME CliType, CleanInv, NEW o \in Operators,
         \/ Check(o) \/ Deploy(o) \/ Upgrade(o) \/ List(o)
         \/ AddExists(o) \/ AddGetNs(o) \/ AddPatch(o) \/ RemoveGetNs(o) \/ RemovePatch(o) \/ Ignore(o)
  PROVE  CleanInv'
<1> DEFINE c == cmd[o].c
           r == <<c.ns, c.name>>
<1>0. CmdType /\ ReleaseType /\ CmdOK(cmd[o])
  BY DEF CliType, CmdType
<1>1. UNCHANGED <<config, edits>>
  BY Zenon DEF Check, Deploy, Upgrade, List, AddExists, AddGetNs, AddPatch, RemoveGetNs, RemovePatch, Ignore, podVars
<1>2. \A ns : Hooked(ns) => Hooked(ns)'
  <2>1. cmd[o].pc # "hook"
    BY Zenon DEF Check, Deploy, Upgrade, List, AddExists, AddGetNs, AddPatch, RemoveGetNs, RemovePatch, Ignore, At_
  <2>2. \E pc, seen, todo : Ends(o) \/ Goes(o, pc, seen, todo)
    BY Zenon DEF Check, Deploy, Upgrade, List, AddExists, AddGetNs, AddPatch, RemoveGetNs, RemovePatch, Ignore
  <2> QED
    BY <1>0, <2>1, <2>2, GoesHook, Zenon
<1>3. \/ UNCHANGED <<release, preset, removed, late>>
      \/ /\ release[r] = absent /\ UNCHANGED <<preset, removed, late>>
         /\ release' = [release EXCEPT ![r] = [status |-> "failed", label |-> c.name, single |-> FALSE]]
      \/ /\ cmd[o].pc = "deploy" /\ release' = [release EXCEPT ![r] = resolveValues(c)]
         /\ preset' = preset \cup {c.ns} /\ removed' = removed \ {c.ns} /\ late' = late \ {c.ns}
      \/ /\ r \in Controllers /\ UNCHANGED <<preset, removed, late>>
         /\ release' = [release EXCEPT ![r] = [status |-> "deployed", label |-> "ecnet", single |-> TRUE]]
  <2>1. CASE Check(o)
    BY <2>1, Zenon DEF Check, podVars
  <2>2. CASE Deploy(o)
    BY <2>2, Zenon DEF Deploy, At_
  <2>3. CASE Upgrade(o)
    BY <2>3, Zenon DEF Upgrade, podVars
  <2>4. CASE ~Check(o) /\ ~Deploy(o) /\ ~Upgrade(o)
    BY <2>4, Zenon DEF List, AddExists, AddGetNs, AddPatch, RemoveGetNs, RemovePatch, Ignore, podVars
  <2> QED
    BY <2>1, <2>2, <2>3, <2>4, Zenon
<1>4. Controllers \subseteq Controllers' /\ \A ns \in preset' : ns \in preset \/ \E q \in Controllers' : q[1] = ns
  <2>1. CASE UNCHANGED <<release, preset>>
    BY <2>1, Zenon DEF Controllers, Releases
  <2>2. CASE /\ release[r] = absent /\ UNCHANGED preset
             /\ release' = [release EXCEPT ![r] = [status |-> "failed", label |-> c.name, single |-> FALSE]]
    <3>1. \A q \in Controllers : q # r /\ release'[q] = release[q]
      BY <1>0, <2>2, Zenon DEF Controllers, ReleaseType
    <3> QED
      BY <2>2, <3>1, Zenon DEF Controllers, Releases
  <2>3. CASE /\ cmd[o].pc = "deploy" /\ release' = [release EXCEPT ![r] = resolveValues(c)] /\ preset' = preset \cup {c.ns}
    <3>1. r \in Releases /\ r[1] = c.ns
      BY <1>0, <2>3, Zenon DEF CmdOK, Named, Releases
    <3>2. resolveValues(c) \in ReleaseValues /\ resolveValues(c).status = "deployed"
      BY <1>0, <2>3 DEF CmdOK, Named, ReleaseValues, resolveValues
    <3>3. Controllers' = Controllers \cup {r}
      BY <1>0, <2>3, <3>1, <3>2, Deployed, Zenon
    <3> HIDE DEF r
    <3> QED
      BY <2>3, <3>1, <3>3
  <2>4. CASE /\ r \in Controllers /\ UNCHANGED preset
             /\ release' = [release EXCEPT ![r] = [status |-> "deployed", label |-> "ecnet", single |-> TRUE]]
    <3> DEFINE v == [status |-> "deployed", label |-> "ecnet", single |-> TRUE]
    <3>1. r \in Releases /\ v \in ReleaseValues /\ v.status = "deployed"
      BY <2>4, CommandsAssumption, Zenon DEF Controllers, ReleaseValues
    <3>2. release' = [release EXCEPT ![r] = v] /\ UNCHANGED preset
      BY <2>4
    <3> HIDE DEF r, v
    <3>3. Controllers' = Controllers \cup {r}
      BY <1>0, <3>1, <3>2, Deployed, Zenon
    <3> QED
      BY <3>2, <3>3, Zenon
  <2> QED
    BY <1>3, <2>1, <2>2, <2>3, <2>4, Zenon
<1>5. \A ns : Owned(ns) => Owned(ns)'
  BY <1>4 DEF Owned
<1>6. \A ns \in preset' : Owned(ns)'
  BY <1>4, <1>5, Zenon DEF CleanInv, Owned
<1>7. ASSUME NEW ns \in Namespaces PROVE Accounted(ns)'
  <2>1. Accounted(ns)
    BY Zenon DEF CleanInv
  <2>2. ns \in removed' => ns \in removed /\ (ns \in late => ns \in late')
    BY <1>3, Zenon
  <2> QED
    BY <1>1, <1>2, <1>5, <2>1, <2>2, StillAccounted, Zenon
<1> QED
  BY <1>6, <1>7, Zenon DEF CleanInv

\* helm uninstall: the post-delete hook is still to come.
LEMMA HelmClean ==
  ASSUME CliType, CleanInv, NEW o \in Operators, HelmUninstall(o) PROVE CleanInv'
<1>0. CmdType /\ ReleaseType /\ cmd[o].pc = "helm" /\ UNCHANGED <<config, edits, removed, late>>
  BY Zenon DEF CliType, HelmUninstall, At_
<1>1. PICK m \in cmd[o].todo :
        \/ /\ release' = [release EXCEPT ![m] = absent] /\ preset' = preset \ {m[1]}
           /\ Goes(o, "hook", {m}, cmd[o].todo \ {m})
        \/ UNCHANGED <<release, preset>> /\ (Goes(o, "deleteNs", {m}, cmd[o].todo \ {m}) \/ Ends(o))
  BY Zenon DEF HelmUninstall
<1>2. \A ns : Hooked(ns) => Hooked(ns)'
  <2>1. \E pc, seen, todo : Ends(o) \/ Goes(o, pc, seen, todo)
    BY <1>1, Zenon
  <2>2. cmd[o].pc # "hook"
    BY <1>0
  <2> QED
    BY <1>0, <2>1, <2>2, GoesHook, Zenon
<1>3. CASE /\ release' = [release EXCEPT ![m] = absent] /\ preset' = preset \ {m[1]}
           /\ Goes(o, "hook", {m}, cmd[o].todo \ {m})
  <2>1. \A r \in Controllers : r # m => r \in Controllers'
    BY <1>0, <1>3 DEF Controllers, ReleaseType, Releases
  <2>2. \A ns : Owned(ns) /\ ns # m[1] => Owned(ns)'
    BY <2>1, Zenon DEF Owned
  <2>3. Hooked(m[1])'
    <3>1. cmd' = [cmd EXCEPT ![o] = Next_(o, "hook", {m}, cmd[o].todo \ {m})]
      BY <1>3, Zenon DEF Goes, Next_
    <3>2. cmd'[o].pc = "hook" /\ cmd'[o].seen = {m}
      BY <1>0, <3>1, Zenon DEF CmdType, Next_
    <3> QED
      BY <3>2 DEF Hooked
  <2>4. \A ns \in preset' : Owned(ns)'
    BY <1>3, <2>2, Zenon DEF CleanInv
  <2>5. ASSUME NEW ns \in Namespaces PROVE Accounted(ns)'
    BY <1>0, <1>2, <2>2, <2>3, StillAccounted, Zenon DEF CleanInv
  <2> QED
    BY <2>4, <2>5, Zenon DEF CleanInv
<1>4. CASE UNCHANGED <<release, preset>>
  <2>1. \A ns : Owned(ns)' <=> Owned(ns)
    BY <1>4 DEF Owned, Controllers, Releases
  <2>2. \A ns \in preset' : Owned(ns)'
    BY <1>4, <2>1, Zenon DEF CleanInv
  <2>3. ASSUME NEW ns \in Namespaces PROVE Accounted(ns)'
    BY <1>0, <1>2, <2>1, StillAccounted, Zenon DEF CleanInv
  <2> QED
    BY <2>2, <2>3, Zenon DEF CleanInv
<1> QED
  BY <1>1, <1>3, <1>4

\* The hook, and the deletion of a namespace and of the CRDs: what they leave
\* without an ecnet has no EcnetConfig.
LEMMA DeleteClean ==
  ASSUME ConfigInv, CliType, CleanInv, NEW o \in Operators, PostDelete(o) \/ DeleteNs(o) \/ DeleteClusterResources(o)
  PROVE  CleanInv'
<1>0. CmdType /\ ReleaseType /\ PodsType /\ config = [n \in Namespaces |-> config[n]] /\ UNCHANGED <<edits, late>>
  BY Zenon DEF CliType, ConfigInv, ConfigType, PostDelete, DeleteNs, DeleteClusterResources
<1>1. CASE PostDelete(o)
  <2>1. cmd[o].pc = "hook" /\ UNCHANGED <<preset, release>> /\ Goes(o, "deleteNs", cmd[o].seen, cmd[o].todo)
    BY <1>1, Zenon DEF PostDelete, At_
  <2>2. PICK m \in Infos : cmd[o].seen = {m} /\ (CHOOSE x \in cmd[o].seen : TRUE) = m /\ m[1] \in Namespaces
    BY <1>0, <2>1, SeenOne
  <2>3. config' = [config EXCEPT ![m[1]] = absent] /\ removed' = removed \cup {m[1]}
    BY <1>1, <2>2, Zenon DEF PostDelete
  <2>4. \A ns : Owned(ns)' <=> Owned(ns)
    BY <2>1 DEF Owned, Controllers, Releases
  <2>5. ASSUME NEW ns, ns # m[1], Hooked(ns) PROVE Hooked(ns)'
    <3>1. PICK p \in Operators : cmd[p].pc = "hook" /\ \E x \in cmd[p].seen : x[1] = ns
      BY <2>5 DEF Hooked
    <3>2. p # o
      BY <2>2, <2>5, <3>1, Zenon
    <3>3. cmd'[p] = cmd[p]
      BY <1>0, <2>1, <3>2 DEF CmdType, Goes
    <3> QED
      BY <3>1, <3>3, Zenon DEF Hooked
  <2>6. ASSUME NEW ns \in Namespaces PROVE Accounted(ns)'
    <3>1. CASE ns = m[1]
      BY <1>0, <2>3, <3>1 DEF Accounted
    <3>2. CASE ns # m[1]
      <4>1. config'[ns] = config[ns] /\ (ns \in removed' => ns \in removed)
        BY <1>0, <2>3, <3>2, Zenon
      <4> QED
        BY <1>0, <2>4, <2>5, <3>2, <4>1, StillAccounted, Zenon DEF CleanInv
    <3> QED
      BY <3>1, <3>2
  <2>7. \A ns \in preset' : Owned(ns)'
    BY <2>1, <2>4 DEF CleanInv
  <2> QED
    BY <2>6, <2>7, Zenon DEF CleanInv
<1>2. ASSUME cmd[o].pc # "hook", NEW pc, NEW seen, NEW todo, Ends(o) \/ Goes(o, pc, seen, todo),
             UNCHANGED <<release, preset>>,
             \A ns \in Namespaces : config'[ns] # absent => config'[ns] = config[ns] /\ (ns \in removed' => ns \in removed)
      PROVE  CleanInv'
  <2>1. \A ns : Owned(ns)' <=> Owned(ns)
    BY <1>2 DEF Owned, Controllers, Releases
  <2>2. \A ns : Hooked(ns) => Hooked(ns)'
    BY <1>0, <1>2, GoesHook, Zenon
  <2>3. ASSUME NEW ns \in Namespaces PROVE Accounted(ns)'
    BY <1>0, <1>2, <2>1, <2>2, Zenon DEF CleanInv, Accounted
  <2>4. \A ns \in preset' : Owned(ns)'
    BY <1>2, <2>1, Zenon DEF CleanInv
  <2> QED
    BY <2>3, <2>4, Zenon DEF CleanInv
<1>3. CASE DeleteNs(o)
  <2> DEFINE n == (CHOOSE m \in cmd[o].seen : TRUE)[1]
  <2>1. cmd[o].pc = "deleteNs" /\ Goes(o, "helm", {}, cmd[o].todo)
    BY <1>3, Zenon DEF DeleteNs, At_
  <2>2. \/ UNCHANGED <<release, config, preset, removed>>
        \/ /\ release' = [r \in Releases |-> IF r[1] = n THEN absent ELSE release[r]]
           /\ config' = [config EXCEPT ![n] = absent]
           /\ preset' = preset \ {n} /\ removed' = removed \cup {n}
    BY <1>3, Zenon DEF DeleteNs
  <2> HIDE DEF n
  <2>3. CASE UNCHANGED <<release, config, preset, removed>>
    BY <1>2, <2>1, <2>3, Zenon
  <2>4. CASE /\ release' = [r \in Releases |-> IF r[1] = n THEN absent ELSE release[r]]
             /\ config' = [config EXCEPT ![n] = absent]
             /\ preset' = preset \ {n} /\ removed' = removed \cup {n}
    <3>1. \A r \in Controllers : r[1] # n => r \in Controllers'
      BY <2>4 DEF Controllers, Releases
    <3>2. \A ns : Owned(ns) /\ ns # n => Owned(ns)'
      BY <3>1 DEF Owned
    <3>3. \A ns : Hooked(ns) => Hooked(ns)'
      <4>1. cmd[o].pc # "hook"
        BY <2>1
      <4> QED
        BY <1>0, <2>1, <4>1, GoesHook, Zenon
    <3>4. ASSUME NEW ns \in Namespaces PROVE Accounted(ns)'
      <4>1. CASE ns = n
        BY <1>0, <2>4, <4>1, Zenon DEF Accounted
      <4>2. CASE ns # n
        <5>1. config'[ns] = config[ns] /\ (ns \in removed' => ns \in removed)
          BY <1>0, <2>4, <4>2, Zenon
        <5> QED
          BY <1>0, <3>2, <3>3, <4>2, <5>1, StillAccounted, Zenon DEF CleanInv
      <4> QED
        BY <4>1, <4>2
    <3>5. \A ns \in preset' : Owned(ns)'
      BY <2>4, <3>2 DEF CleanInv
    <3> QED
      BY <3>4, <3>5, Zenon DEF CleanInv
  <2> QED
    BY <2>2, <2>3, <2>4, Zenon
<1>4. CASE DeleteClusterResources(o)
  <2>1. UNCHANGED <<preset, release>> /\ Ends(o) /\ cmd[o].pc = "helm"
    BY <1>4, Zenon DEF DeleteClusterResources, At_
  <2>2. UNCHANGED <<config, removed>> \/ config' = [n \in Namespaces |-> absent]
    BY <1>4, Zenon DEF DeleteClusterResources, uninstallClusterResources, uninstallCustomResourceDefinitions
  <2>3. \A ns \in Namespaces : config'[ns] # absent => config'[ns] = config[ns] /\ (ns \in removed' => ns \in removed)
    BY <2>2, Zenon
  <2>4. cmd[o].pc # "hook"
    BY <2>1
  <2> QED
    BY <1>2, <2>1, <2>3, <2>4, Zenon
<1> QED
  BY <1>1, <1>3, <1>4

\* At the start nothing has been removed.
LEMMA InitClean == Init => CleanInv
<1> SUFFICES ASSUME Init PROVE CleanInv
  OBVIOUS
<1>1. PICK there \in SUBSET Installed :
        /\ preset = {ns \in Namespaces : \E r \in there : r[1] = ns}
        /\ release = [r \in Releases |-> IF r \in there THEN [status |-> "deployed", label |-> r[2], single |-> FALSE]
                                         ELSE absent]
  BY Zenon DEF Init
<1>2. \A r \in there : r \in Releases
  BY InstalledAssumption
<1>3. \A r \in Releases : [status |-> "deployed", label |-> r[2], single |-> FALSE] # absent
  <2>1. \A r \in Releases : [status |-> "deployed", label |-> r[2], single |-> FALSE] \in ReleaseValues
    BY DEF Releases, ReleaseValues
  <2> QED
    BY <2>1, InstalledAssumption, Zenon DEF ReleaseValues
<1>4. \A r \in there : r \in Controllers
  BY <1>1, <1>2, <1>3, Zenon DEF Controllers
<1>5. \A ns \in preset : Owned(ns)
  BY <1>1, <1>4 DEF Owned
<1>6. removed = {}
  BY DEF Init
<1> QED
  BY <1>5, <1>6 DEF CleanInv, Accounted

\* Every step keeps the invariant.
LEMMA NextClean == ConfigInv /\ CliType /\ CleanInv /\ [Next]_vars => CleanInv'
<1> SUFFICES ASSUME ConfigInv, CliType, CleanInv, [Next]_vars PROVE CleanInv'
  OBVIOUS
<1>1. ASSUME UNCHANGED <<preset, release>>, \A ns : Hooked(ns) => Hooked(ns)',
             edits' # 0 \/ UNCHANGED <<config, removed, late, edits>>
      PROVE  CleanInv'
  <2>1. \A ns : Owned(ns)' <=> Owned(ns)
    BY <1>1 DEF Owned, Controllers, Releases
  <2>2. \A ns \in preset' : Owned(ns)'
    BY <1>1, <2>1 DEF CleanInv
  <2>3. ASSUME NEW ns \in Namespaces PROVE Accounted(ns)'
    BY <1>1, <2>1, Zenon DEF CleanInv, Accounted
  <2> QED
    BY <2>2, <2>3, Zenon DEF CleanInv
<1>2. ASSUME UNCHANGED cmd PROVE \A ns : Hooked(ns) => Hooked(ns)'
  BY <1>2 DEF Hooked
<1>3. ASSUME NEW p \in Pods, (PodStep(p) \/ RequestFails(p) \/ FatalEvent(p)) /\ UNCHANGED cliVars PROVE CleanInv'
  BY <1>3, PodClean, Zenon
<1>4. ASSUME NEW p \in Pods, Terminate(p) PROVE CleanInv'
  BY <1>1, <1>2, <1>4, Zenon DEF Terminate, cliVars
<1>5. ASSUME NEW ns \in Namespaces, EditConfig(ns) /\ UNCHANGED cliVars PROVE CleanInv'
  <2>1. edits' # 0 /\ UNCHANGED <<preset, release, cmd>>
    BY <1>5 DEF EditConfig, cliVars, ConfigInv, ConfigType
  <2> QED
    BY <1>1, <1>2, <2>1, Zenon
<1>6. ASSUME NEW o \in Operators, NEW c \in Commands, Run(o, c) PROVE CleanInv'
  <2>1. cmd[o].pc # "hook" /\ \E k : cmd' = [cmd EXCEPT ![o] = k]
    BY <1>6, Zenon DEF Run, At_
  <2>2. \A ns : Hooked(ns) => Hooked(ns)'
    BY <2>1, HookKept, Zenon DEF CliType
  <2> QED
    BY <1>1, <1>6, <2>2 DEF Run, podVars
<1>7. ASSUME NEW o \in Operators, Step(o) PROVE CleanInv'
  BY <1>7, AddClean, HelmClean, DeleteClean, Zenon DEF Step
<1>8. CASE UNCHANGED vars
  BY <1>1, <1>2, <1>8 DEF vars, podVars, cliVars
<1> QED
  BY <1>3, <1>4, <1>5, <1>6, <1>7, <1>8, Zenon DEF Next

\* For any number of people and pods: an uninstallation leaves no EcnetConfig
\* behind, whatever the pods of the ecnet still do while they stop, unless a
\* user wrote one or a bootstrap pod had read the preset before it went.
THEOREM UninstalledClean == Spec => []CleanAfterUninstall
<1>1. CleanInv => CleanAfterUninstall
  BY DEF CleanInv, Accounted, Owned, Hooked, CleanAfterUninstall, namespaceHasNoEcnet, At_
<1>2. ConfigInv /\ [Next]_vars => ConfigInv'
  BY NextConfig
<1> QED
  BY <1>1, <1>2, InitConfig, InitTyped, NextTyped, InitClean, NextClean, PTL DEF Spec

-----------------------------------------------------------------------------
(* A namespace has one ecnet, and an ecnet that enforces it is the only one.   *)

\* What an installation that was let through has seen.
SeenOK(k) == k.pc = "deploy" => \A e \in k.seen : e[2] = FALSE /\ k.c.single = FALSE

SingleInv ==
  /\ \A r, q \in Controllers : r # q => r[1] # q[1]
  /\ ~excused => \A r \in Controllers : release[r].single => Controllers = {r}
  /\ \A o \in Operators : SeenOK(cmd[o])

\* Controllers may go, and none of the rest changes.
Fewer == \A r \in Releases : release'[r] = release[r] \/ r \notin Controllers'

\* What is left is still single.
LEMMA FewerSingle ==
  ASSUME SingleInv, Fewer, excused' = excused, \A o \in Operators : SeenOK(cmd'[o]) PROVE SingleInv'
<1>1. Controllers' \subseteq Controllers /\ \A r \in Controllers' : release'[r] = release[r]
  BY DEF Fewer, Controllers, Releases
<1>2. \A r, q \in Controllers' : r # q => r[1] # q[1]
  BY <1>1, Zenon DEF SingleInv
<1>3. ASSUME ~excused', NEW r \in Controllers', release'[r].single PROVE Controllers' = {r}
  BY <1>1, <1>3, Zenon DEF SingleInv
<1>4. \A o \in Operators : SeenOK(cmd[o])'
  BY DEF SeenOK
<1> QED
  BY <1>2, <1>3, <1>4, Zenon DEF SingleInv

\* One command goes on, to something else than a deployment.
LEMMA SeenKept ==
  ASSUME CmdType, SingleInv, NEW o \in Operators, NEW k, k.pc # "deploy", cmd' = [cmd EXCEPT ![o] = k]
  PROVE  \A p \in Operators : SeenOK(cmd'[p])
<1>1. cmd'[o] = k /\ \A p \in Operators : p # o => cmd'[p] = cmd[p]
  BY DEF CmdType
<1>2. SeenOK(k)
  BY DEF SeenOK
<1>3. ASSUME NEW p \in Operators PROVE SeenOK(cmd'[p])
  BY <1>1, <1>2, Zenon DEF SingleInv
<1> QED
  BY <1>3

\* A command ends.
LEMMA EndsSeen ==
  ASSUME CmdType, SingleInv, NEW o \in Operators, Ends(o) PROVE \A p \in Operators : SeenOK(cmd'[p])
<1>1. Done.pc # "deploy"
  BY DEF Done
<1> QED
  BY <1>1, SeenKept, Zenon DEF Ends

\* A command goes on with the arguments it has.
LEMMA GoesSeen ==
  ASSUME CmdType, SingleInv, NEW o \in Operators, NEW pc, NEW seen, NEW todo, pc # "deploy", Goes(o, pc, seen, todo)
  PROVE  \A p \in Operators : SeenOK(cmd'[p])
<1>1. Next_(o, pc, seen, todo).pc # "deploy"
  BY DEF Next_
<1>2. cmd' = [cmd EXCEPT ![o] = Next_(o, pc, seen, todo)]
  BY Zenon DEF Goes, Next_
<1> QED
  BY <1>1, <1>2, SeenKept, Zenon

\* The checks of ecnet-preinstall.
LEMMA CheckSingle ==
  ASSUME CliType, SingleInv, NEW o \in Operators, Check(o) PROVE SingleInv'
<1> DEFINE c == cmd[o].c
           r == <<c.ns, c.name>>
           v == [status |-> "failed", label |-> c.name, single |-> FALSE]
<1>0. CmdType /\ ReleaseType /\ CmdOK(cmd[o]) /\ cmd[o].pc = "check" /\ excused' = excused
  BY DEF CliType, CmdType, Check, At_
<1>1. \/ Ends(o) /\ UNCHANGED release
      \/ Ends(o) /\ release' = [release EXCEPT ![r] = v]
      \/ Goes(o, "deploy", Enforcing, {}) /\ UNCHANGED release /\ singleEcnetOK(c.single)
  BY Zenon DEF Check
<1>2. Fewer
  <2>1. CASE UNCHANGED release
    BY <2>1, Zenon DEF Fewer
  <2>2. CASE release' = [release EXCEPT ![r] = v]
    <3>1. v.status # "deployed"
      OBVIOUS
    <3> HIDE DEF v, r
    <3>2. \A q \in Releases : release'[q] = IF q = r THEN v ELSE release[q]
      BY <1>0, <2>2, Zenon DEF ReleaseType
    <3> QED
      BY <3>1, <3>2 DEF Fewer, Controllers
  <2> QED
    BY <1>1, <2>1, <2>2
<1>3. \A p \in Operators : SeenOK(cmd'[p])
  <2>1. CASE Ends(o)
    BY <1>0, <2>1, EndsSeen
  <2>2. CASE Goes(o, "deploy", Enforcing, {}) /\ singleEcnetOK(c.single)
    <3> DEFINE k == Next_(o, "deploy", Enforcing, {})
    <3>1. cmd' = [cmd EXCEPT ![o] = k]
      BY <2>2, Zenon DEF Goes, Next_
    <3>2. k.seen = Enforcing /\ k.c = c
      BY Zenon DEF Next_
    <3>3. c.single \in BOOLEAN
      BY <1>0, Zenon DEF CmdOK
    <3>4. ASSUME NEW e \in Enforcing PROVE e[2] = FALSE /\ c.single = FALSE
      <4>1. PICK q \in Controllers : e = <<q, release[q].single>>
        BY <3>4 DEF Enforcing
      <4>2. release[q].single \in BOOLEAN
        BY <1>0 DEF ReleaseType, Controllers, ReleaseValues
      <4>3. e[2] = release[q].single
        BY <4>1
      <4>4. ~release[q].single /\ ~c.single
        BY <2>2 DEF singleEcnetOK
      <4> QED
        BY <3>3, <4>2, <4>3, <4>4, Zenon
    <3> HIDE DEF k
    <3>5. SeenOK(k)
      BY <3>2, <3>4, Zenon DEF SeenOK
    <3>6. cmd'[o] = k /\ \A p \in Operators : p # o => cmd'[p] = cmd[p]
      BY <1>0, <3>1 DEF CmdType
    <3>7. ASSUME NEW p \in Operators PROVE SeenOK(cmd'[p])
      BY <3>5, <3>6, Zenon DEF SingleInv
    <3> QED
      BY <3>7
  <2> QED
    BY <1>1, <2>1, <2>2, Zenon
<1> QED
  BY <1>0, <1>2, <1>3, FewerSingle, Zenon

\* The deployment, with whatever has been installed since the checks.
LEMMA DeploySingle ==
  ASSUME CliType, SingleInv, NEW o \in Operators, Deploy(o) PROVE SingleInv'
<1> DEFINE c == cmd[o].c
           r == <<c.ns, c.name>>
<1>0. CmdType /\ ReleaseType /\ CmdOK(cmd[o]) /\ SeenOK(cmd[o]) /\ cmd[o].pc = "deploy" /\ Ends(o)
  BY Zenon DEF CliType, CmdType, SingleInv, Deploy, At_
<1>1. \A p \in Operators : SeenOK(cmd'[p])
  BY <1>0, EndsSeen
<1>2. CASE UNCHANGED <<release, excused>>
  BY <1>1, <1>2, FewerSingle DEF Fewer
<1>3. ASSUME namespaceHasNoEcnet(c.ns), release' = [release EXCEPT ![r] = resolveValues(c)],
             excused' = (excused \/ ~(Enforcing \subseteq cmd[o].seen))
      PROVE  SingleInv'
  <2>1. r \in Releases /\ c.single \in BOOLEAN /\ r[1] = c.ns
    BY <1>0, Zenon DEF CmdOK, Named, Releases
  <2>2. resolveValues(c) \in ReleaseValues /\ resolveValues(c).status = "deployed" /\ resolveValues(c).single = c.single
    BY <1>0, <2>1 DEF CmdOK, Named, ReleaseValues, resolveValues
  <2>3. /\ Controllers' = Controllers \cup {r} /\ release'[r] = resolveValues(c)
        /\ \A q \in Controllers : q # r => release'[q] = release[q]
    BY <1>0, <1>3, <2>1, <2>2, Deployed, Zenon
  <2> HIDE DEF r
  <2>4. \A q \in Controllers : q[1] # c.ns
    BY <1>3, Zenon DEF namespaceHasNoEcnet
  <2>5. \A p, q \in Controllers' : p # q => p[1] # q[1]
    BY <2>1, <2>3, <2>4, Zenon DEF SingleInv
  <2>6. ASSUME ~excused', NEW q \in Controllers', release'[q].single PROVE Controllers' = {q}
    <3>1. Enforcing \subseteq cmd[o].seen
      BY <1>3, <2>6, Zenon
    <3>2. ASSUME NEW p \in Controllers PROVE release[p].single = FALSE /\ c.single = FALSE
      <4>1. <<p, release[p].single>> \in cmd[o].seen
        BY <3>1 DEF Enforcing
      <4>2. <<p, release[p].single>>[2] = FALSE /\ c.single = FALSE
        BY <1>0, <4>1, Zenon DEF SeenOK
      <4> QED
        BY <4>2, Zenon
    <3>3. CASE q \in Controllers
      <4>1. q # r
        BY <2>1, <2>4, <3>3, Zenon
      <4> QED
        BY <2>3, <2>6, <3>2, <3>3, <4>1, Zenon
    <3>4. CASE q = r
      <4>1. c.single
        BY <2>2, <2>3, <2>6, <3>4, Zenon
      <4>2. Controllers = {}
        BY <3>2, <4>1
      <4> QED
        BY <2>3, <3>4, <4>2
    <3> QED
      BY <2>3, <3>3, <3>4
  <2>7. \A p \in Operators : SeenOK(cmd[p])'
    BY <1>1, Zenon DEF SeenOK
  <2> QED
    BY <2>5, <2>6, <2>7, Zenon DEF SingleInv
<1>4. \/ UNCHANGED <<release, excused>>
      \/ /\ namespaceHasNoEcnet(c.ns) /\ release' = [release EXCEPT ![r] = resolveValues(c)]
         /\ excused' = (excused \/ ~(Enforcing \subseteq cmd[o].seen))
  <2> DEFINE ok == namespaceHasNoEcnet(c.ns) /\ release[<<c.ns, c.name>>] = absent
  <2>1. CASE ok
    BY <2>1, Zenon DEF Deploy
  <2>2. CASE ~ok
    BY <2>2, Zenon DEF Deploy
  <2> QED
    BY <2>1, <2>2
<1> QED
  BY <1>2, <1>3, <1>4

\* An upgrade makes an ecnet enforce what it may have to share with others.
LEMMA UpgradeSingle ==
  ASSUME CliType, SingleInv, NEW o \in Operators, Upgrade(o) PROVE SingleInv'
<1> DEFINE r == <<cmd[o].c.ns, cmd[o].c.name>>
           v == [status |-> "deployed", label |-> "ecnet", single |-> TRUE]
<1>0. CmdType /\ ReleaseType /\ Ends(o)
  BY Zenon DEF CliType, Upgrade
<1>1. \A p \in Operators : SeenOK(cmd'[p])
  BY <1>0, EndsSeen, Zenon
<1>2. CASE UNCHANGED <<release, excused>>
  BY <1>1, <1>2, FewerSingle DEF Fewer
<1>3. ASSUME r \in Controllers, release' = [release EXCEPT ![r] = v], excused' = (excused \/ Controllers # {r})
      PROVE  SingleInv'
  <2>1. r \in Releases
    BY <1>3, Zenon DEF Controllers
  <2>2. v \in ReleaseValues /\ v.status = "deployed"
    BY CommandsAssumption DEF ReleaseValues
  <2> HIDE DEF r, v
  <2>3. Controllers' = Controllers
    <3>1. Controllers' = Controllers \cup {r}
      BY <1>0, <1>3, <2>1, <2>2, Deployed, Zenon
    <3>2. r \in Controllers
      BY <1>3, Zenon
    <3> QED
      BY <3>1, <3>2
  <2>4. ~excused' => Controllers' = {r}
    BY <1>3, <2>3, Zenon
  <2>5. \A p \in Operators : SeenOK(cmd[p])'
    BY <1>1, Zenon DEF SeenOK
  <2>6. \A p, q \in Controllers' : p # q => p[1] # q[1]
    BY <2>3 DEF SingleInv
  <2>7. ~excused' => \A q \in Controllers' : release'[q].single => Controllers' = {q}
    BY <2>4
  <2> QED
    BY <2>5, <2>6, <2>7, Zenon DEF SingleInv
<1>4. \/ UNCHANGED <<release, excused>>
      \/ r \in Controllers /\ release' = [release EXCEPT ![r] = v] /\ excused' = (excused \/ Controllers # {r})
  BY Zenon DEF Upgrade
<1> QED
  BY <1>2, <1>3, <1>4

\* The other commands leave the ecnets alone, or uninstall some.
LEMMA OtherSingle ==
  ASSUME CliType, SingleInv, NEW o \in Operators,
         \/ List(o) \/ HelmUninstall(o) \/ PostDelete(o) \/ DeleteNs(o) \/ DeleteClusterResources(o)
         \/ AddExists(o) \/ AddGetNs(o) \/ AddPatch(o) \/ RemoveGetNs(o) \/ RemovePatch(o) \/ Ignore(o)
  PROVE  SingleInv'
<1>0. CmdType /\ ReleaseType
  BY DEF CliType
<1>1. excused' = excused
  BY Zenon DEF List, HelmUninstall, PostDelete, DeleteNs, DeleteClusterResources, AddExists, AddGetNs, AddPatch,
               RemoveGetNs, RemovePatch, Ignore
<1>2. Fewer
  <2> DEFINE ns == (CHOOSE m \in cmd[o].seen : TRUE)[1]
  <2>1. \/ UNCHANGED release
        \/ \E m : release' = [release EXCEPT ![m] = absent]
        \/ release' = [r \in Releases |-> IF r[1] = ns THEN absent ELSE release[r]]
    BY Zenon DEF List, HelmUninstall, PostDelete, DeleteNs, DeleteClusterResources, AddExists, AddGetNs, AddPatch,
                 RemoveGetNs, RemovePatch, Ignore
  <2> HIDE DEF ns
  <2>2. \A r \in Releases : release'[r] = release[r] \/ release'[r] = absent
    BY <1>0, <2>1, Zenon DEF ReleaseType
  <2> QED
    BY <2>2 DEF Fewer, Controllers
<1>3. \A p \in Operators : SeenOK(cmd'[p])
  <2>1. \/ Ends(o)
        \/ \E pc \in {"helm", "hook", "deleteNs", "getNsToAdd", "add", "remove"} : \E seen, todo : Goes(o, pc, seen, todo)
    BY Zenon DEF List, HelmUninstall, PostDelete, DeleteNs, DeleteClusterResources, AddExists, AddGetNs, AddPatch,
                 RemoveGetNs, RemovePatch, Ignore
  <2>2. CASE Ends(o)
    BY <1>0, <2>2, EndsSeen, Zenon
  <2>3. ASSUME NEW pc \in {"helm", "hook", "deleteNs", "getNsToAdd", "add", "remove"}, NEW seen, NEW todo,
               Goes(o, pc, seen, todo)
        PROVE  \A p \in Operators : SeenOK(cmd'[p])
    BY <1>0, <2>3, GoesSeen
  <2> QED
    BY <2>1, <2>2, <2>3
<1> QED
  BY <1>1, <1>2, <1>3, FewerSingle, Zenon

\* At the start no ecnet enforces anything.
LEMMA InitSingle == Init => SingleInv
<1> SUFFICES ASSUME Init PROVE SingleInv
  OBVIOUS
<1>1. PICK there \in SUBSET Installed :
        release = [r \in Releases |-> IF r \in there THEN [status |-> "deployed", label |-> r[2], single |-> FALSE]
                                      ELSE absent]
  BY Zenon DEF Init
<1>2. cmd = [o \in Operators |-> Done]
  BY Zenon DEF Init
<1>3. Controllers \subseteq Installed /\ \A r \in Controllers : release[r].single = FALSE
  BY <1>1, Zenon DEF Controllers
<1>4. \A r, q \in Controllers : r # q => r[1] # q[1]
  BY <1>3, InstalledAssumption, Zenon
<1>5. \A o \in Operators : SeenOK(cmd[o])
  BY <1>2 DEF SeenOK, Done
<1> QED
  BY <1>3, <1>4, <1>5, Zenon DEF SingleInv

\* Every step keeps the invariant.
LEMMA NextSingle == CliType /\ SingleInv /\ [Next]_vars => SingleInv'
<1> SUFFICES ASSUME CliType, SingleInv, [Next]_vars PROVE SingleInv'
  OBVIOUS
<1>1. ASSUME UNCHANGED cliVars PROVE SingleInv'
  <2>1. UNCHANGED <<release, excused, cmd>>
    BY <1>1 DEF cliVars
  <2>2. \A o \in Operators : SeenOK(cmd'[o])
    BY <2>1, Zenon DEF SingleInv
  <2>3. Fewer
    BY <2>1 DEF Fewer
  <2> QED
    BY <2>1, <2>2, <2>3, FewerSingle, Zenon
<1>2. ASSUME NEW o \in Operators, NEW c \in Commands, Run(o, c) PROVE SingleInv'
  <2> DEFINE k == [pc |-> c.first, c |-> c, seen |-> {}, todo |-> {}]
  <2>1. UNCHANGED <<release, excused>> /\ cmd' = [cmd EXCEPT ![o] = k]
    BY <1>2, Zenon DEF Run
  <2>2. c.first # "deploy"
    BY CommandShape, Zenon
  <2>3. k.pc # "deploy"
    BY <2>2
  <2> HIDE DEF k
  <2>4. \A p \in Operators : SeenOK(cmd'[p])
    BY <2>1, <2>3, SeenKept, Zenon DEF CliType
  <2>5. Fewer
    BY <2>1 DEF Fewer
  <2> QED
    BY <2>1, <2>4, <2>5, FewerSingle, Zenon
<1>3. ASSUME NEW o \in Operators, Step(o) PROVE SingleInv'
  BY <1>3, CheckSingle, DeploySingle, UpgradeSingle, OtherSingle, Zenon DEF Step
<1>4. ASSUME NEW p \in Pods, Terminate(p) PROVE SingleInv'
  BY <1>1, <1>4 DEF Terminate
<1>5. CASE UNCHANGED vars
  BY <1>1, <1>5 DEF vars
<1> QED
  BY <1>1, <1>2, <1>3, <1>4, <1>5, Zenon DEF Next

-----------------------------------------------------------------------------
(* A namespace that is added to an ecnet was not ignored when it was looked    *)
(* at.                                                                         *)

\* What namespace add has seen.
AddOK(k) == k.pc = "add" => labels[k.c.ns].ignored = FALSE \/ k.c.ns \in ignoredLate

LabelInv == IgnoredNotAdded /\ \A o \in Operators : AddOK(cmd[o])

\* The labels stay, and one command goes on to something else than the patch.
LEMMA LabelsKept ==
  ASSUME LabelInv, UNCHANGED <<labels, ignoredLate>>,
         \A o \in Operators : cmd'[o].pc = "add" => cmd'[o].c = cmd[o].c /\ cmd[o].pc = "add"
  PROVE  LabelInv'
<1>1. IgnoredNotAdded'
  BY Zenon DEF LabelInv, IgnoredNotAdded
<1>2. ASSUME NEW o \in Operators, cmd'[o].pc = "add"
      PROVE  labels'[cmd'[o].c.ns].ignored = FALSE \/ cmd'[o].c.ns \in ignoredLate'
  BY <1>2, Zenon DEF LabelInv, AddOK
<1> QED
  BY <1>1, <1>2, Zenon DEF LabelInv, AddOK

\* One command ends or goes on to something else than the patch.
LEMMA NoNewAdd ==
  ASSUME CmdType, NEW o \in Operators, NEW k, k.pc # "add", cmd' = [cmd EXCEPT ![o] = k]
  PROVE  \A p \in Operators : cmd'[p].pc = "add" => p # o /\ cmd'[p] = cmd[p]
  BY DEF CmdType

\* The command ends.
LEMMA EndsNoAdd ==
  ASSUME CmdType, NEW o \in Operators, Ends(o)
  PROVE  \A p \in Operators : cmd'[p].pc = "add" => p # o /\ cmd'[p] = cmd[p]
<1>1. Done.pc # "add"
  BY DEF Done
<1> QED
  BY <1>1, NoNewAdd, Zenon DEF Ends

\* It ends, or goes on with the arguments it has.
LEMMA GoesNoAdd ==
  ASSUME CmdType, NEW o \in Operators, NEW pc, NEW seen, NEW todo, pc # "add", Ends(o) \/ Goes(o, pc, seen, todo)
  PROVE  \A p \in Operators : cmd'[p].pc = "add" => p # o /\ cmd'[p] = cmd[p]
<1>1. Done.pc # "add" /\ Next_(o, pc, seen, todo).pc # "add"
  BY DEF Done, Next_
<1>2. cmd' = [cmd EXCEPT ![o] = Done] \/ cmd' = [cmd EXCEPT ![o] = Next_(o, pc, seen, todo)]
  BY Zenon DEF Ends, Goes, Next_
<1> QED
  BY <1>1, <1>2, NoNewAdd, Zenon

\* The steps of the commands that leave the labels alone.
LEMMA QuietLabels ==
  ASSUME CliType, LabelInv, NEW o \in Operators,
         \/ Check(o) \/ Deploy(o) \/ Upgrade(o) \/ List(o) \/ HelmUninstall(o) \/ PostDelete(o)
         \/ DeleteClusterResources(o) \/ AddExists(o) \/ RemoveGetNs(o)
  PROVE  LabelInv'
<1>1. UNCHANGED <<labels, ignoredLate>>
  BY Zenon DEF Check, Deploy, Upgrade, List, HelmUninstall, PostDelete, DeleteClusterResources, AddExists, RemoveGetNs
<1>2. \E pc \in {"deploy", "helm", "hook", "deleteNs", "getNsToAdd", "remove"} : \E seen, todo :
        Ends(o) \/ Goes(o, pc, seen, todo)
  BY Zenon DEF Check, Deploy, Upgrade, List, HelmUninstall, PostDelete, DeleteClusterResources, AddExists, RemoveGetNs
<1>3. \A p \in Operators : cmd'[p].pc = "add" => p # o /\ cmd'[p] = cmd[p]
  BY <1>2, GoesNoAdd, Zenon DEF CliType
<1> QED
  BY <1>1, <1>3, LabelsKept, Zenon

\* namespace add looks at the labels.
LEMMA AddGetNsLabels ==
  ASSUME CliType, LabelInv, NEW o \in Operators, AddGetNs(o) PROVE LabelInv'
<1>0. CmdType /\ LabelsType /\ UNCHANGED <<labels, ignoredLate>>
  BY Zenon DEF CliType, AddGetNs
<1>1. CASE Ends(o)
  <2>1. \A p \in Operators : cmd'[p].pc = "add" => p # o /\ cmd'[p] = cmd[p]
    BY <1>0, <1>1, EndsNoAdd
  <2> QED
    BY <1>0, <2>1, LabelsKept, Zenon
<1>2. ASSUME Goes(o, "add", {}, {}), ~labels[cmd[o].c.ns].ignored, cmd[o].c.ns \in Namespaces PROVE LabelInv'
  <2>1. cmd' = [cmd EXCEPT ![o] = Next_(o, "add", {}, {})]
    BY <1>2, Zenon DEF Goes, Next_
  <2>2. cmd'[o].c = cmd[o].c /\ \A p \in Operators : p # o => cmd'[p] = cmd[p]
    BY <1>0, <2>1, Zenon DEF CmdType, Next_
  <2>3. labels[cmd[o].c.ns].ignored = FALSE
    BY <1>0, <1>2 DEF LabelsType
  <2>4. ASSUME NEW p \in Operators, cmd'[p].pc = "add"
        PROVE  labels'[cmd'[p].c.ns].ignored = FALSE \/ cmd'[p].c.ns \in ignoredLate'
    <3>1. CASE p = o
      BY <1>0, <2>2, <2>3, <3>1, Zenon
    <3>2. CASE p # o
      BY <1>0, <2>2, <2>4, <3>2, Zenon DEF LabelInv, AddOK
    <3> QED
      BY <3>1, <3>2, Zenon
  <2>5. IgnoredNotAdded'
    BY <1>0, Zenon DEF LabelInv, IgnoredNotAdded
  <2> QED
    BY <2>4, <2>5, Zenon DEF LabelInv, AddOK
<1>3. cmd[o].c.ns \in Namespaces
  <2>1. cmd[o].pc = "getNsToAdd" /\ CmdOK(cmd[o])
    BY <1>0 DEF AddGetNs, At_, CmdType
  <2> QED
    BY <2>1, Zenon DEF CmdOK
<1>4. Ends(o) \/ (Goes(o, "add", {}, {}) /\ ~labels[cmd[o].c.ns].ignored)
  BY Zenon DEF AddGetNs
<1> QED
  BY <1>1, <1>2, <1>3, <1>4, Zenon

\* The labels of one namespace change.
LEMMA LabelsChanged ==
  ASSUME CliType, LabelInv, NEW n \in Namespaces, \A ns \in Namespaces : ns # n => labels'[ns] = labels[ns],
         ignoredLate \subseteq ignoredLate',
         labels'[n].ignored /\ labels'[n].monitor # absent => n \in ignoredLate',
         \A p \in Operators : cmd'[p].pc = "add" => cmd'[p] = cmd[p],
         \A p \in Operators : cmd'[p].pc = "add" /\ cmd[p].c.ns = n => labels'[n].ignored = FALSE \/ n \in ignoredLate'
  PROVE  LabelInv'
<1>1. ASSUME NEW ns \in Namespaces, labels'[ns].ignored, labels'[ns].monitor # absent PROVE ns \in ignoredLate'
  <2>1. CASE ns = n
    BY <1>1, <2>1, Zenon
  <2>2. CASE ns # n
    <3>1. ns \in ignoredLate
      BY <1>1, <2>2, Zenon DEF LabelInv, IgnoredNotAdded
    <3> QED
      BY <3>1
  <2> QED
    BY <2>1, <2>2
<1>2. ASSUME NEW p \in Operators, cmd'[p].pc = "add"
      PROVE  labels'[cmd'[p].c.ns].ignored = FALSE \/ cmd'[p].c.ns \in ignoredLate'
  <2>1. cmd'[p] = cmd[p] /\ cmd[p].pc = "add"
    BY <1>2, Zenon
  <2>2. cmd[p].c.ns \in Namespaces
    BY <2>1 DEF CliType, CmdType, CmdOK
  <2>3. CASE cmd[p].c.ns = n
    BY <1>2, <2>1, <2>3, Zenon
  <2>4. CASE cmd[p].c.ns # n
    <3>1. labels[cmd[p].c.ns].ignored = FALSE \/ cmd[p].c.ns \in ignoredLate
      BY <2>1, Zenon DEF LabelInv, AddOK
    <3>2. labels'[cmd[p].c.ns] = labels[cmd[p].c.ns]
      BY <2>2, <2>4, Zenon
    <3>3. cmd[p].c.ns \in ignoredLate => cmd[p].c.ns \in ignoredLate'
      OBVIOUS
    <3> QED
      BY <2>1, <3>1, <3>2, <3>3, Zenon
  <2> QED
    BY <2>3, <2>4, Zenon
<1> QED
  BY <1>1, <1>2, Zenon DEF LabelInv, IgnoredNotAdded, AddOK

\* namespace add: the patch.
LEMMA AddPatchLabels ==
  ASSUME CliType, LabelInv, NEW o \in Operators, AddPatch(o) PROVE LabelInv'
<1> DEFINE n == cmd[o].c.ns
<1>0. CmdType /\ LabelsType /\ CmdOK(cmd[o]) /\ cmd[o].pc = "add" /\ UNCHANGED ignoredLate
  BY Zenon DEF CliType, CmdType, AddPatch, At_
<1>1. n \in Namespaces
  BY <1>0 DEF CmdOK
<1>2. labels' = [labels EXCEPT ![n].monitor = cmd[o].c.name]
  BY Zenon DEF AddPatch
<1>3. Ends(o)
  BY Zenon DEF AddPatch
<1>4. \A p \in Operators : cmd'[p].pc = "add" => p # o /\ cmd'[p] = cmd[p]
  BY <1>0, <1>3, EndsNoAdd, Zenon
<1>5. labels[n].ignored = FALSE \/ n \in ignoredLate
  BY <1>0, Zenon DEF LabelInv, AddOK
<1> HIDE DEF n
<1>6. (\A ns \in Namespaces : ns # n => labels'[ns] = labels[ns]) /\ labels'[n].ignored = labels[n].ignored
  <2>1. \A ns \in Namespaces : ns # n => labels'[ns] = labels[ns]
    BY <1>0, <1>2 DEF LabelsType
  <2>2. labels'[n] = [labels[n] EXCEPT !.monitor = cmd[o].c.name]
    BY <1>0, <1>1, <1>2, Zenon DEF LabelsType
  <2>3. labels[n] \in [monitor : Names \cup {absent}, ignored : BOOLEAN]
    BY <1>0, <1>1 DEF LabelsType
  <2>4. labels'[n].ignored = labels[n].ignored
    BY <2>2, <2>3
  <2> QED
    BY <2>1, <2>4, Zenon
<1>7. labels'[n].ignored = FALSE \/ n \in ignoredLate'
  BY <1>0, <1>5, <1>6, Zenon
<1>8. labels'[n].ignored /\ labels'[n].monitor # absent => n \in ignoredLate'
  BY <1>7, Zenon
<1>9. ignoredLate \subseteq ignoredLate'
  BY <1>0
<1>10. \A ns \in Namespaces : ns # n => labels'[ns] = labels[ns]
  BY <1>6, Zenon
<1> QED
  BY <1>1, <1>4, <1>7, <1>8, <1>9, <1>10, LabelsChanged, Zenon

\* namespace remove, and the deletion of a namespace.
LEMMA LabelsCleared ==
  ASSUME CliType, LabelInv, NEW n \in Namespaces, UNCHANGED ignoredLate,
         labels' = [labels EXCEPT ![n] = [monitor |-> absent, ignored |-> FALSE]],
         \A p \in Operators : cmd'[p].pc = "add" => cmd'[p] = cmd[p]
  PROVE  LabelInv'
<1>1. /\ \A ns \in Namespaces : ns # n => labels'[ns] = labels[ns]
      /\ labels'[n].ignored = FALSE /\ labels'[n].monitor = absent
  BY Zenon DEF CliType, LabelsType
<1>2. labels'[n].ignored /\ labels'[n].monitor # absent => n \in ignoredLate'
  BY <1>1, Zenon
<1>3. ignoredLate \subseteq ignoredLate'
  OBVIOUS
<1>4. \A ns \in Namespaces : ns # n => labels'[ns] = labels[ns]
  BY <1>1, Zenon
<1> QED
  BY <1>1, <1>2, <1>3, <1>4, LabelsChanged, Zenon

\* namespace ignore.
LEMMA IgnoreLabels ==
  ASSUME CliType, LabelInv, NEW o \in Operators, Ignore(o) PROVE LabelInv'
<1> DEFINE n == cmd[o].c.ns
<1>0. CmdType /\ LabelsType /\ CmdOK(cmd[o]) /\ cmd[o].pc = "ignore"
  BY Zenon DEF CliType, CmdType, Ignore, At_
<1>1. n \in Namespaces
  BY <1>0 DEF CmdOK
<1>2. labels' = [labels EXCEPT ![n].ignored = TRUE]
  BY Zenon DEF Ignore
<1>3. Ends(o)
  BY DEF Ignore
<1>4. \A p \in Operators : cmd'[p].pc = "add" => p # o /\ cmd'[p] = cmd[p]
  BY <1>0, <1>3, EndsNoAdd, Zenon
<1>5. /\ ignoredLate \subseteq ignoredLate'
      /\ labels[n].monitor # absent => n \in ignoredLate'
      /\ \A p \in Operators : cmd[p].pc = "add" /\ cmd[p].c.ns = n => n \in ignoredLate'
  BY DEF Ignore, At_
<1> HIDE DEF n
<1>6. /\ \A ns \in Namespaces : ns # n => labels'[ns] = labels[ns]
      /\ labels'[n].monitor = labels[n].monitor
  BY <1>0, <1>1, <1>2 DEF LabelsType
<1>7. labels'[n].ignored /\ labels'[n].monitor # absent => n \in ignoredLate'
  BY <1>5, <1>6, Zenon
<1>8. \A p \in Operators : cmd'[p].pc = "add" /\ cmd[p].c.ns = n => labels'[n].ignored = FALSE \/ n \in ignoredLate'
  BY <1>4, <1>5, Zenon
<1>9. \A p \in Operators : cmd'[p].pc = "add" => cmd'[p] = cmd[p]
  BY <1>4, Zenon
<1>10. \A ns \in Namespaces : ns # n => labels'[ns] = labels[ns]
  BY <1>6, Zenon
<1>11. ignoredLate \subseteq ignoredLate'
  BY <1>5, Zenon
<1> QED
  BY <1>1, <1>7, <1>8, <1>9, <1>10, <1>11, LabelsChanged, Zenon

\* At the start no namespace is part of an ecnet.
LEMMA InitLabels == Init => LabelInv
<1> SUFFICES ASSUME Init PROVE LabelInv
  OBVIOUS
<1>1. labels = [ns \in Namespaces |-> [monitor |-> absent, ignored |-> FALSE]] /\ cmd = [o \in Operators |-> Done]
  BY Zenon DEF Init
<1>2. IgnoredNotAdded
  BY <1>1, Zenon DEF IgnoredNotAdded
<1>3. \A o \in Operators : AddOK(cmd[o])
  BY <1>1, Zenon DEF AddOK, Done
<1> QED
  BY <1>2, <1>3 DEF LabelInv

\* Every step keeps the invariant.
LEMMA NextLabels == CliType /\ LabelInv /\ [Next]_vars => LabelInv'
<1> SUFFICES ASSUME CliType, LabelInv, [Next]_vars PROVE LabelInv'
  OBVIOUS
<1>0. CmdType
  BY Zenon DEF CliType
<1>1. ASSUME UNCHANGED cliVars PROVE LabelInv'
  BY <1>1, LabelsKept, Zenon DEF cliVars
<1>2. ASSUME NEW o \in Operators, NEW c \in Commands, Run(o, c) PROVE LabelInv'
  <2> DEFINE k == [pc |-> c.first, c |-> c, seen |-> {}, todo |-> {}]
  <2>1. UNCHANGED <<labels, ignoredLate>> /\ cmd' = [cmd EXCEPT ![o] = k]
    BY <1>2, Zenon DEF Run
  <2>2. c.first # "add"
    BY CommandShape, Zenon
  <2>3. k.pc # "add"
    BY <2>2
  <2> HIDE DEF k
  <2>4. \A p \in Operators : cmd'[p].pc = "add" => p # o /\ cmd'[p] = cmd[p]
    BY <1>0, <2>1, <2>3, NoNewAdd, Zenon
  <2> QED
    BY <2>1, <2>4, LabelsKept, Zenon
<1>3. ASSUME NEW o \in Operators, RemovePatch(o) PROVE LabelInv'
  <2>1. cmd[o].pc = "remove" /\ CmdOK(cmd[o])
    BY <1>0, <1>3, Zenon DEF RemovePatch, At_, CmdType
  <2>2. cmd[o].c.ns \in Namespaces
    BY <2>1 DEF CmdOK
  <2>3. /\ labels' = [labels EXCEPT ![cmd[o].c.ns] = [monitor |-> absent, ignored |-> FALSE]]
        /\ Ends(o) /\ UNCHANGED ignoredLate
    BY <1>3, Zenon DEF RemovePatch
  <2>4. \A p \in Operators : cmd'[p].pc = "add" => p # o /\ cmd'[p] = cmd[p]
    BY <1>0, <2>3, EndsNoAdd, Zenon
  <2> QED
    BY <2>2, <2>3, <2>4, LabelsCleared, Zenon
<1>4. ASSUME NEW o \in Operators, DeleteNs(o) PROVE LabelInv'
  <2> DEFINE ns == (CHOOSE m \in cmd[o].seen : TRUE)[1]
  <2>1. cmd[o].pc = "deleteNs" /\ Goes(o, "helm", {}, cmd[o].todo) /\ UNCHANGED ignoredLate
    BY <1>4, Zenon DEF DeleteNs, At_
  <2>2. ns \in Namespaces
    BY <1>0, <2>1, SeenOne, Zenon
  <2>3. UNCHANGED labels \/ labels' = [labels EXCEPT ![ns] = [monitor |-> absent, ignored |-> FALSE]]
    BY <1>4, Zenon DEF DeleteNs
  <2> HIDE DEF ns
  <2>4. \A p \in Operators : cmd'[p].pc = "add" => p # o /\ cmd'[p] = cmd[p]
    BY <1>0, <2>1, GoesNoAdd, Zenon
  <2>5. CASE UNCHANGED labels
    BY <2>1, <2>4, <2>5, LabelsKept, Zenon
  <2>6. CASE labels' = [labels EXCEPT ![ns] = [monitor |-> absent, ignored |-> FALSE]]
    BY <2>1, <2>2, <2>4, <2>6, LabelsCleared, Zenon
  <2> QED
    BY <2>3, <2>5, <2>6, Zenon
<1>5. ASSUME NEW o \in Operators, Step(o) PROVE LabelInv'
  BY <1>3, <1>4, <1>5, QuietLabels, AddGetNsLabels, AddPatchLabels, IgnoreLabels, Zenon DEF Step
<1>6. ASSUME NEW p \in Pods, Terminate(p) PROVE LabelInv'
  BY <1>1, <1>6 DEF Terminate
<1>7. CASE UNCHANGED vars
  BY <1>1, <1>7 DEF vars
<1> QED
  BY <1>1, <1>2, <1>5, <1>6, <1>7 DEF Next

\* For any number of people, namespaces and names: the checks of
\* ecnet-preinstall and of namespace add hold, unless somebody changed what
\* they had looked at before the command acted: a namespace has one ecnet, an
\* ecnet that enforces it is the only one, and no ignored namespace is added.
THEOREM ChecksHold == Spec => []ChecksRespected
<1>1. CliType => TypeOK
  BY DEF CliType, TypeOK, PodsType, ConfigValues, ReleaseType, ReleaseValues, LabelsType, CountType
<1>2. SingleInv => SingleEnforced
  BY Zenon DEF SingleInv, SingleEnforced
<1>3. CliType /\ SingleInv /\ LabelInv => ChecksRespected
  BY <1>1, <1>2 DEF ChecksRespected, LabelInv
<1>4. ConfigInv /\ [Next]_vars => ConfigInv'
  BY NextConfig
<1> QED
  BY <1>3, <1>4, InitConfig, InitTyped, NextTyped, InitSingle, NextSingle, InitLabels, NextLabels, PTL DEF Spec
=============================================================================
