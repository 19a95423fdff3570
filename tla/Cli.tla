-------------------------------- MODULE Cli --------------------------------
(***************************************************************************)
(* The commands of the ecnet CLI, run by several people against one        *)
(* cluster: install (with the checks of ecnet-preinstall), upgrade,        *)
(* uninstall, and namespace add, remove and ignore.  A command reads the   *)
(* cluster and acts on it later, step by step, while pods start and other  *)
(* commands run.                                                           *)
(*                                                                         *)
(* A release is [status, label, single]: a "failed" one is left by Helm    *)
(* when the preinstall checks refuse it, only a "deployed" one has a       *)
(* controller, with the labels ecnetName and enforceSingleEcnet.           *)
(***************************************************************************)
EXTENDS Components

CONSTANTS
  Operators,    (* who runs commands, one at a time                        *)
  Names,        (* names of ecnets, "ecnet" is the default                 *)
  Commands,     (* the commands that are run                               *)
  MaxCommands,
  Installed     (* ecnets that may be there from the start, as <<ns, name>> *)

VARIABLES
  release,      (* <<namespace, name>> -> release or absent                *)
  labels,       (* namespace -> [monitor, ignored]                         *)
  cmd,          (* operator -> [pc, c, seen, todo]                         *)
  count,        (* commands run so far                                     *)
  excused,      (* another ecnet changed between the checks of an install- *)
                (* ation and its deployment                                *)
  ignoredLate   (* the namespaces that were ignored once they were added,  *)
                (* or while they were being added                          *)

cliVars == <<release, labels, cmd, count, excused, ignoredLate>>
vars == <<podVars, cliVars>>

Releases == Namespaces \X Names

\* Ecnets that are there from the start are in different namespaces.
ASSUME InstalledAssumption ==
  /\ Installed \subseteq Releases /\ \A r, q \in Installed : r # q => r[1] # q[1]
  /\ absent \notin [status : {"failed", "deployed"}, label : Names, single : BOOLEAN]

\* getControllerDeployments.
Controllers == {r \in Releases : release[r] # absent /\ release[r].status = "deployed"}

\* What the checks of an installation look at.
Enforcing == {<<r, release[r].single>> : r \in Controllers}

Done == [pc |-> "idle", c |-> absent, seen |-> {}, todo |-> {}]

\* A cluster with some ecnets that serve, or none and perhaps what an old
\* version left: its CRDs, and EcnetConfigs without the annotation.
Init ==
  \E there \in SUBSET Installed :
    LET of(ns) == \E r \in there : r[1] = ns
    IN  /\ \/ there = {} /\ crd = [c \in Crds |-> absent] /\ config = [ns \in Namespaces |-> absent]
           \/ /\ there = {} /\ crd = [c \in Crds |-> "old"]
              /\ config = [ns \in Namespaces |-> [value |-> 0, annotated |-> FALSE]]
           \/ /\ there # {} /\ crd = [c \in Crds |-> "new"]
              /\ config = [ns \in Namespaces |-> IF of(ns) THEN [value |-> 0, annotated |-> TRUE] ELSE absent]
        /\ preset = {ns \in Namespaces : of(ns)}
        /\ pod = [p \in Pods |-> IF of(NsOf[p]) THEN [Off EXCEPT !.pc = "ready"] ELSE Off]
        /\ faults = 0 /\ edits = 0 /\ removed = {} /\ late = {}
        /\ release = [r \in Releases |-> IF r \in there THEN [status |-> "deployed", label |-> r[2], single |-> FALSE]
                                         ELSE absent]
        /\ labels = [ns \in Namespaces |-> [monitor |-> absent, ignored |-> FALSE]]
        /\ cmd = [o \in Operators |-> Done]
        /\ count = 0 /\ excused = FALSE /\ ignoredLate = {}

At_(o, pc) == cmd[o].pc = pc
Ends(o) == cmd' = [cmd EXCEPT ![o] = Done]
Goes(o, pc, seen, todo) == cmd' = [cmd EXCEPT ![o] = [pc |-> pc, c |-> @.c, seen |-> seen, todo |-> todo]]

\* The commands with their arguments and flags, and what each does first.
newInstallCmd(ns, ecnetName, enforceSingleEcnet) ==
  [kind |-> "install", first |-> "check", ns |-> ns, name |-> ecnetName, single |-> enforceSingleEcnet]
newEcnetUpgradeCmd(ns, ecnetName) == [kind |-> "upgrade", first |-> "upgrade", ns |-> ns, name |-> ecnetName]
newUninstallCniCmd(ns, ecnetName, force, deleteClusterWideResources, deleteNamespace) ==
  [kind |-> "uninstall", first |-> "list", ns |-> ns, name |-> ecnetName, force |-> force,
   all |-> deleteClusterWideResources, deleteNs |-> deleteNamespace]
newNamespaceAdd(ns, ecnetName) == [kind |-> "add", first |-> "exists", ns |-> ns, name |-> ecnetName]
newNamespaceRemove(ns, ecnetName) == [kind |-> "remove", first |-> "getNs", ns |-> ns, name |-> ecnetName]
newNamespaceIgnore(ns) == [kind |-> "ignore", first |-> "ignore", ns |-> ns, name |-> absent]

\* The commands are used as they are meant to be.
ASSUME CommandsAssumption ==
  /\ MaxCommands \in Nat /\ "ecnet" \in Names
  /\ \A c \in Commands : \E ns \in Namespaces, name \in Names, x, y, z \in BOOLEAN :
       c \in { newInstallCmd(ns, name, x), newEcnetUpgradeCmd(ns, name),
              newUninstallCniCmd(ns, name, x, y, z), newUninstallCniCmd(ns, absent, x, y, z),
              newNamespaceAdd(ns, name), newNamespaceRemove(ns, name), newNamespaceIgnore(ns) }

Run(o, c) ==
  /\ At_(o, "idle") /\ count < MaxCommands /\ count' = count + 1
  /\ cmd' = [cmd EXCEPT ![o] = [pc |-> c.first, c |-> c, seen |-> {}, todo |-> {}]]
  /\ UNCHANGED <<podVars, release, labels, excused, ignoredLate>>

-----------------------------------------------------------------------------
\* Mutant: an ecnet that enforces to be the only one is not looked for.
singleEcnetOK_NewOnly(single) == ~(single /\ Controllers # {})

\* singleEcnetOK.
singleEcnetOK(single) == ~(\E r \in Controllers : release[r].single) /\ ~(single /\ Controllers # {})

\* namespaceHasNoEcnet.
namespaceHasNoEcnet(ns) == \A r \in Controllers : r[1] # ns

\* helm install: a name in use is refused; then the preinstall hook checks,
\* and what it refuses stays behind as a failed release.
Check(o) ==
  LET c == cmd[o].c
      r == <<c.ns, c.name>>
  IN  /\ At_(o, "check")
      /\ IF release[r] # absent THEN Ends(o) /\ UNCHANGED release
         ELSE IF singleEcnetOK(c.single) /\ namespaceHasNoEcnet(c.ns)
           THEN Goes(o, "deploy", Enforcing, {}) /\ UNCHANGED release
           ELSE /\ Ends(o)
                /\ release' = [release EXCEPT ![r] = [status |-> "failed", label |-> c.name, single |-> FALSE]]
      /\ UNCHANGED <<podVars, labels, count, excused, ignoredLate>>

Launched(p) == IF p \in Bootstraps THEN Started(p) ELSE [Off EXCEPT !.pc = "init"]

\* resolveValues: the labels of the controller.
resolveValues(c) == [status |-> "deployed", label |-> c.name, single |-> c.single]

\* helm install: the resources are created; the names of the ones of an ecnet
\* are taken once in a namespace.
Deploy(o) ==
  LET c  == cmd[o].c
      ok == namespaceHasNoEcnet(c.ns) /\ release[<<c.ns, c.name>>] = absent
  IN  /\ At_(o, "deploy")
      /\ Ends(o)
      /\ IF ok
           THEN /\ release' = [release EXCEPT ![<<c.ns, c.name>>] = resolveValues(c)]
                /\ pod' = [p \in Pods |-> IF NsOf[p] = c.ns THEN Launched(p) ELSE pod[p]]
                /\ preset' = preset \cup {c.ns}
                /\ removed' = removed \ {c.ns} /\ late' = late \ {c.ns}
                /\ excused' = (excused \/ ~(Enforcing \subseteq cmd[o].seen))
           ELSE UNCHANGED <<release, pod, preset, removed, late, excused>>
      /\ UNCHANGED <<crd, config, faults, edits, labels, count, ignoredLate>>

\* helm upgrade with ResetValues: the labels go back to the chart's defaults.
Upgrade(o) ==
  LET r == <<cmd[o].c.ns, cmd[o].c.name>>
  IN  /\ At_(o, "upgrade")
      /\ Ends(o)
      /\ IF r \in Controllers
           THEN /\ release' = [release EXCEPT ![r] = [status |-> "deployed", label |-> "ecnet", single |-> TRUE]]
                /\ excused' = (excused \/ Controllers # {r})
           ELSE UNCHANGED <<release, excused>>
      /\ UNCHANGED <<podVars, labels, count, ignoredLate>>

-----------------------------------------------------------------------------
\* getEcnetInfoList.
EcnetInfoList == {<<r[1], release[r].label>> : r \in Controllers}

ecnetSpecified(c) == c.name # absent

\* findSpecifiedEcnet, with findEcnet: by its name alone.
findSpecifiedEcnet(c) == \E info \in EcnetInfoList : info[2] = c.name

\* The prompt: of three tries the first that is y or n counts, none is a no,
\* and the end of the input is an error.
confirm == {"y", "n", "eof"}

\* promptEcnetUninstall: what is asked about.
promptEcnetUninstall(c) == {info \in EcnetInfoList : ecnetSpecified(c) => info[2] = c.name}

\* uninstall: the list, and what is chosen of it.  With --force that is the
\* only ecnet, or else the one of the flags; without, what is confirmed.
List(o) ==
  LET c == cmd[o].c
  IN  /\ At_(o, "list")
      /\ IF EcnetInfoList = {} \/ (ecnetSpecified(c) /\ ~findSpecifiedEcnet(c)) THEN Ends(o)
         ELSE IF c.force
           THEN Goes(o, "helm", {}, IF Cardinality(EcnetInfoList) = 1 THEN EcnetInfoList ELSE {<<c.ns, c.name>>})
           ELSE \E answer \in [promptEcnetUninstall(c) -> confirm] :
                  IF \E info \in DOMAIN answer : answer[info] = "eof" THEN Ends(o)
                  ELSE Goes(o, "helm", {}, {info \in DOMAIN answer : answer[info] = "y"})
      /\ UNCHANGED <<podVars, release, labels, count, excused, ignoredLate>>

\* helm uninstall of one of them: the release goes, its pods are told to stop,
\* and the post-delete hook replaces the CRDs and deletes the EcnetConfig.
HelmUninstall(o) ==
  \E m \in cmd[o].todo :
    LET c     == cmd[o].c
        there == m[2] \in Names /\ release[m] # absent
    IN  /\ At_(o, "helm")
        /\ IF there
             THEN /\ release' = [release EXCEPT ![m] = absent]
                  /\ preset' = preset \ {m[1]}
                  /\ Goes(o, "hook", {m}, cmd[o].todo \ {m})
             ELSE /\ UNCHANGED <<release, preset>>
                  /\ IF c.all \/ c.deleteNs THEN Goes(o, "deleteNs", {m}, cmd[o].todo \ {m}) ELSE Ends(o)
        /\ UNCHANGED <<crd, config, pod, faults, edits, removed, late, labels, count, excused, ignoredLate>>

\* Mutant: the hook leaves the EcnetConfig.
PostDelete_KeepsConfig(o) ==
  /\ At_(o, "hook")
  /\ removed' = removed \cup {m[1] : m \in cmd[o].seen}
  /\ Goes(o, "deleteNs", cmd[o].seen, cmd[o].todo)
  /\ UNCHANGED <<crd, config, preset, pod, faults, edits, late, release, labels, count, excused, ignoredLate>>

PostDelete(o) ==
  LET ns == (CHOOSE m \in cmd[o].seen : TRUE)[1]
  IN  /\ At_(o, "hook")
      /\ crd' = [x \in Crds |-> IF crd[x] = absent THEN absent ELSE "new"]
      /\ config' = [config EXCEPT ![ns] = absent]
      /\ removed' = removed \cup {ns}
      /\ pod' = [p \in Pods |-> [pod[p] EXCEPT !.fresh = @ /\ pod[p].cur \notin Crds \cup {ns}]]
      /\ Goes(o, "deleteNs", cmd[o].seen, cmd[o].todo)
      /\ UNCHANGED <<preset, faults, edits, late, release, labels, count, excused, ignoredLate>>

\* deleteNs: with --delete-namespace everything in it goes.
DeleteNs(o) ==
  LET ns == (CHOOSE m \in cmd[o].seen : TRUE)[1]
  IN  /\ At_(o, "deleteNs")
      /\ IF cmd[o].c.deleteNs
           THEN /\ release' = [r \in Releases |-> IF r[1] = ns THEN absent ELSE release[r]]
                /\ config' = [config EXCEPT ![ns] = absent]
                /\ labels' = [labels EXCEPT ![ns] = [monitor |-> absent, ignored |-> FALSE]]
                /\ preset' = preset \ {ns} /\ removed' = removed \cup {ns}
                /\ pod' = Written(ns, pod)
           ELSE UNCHANGED <<release, config, labels, preset, removed, pod>>
      /\ Goes(o, "helm", {}, cmd[o].todo)
      /\ UNCHANGED <<crd, faults, edits, late, count, excused, ignoredLate>>

\* What goes with the CRD: all EcnetConfigs of the cluster.  A CRD that is not
\* there is no error.
uninstallCustomResourceDefinitions ==
  /\ crd' = [crd EXCEPT !["ecnetconfig"] = absent]
  /\ config' = [ns \in Namespaces |-> absent]
  /\ removed' = Namespaces
  /\ pod' = [p \in Pods |-> [pod[p] EXCEPT !.fresh = @ /\ pod[p].cur \notin Namespaces \cup {"ecnetconfig"}]]

\* The CRDs, and no secrets.
uninstallClusterResources == uninstallCustomResourceDefinitions

\* deleteClusterResources: the ecnets that are left are only warned about.
DeleteClusterResources(o) ==
  /\ At_(o, "helm") /\ cmd[o].todo = {}
  /\ Ends(o)
  /\ IF cmd[o].c.all THEN uninstallClusterResources ELSE UNCHANGED <<crd, config, removed, pod>>
  /\ UNCHANGED <<preset, faults, edits, late, release, labels, count, excused, ignoredLate>>

\* The pods of a release that is gone end, some time after.
Terminate(p) ==
  /\ pod[p].pc # "off" /\ namespaceHasNoEcnet(NsOf[p])
  /\ pod' = [pod EXCEPT ![p] = Off]
  /\ UNCHANGED <<crd, config, preset, faults, edits, removed, late, cliVars>>

-----------------------------------------------------------------------------
\* meshExists.
meshExists(name) == \E r \in Controllers : release[r].label = name

\* namespace add: the ecnet is there, and no controller in the namespace itself.
AddExists(o) ==
  LET c == cmd[o].c
  IN  /\ At_(o, "exists")
      /\ IF meshExists(c.name) /\ namespaceHasNoEcnet(c.ns) THEN Goes(o, "getNsToAdd", {}, {}) ELSE Ends(o)
      /\ UNCHANGED <<podVars, release, labels, count, excused, ignoredLate>>

\* The namespace is read: one that is added already stays, and one that is
\* ignored.
AddGetNs(o) ==
  LET ns == labels[cmd[o].c.ns]
  IN  /\ At_(o, "getNsToAdd")
      /\ IF ns.monitor = cmd[o].c.name \/ ns.ignored THEN Ends(o) ELSE Goes(o, "add", {}, {})
      /\ UNCHANGED <<podVars, release, labels, count, excused, ignoredLate>>

AddPatch(o) ==
  /\ At_(o, "add")
  /\ labels' = [labels EXCEPT ![cmd[o].c.ns].monitor = cmd[o].c.name]
  /\ Ends(o)
  /\ UNCHANGED <<podVars, release, count, excused, ignoredLate>>

\* namespace remove: one that is another's stays.
RemoveGetNs(o) ==
  /\ At_(o, "getNs")
  /\ IF labels[cmd[o].c.ns].monitor = cmd[o].c.name THEN Goes(o, "remove", {}, {}) ELSE Ends(o)
  /\ UNCHANGED <<podVars, release, labels, count, excused, ignoredLate>>

\* The patch also takes the label that ignores the namespace.
RemovePatch(o) ==
  /\ At_(o, "remove")
  /\ labels' = [labels EXCEPT ![cmd[o].c.ns] = [monitor |-> absent, ignored |-> FALSE]]
  /\ Ends(o)
  /\ UNCHANGED <<podVars, release, count, excused, ignoredLate>>

\* namespace ignore.
Ignore(o) ==
  /\ At_(o, "ignore")
  /\ labels' = [labels EXCEPT ![cmd[o].c.ns].ignored = TRUE]
  /\ ignoredLate' = IF \/ labels[cmd[o].c.ns].monitor # absent
                       \/ \E p \in Operators : At_(p, "add") /\ cmd[p].c.ns = cmd[o].c.ns
                      THEN ignoredLate \cup {cmd[o].c.ns} ELSE ignoredLate
  /\ Ends(o)
  /\ UNCHANGED <<podVars, release, count, excused>>

Step(o) ==
  \/ Check(o) \/ Deploy(o) \/ Upgrade(o)
  \/ List(o) \/ HelmUninstall(o) \/ PostDelete(o) \/ DeleteNs(o) \/ DeleteClusterResources(o)
  \/ AddExists(o) \/ AddGetNs(o) \/ AddPatch(o) \/ RemoveGetNs(o) \/ RemovePatch(o) \/ Ignore(o)

Next ==
  \/ \E o \in Operators : (\E c \in Commands : Run(o, c)) \/ Step(o)
  \/ \E p \in Pods : (PodStep(p) \/ RequestFails(p) \/ FatalEvent(p)) /\ UNCHANGED cliVars
  \/ \E p \in Pods : Terminate(p)
  \/ \E ns \in Namespaces : EditConfig(ns) /\ UNCHANGED cliVars

Spec == Init /\ [][Next]_vars

\* The kubelet keeps the containers of a pod running, and they do what they do
\* next; nobody has to finish a command.
FairSpec == Spec /\ \A p \in Pods : WF_vars(PodStep(p) /\ UNCHANGED cliVars)

-----------------------------------------------------------------------------
TypeOK ==
  /\ crd \in [Crds -> {"old", "new", absent}]
  /\ \A ns \in Namespaces : config[ns] = absent \/ config[ns] \in [value : 0..MaxEdits, annotated : BOOLEAN]
  /\ preset \subseteq Namespaces /\ removed \subseteq Namespaces /\ late \subseteq Namespaces
  /\ \A r \in Releases : release[r] = absent \/ release[r] \in [status : {"failed", "deployed"}, label : Names, single : BOOLEAN]
  /\ labels \in [Namespaces -> [monitor : Names \cup {absent}, ignored : BOOLEAN]]
  /\ count \in 0..MaxCommands /\ faults \in 0..MaxFaults /\ edits \in 0..MaxEdits

\* An ecnet that enforces to be the only one is the only one, unless another
\* was installed between the checks and the deployment, or an upgrade set the
\* flag; a namespace never holds two.
SingleEnforced ==
  /\ \A r, q \in Controllers : r # q => r[1] # q[1]
  /\ \A r \in Controllers : release[r].single /\ ~excused => Controllers = {r}

\* Once an ecnet is gone and its uninstallation is over, its namespace holds
\* no EcnetConfig, though its pods may still run, unless a user wrote one or a
\* bootstrap pod created it after the hook had run.
CleanAfterUninstall ==
  \A ns \in Namespaces :
    /\ ns \in removed \ late /\ edits = 0 /\ namespaceHasNoEcnet(ns)
    /\ \A o \in Operators : At_(o, "hook") => \A m \in cmd[o].seen : m[1] # ns
    => config[ns] = absent

\* A namespace is only both ignored and part of an ecnet when it was ignored
\* after namespace add had looked.
IgnoredNotAdded ==
  \A ns \in Namespaces : labels[ns].ignored /\ labels[ns].monitor # absent => ns \in ignoredLate

\* What a command checks before it acts still holds afterwards, unless
\* somebody changed it in between: the checks of ecnet-preinstall and the look
\* of namespace add at the labels.
ChecksRespected == TypeOK /\ SingleEnforced /\ IgnoredNotAdded

\* Every ecnet that stays installed comes to serve, and goes on to, whatever
\* conflicts, failed requests and restarts its programs go through, unless CRDs
\* or EcnetConfig are deleted under it.
EventuallyServes ==
  \A p \in Pods : []<>(Readiness(p) \/ NsOf[p] \in removed \/ namespaceHasNoEcnet(NsOf[p]))
=============================================================================
