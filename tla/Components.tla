----------------------------- MODULE Components -----------------------------
(***************************************************************************)
(* The programs of an ecnet from the start of their pods until they serve: *)
(* ecnet-bootstrap brings the CRDs up to date and makes sure that there is *)
(* an EcnetConfig; ecnet-controller and ecnet-bridge wait for it, then for *)
(* their caches.  Every action is one request to the API server, which     *)
(* refuses to create what exists and to update what has changed since it   *)
(* was read.  A fatal error ends the program, and the kubelet starts it    *)
(* again.                                                                  *)
(***************************************************************************)
EXTENDS Naturals, FiniteSets, Sequences

CONSTANTS
  Namespaces,
  CrdFiles,     (* the files of /ecnet-crds in order, as names of CRDs     *)
  Bootstraps,   (* pods of ecnet-bootstrap                                 *)
  Servers,      (* pods of ecnet-controller and ecnet-bridge               *)
  Bridges,      (* the ones of ecnet-bridge                                *)
  NsOf,         (* pod -> its namespace                                    *)
  MaxFaults,    (* bound on requests that fail for no reason of their own  *)
  MaxEdits,     (* bound on what users do to the EcnetConfig               *)
  absent

\* Every pod runs in one of the namespaces.
ASSUME PodsAssumption == NsOf \in [Bootstraps \cup Servers -> Namespaces]

ASSUME BoundsAssumption == {MaxFaults, MaxEdits} \subseteq Nat

VARIABLES
  crd,          (* CRD -> "old", "new" or absent                           *)
  config,       (* namespace -> [value, annotated] or absent; value 0 is    *)
                (* the default, n the n-th edit of a user                  *)
  preset,       (* the namespaces that hold preset-ecnet-config            *)
  pod,          (* pod -> [pc, cur, todo, found, fresh]                    *)
  faults, edits,
  removed,      (* the namespaces whose CRDs or EcnetConfig were deleted   *)
  late          (* the ones whose EcnetConfig was created after the preset *)
                (* was gone                                                *)

podVars == <<crd, config, preset, pod, faults, edits, removed, late>>

Crds == {CrdFiles[i] : i \in 1..Len(CrdFiles)}

\* The chart brings some CRDs, that of the EcnetConfig among them.
ASSUME CrdsAssumption == CrdFiles \in Seq(STRING) /\ "ecnetconfig" \in Crds

\* What is not there is none of the things that may be there.
ASSUME AbsentAssumption ==
  absent \notin {"old", "new"} /\ absent \notin [value : Nat, annotated : BOOLEAN]

Pods == Bootstraps \cup Servers

Off == [pc |-> "off", cur |-> absent, todo |-> <<>>, found |-> absent, fresh |-> FALSE]

\* What a container does first; the init container has run by then.
BootstrapMain == [Off EXCEPT !.pc = "crds", !.todo = CrdFiles]
ServerMain == [Off EXCEPT !.pc = "getPod"]
Started(p) == IF p \in Bootstraps THEN BootstrapMain ELSE ServerMain

\* log.Fatal: the container starts again.
Fatal(p) == pod' = [pod EXCEPT ![p] = Started(p)]

\* A write makes stale what the other pods read of the object.
Written(obj, pods) == [q \in Pods |-> [pods[q] EXCEPT !.fresh = @ /\ pods[q].cur # obj]]

At(p, pc) == pod[p].pc = pc

Moved(p, pc) == [pod EXCEPT ![p].pc = pc]

\* A request fails: every error but NotFound and AlreadyExists is fatal.
RequestFails(p) ==
  /\ pod[p].pc \in {"crds", "putCrd", "getConfig", "getPreset", "createConfig", "updateConfig",
                    "getPod", "watchEvents", "server"}
  /\ faults < MaxFaults /\ faults' = faults + 1
  /\ Fatal(p)
  /\ UNCHANGED <<crd, config, preset, edits, removed, late>>

\* FatalEvent of a server whose Start or HTTP server fails: the same, once the
\* event is seen, its watch is closed or 10s are over.  The HTTP server is
\* started in the background, so that a program may be ready before.
FatalEvent(p) ==
  /\ p \in Servers /\ pod[p].pc \in {"server", "attach", "ready"}
  /\ faults < MaxFaults /\ faults' = faults + 1
  /\ Fatal(p)
  /\ UNCHANGED <<crd, config, preset, edits, removed, late>>

-----------------------------------------------------------------------------
\* applyOrUpdateCRDs: Get.
GetCrd(p) ==
  /\ At(p, "crds")
  /\ LET c == Head(pod[p].todo)
     IN  pod' = [pod EXCEPT ![p] = [pc |-> "putCrd", cur |-> c, todo |-> @.todo, found |-> crd[c], fresh |-> TRUE]]
  /\ UNCHANGED <<crd, config, preset, faults, edits, removed, late>>

\* Mutant: only the first file is applied.
PutCrd_OnlyFirst(p) ==
  LET c == pod[p].cur
  IN  /\ At(p, "putCrd")
      /\ crd' = [crd EXCEPT ![c] = "new"]
      /\ pod' = [Written(c, pod) EXCEPT ![p].pc = "getConfig"]
      /\ UNCHANGED <<config, preset, faults, edits, removed, late>>

\* Mutant: what exists is not updated but created once more.
PutCrd_AlwaysCreates(p) ==
  LET c    == pod[p].cur
      left == Tail(pod[p].todo)
  IN  /\ At(p, "putCrd")
      /\ IF crd[c] = absent
           THEN /\ crd' = [crd EXCEPT ![c] = "new"]
                /\ pod' = [Written(c, pod) EXCEPT ![p].pc = IF left = <<>> THEN "getConfig" ELSE "crds",
                                                  ![p].todo = left]
           ELSE Fatal(p) /\ UNCHANGED crd
      /\ UNCHANGED <<config, preset, faults, edits, removed, late>>

\* applyOrUpdateCRDs: Create, or Update with the version that was read.
PutCrd(p) ==
  LET c    == pod[p].cur
      ok   == IF pod[p].found = absent THEN crd[c] = absent ELSE crd[c] # absent /\ pod[p].fresh
      left == Tail(pod[p].todo)
  IN  /\ At(p, "putCrd")
      /\ IF ok
           THEN /\ crd' = [crd EXCEPT ![c] = "new"]
                /\ pod' = [Written(c, pod) EXCEPT ![p].pc = IF left = <<>> THEN "getConfig" ELSE "crds",
                                                  ![p].todo = left]
           ELSE Fatal(p) /\ UNCHANGED crd
      /\ UNCHANGED <<config, preset, faults, edits, removed, late>>

\* ensureEcnetConfig: Get, which finds nothing when there is no CRD either.
GetConfig(p) ==
  LET found == config[NsOf[p]]
  IN  /\ At(p, "getConfig")
      /\ pod' = [pod EXCEPT ![p] = [ pc |-> IF found = absent THEN "getPreset"
                                            ELSE IF found.annotated THEN "getPod" ELSE "updateConfig",
                                     cur |-> NsOf[p], todo |-> @.todo, found |-> found, fresh |-> TRUE ]]
      /\ UNCHANGED <<crd, config, preset, faults, edits, removed, late>>

\* createDefaultEcnetConfig: Get of the preset.
GetPreset(p) ==
  /\ At(p, "getPreset")
  /\ IF NsOf[p] \in preset THEN pod' = Moved(p, "createConfig") ELSE Fatal(p)
  /\ UNCHANGED <<crd, config, preset, faults, edits, removed, late>>

\* The preset, with the annotation for kubectl apply.
buildDefaultEcnetConfig == [value |-> 0, annotated |-> TRUE]

\* createDefaultEcnetConfig: Create; an EcnetConfig that exists by now is kept.
CreateDefaultEcnetConfig(p) ==
  LET ns == NsOf[p]
  IN  /\ At(p, "createConfig")
      /\ IF crd["ecnetconfig"] = absent THEN Fatal(p) /\ UNCHANGED <<config, late>>
         ELSE /\ config' = IF config[ns] # absent THEN config
                           ELSE [config EXCEPT ![ns] = buildDefaultEcnetConfig]
              /\ late' = IF config[ns] = absent /\ ns \notin preset THEN late \cup {ns} ELSE late
              /\ pod' = Moved(p, "getPod")
      /\ UNCHANGED <<crd, preset, faults, edits, removed>>

\* Mutant: the Update does not carry the version that was read.
UpdateConfig_Forced(p) ==
  /\ At(p, "updateConfig") /\ config[NsOf[p]] # absent
  /\ config' = [config EXCEPT ![NsOf[p]] = [value |-> pod[p].found.value, annotated |-> TRUE]]
  /\ pod' = Moved(p, "getPod")
  /\ UNCHANGED <<crd, preset, faults, edits, removed, late>>

\* ensureEcnetConfig: Update with the annotation added to what was read.
UpdateConfig(p) ==
  LET ns == NsOf[p]
  IN  /\ At(p, "updateConfig")
      /\ IF config[ns] # absent /\ pod[p].fresh
           THEN /\ config' = [config EXCEPT ![ns] = [value |-> pod[p].found.value, annotated |-> TRUE]]
                /\ pod' = [Written(ns, pod) EXCEPT ![p].pc = "getPod"]
           ELSE Fatal(p) /\ UNCHANGED config
      /\ UNCHANGED <<crd, preset, faults, edits, removed, late>>

\* getECNETBootstrapPod, getECNETControllerPod, getECNETBridgePod.
GetPod(p) ==
  /\ At(p, "getPod")
  /\ pod' = Moved(p, "watchEvents")
  /\ UNCHANGED <<crd, config, preset, faults, edits, removed, late>>

\* EventRecorder.Initialize watches the events.
Initialize(p) ==
  /\ At(p, "watchEvents")
  /\ pod' = Moved(p, IF p \in Bootstraps THEN "ready" ELSE "informers")
  /\ UNCHANGED <<crd, config, preset, faults, edits, removed, late>>

\* The health of ecnet-bootstrap, and the readiness of the servers.
Readiness(p) == At(p, "ready")

\* The init container of a server polls ecnet-bootstrap's health.
InitContainer(p) ==
  /\ At(p, "init")
  /\ \E b \in Bootstraps : NsOf[b] = NsOf[p] /\ Readiness(b)
  /\ pod' = [pod EXCEPT ![p] = Started(p)]
  /\ UNCHANGED <<crd, config, preset, faults, edits, removed, late>>

\* InformerCollection.run: no cache of a kind without a CRD ever synchronises.
CachesSynced(p) ==
  /\ At(p, "informers")
  /\ \A c \in Crds : crd[c] # absent
  /\ pod' = Moved(p, "server")
  /\ UNCHANGED <<crd, config, preset, faults, edits, removed, late>>

\* ecnet-controller: Server.Start, then the HTTP server with the probes.
StartController(p) ==
  /\ At(p, "server") /\ p \notin Bridges
  /\ pod' = Moved(p, "ready")
  /\ UNCHANGED <<crd, config, preset, faults, edits, removed, late>>

\* ecnet-bridge: Server.Start loads the eBPF programs and opens their maps, then
\* attaches them; then the same HTTP server.
LoadProgs(p) ==
  /\ At(p, "server") /\ p \in Bridges
  /\ pod' = Moved(p, "attach")
  /\ UNCHANGED <<crd, config, preset, faults, edits, removed, late>>

AttachProgs(p) ==
  /\ At(p, "attach")
  /\ pod' = Moved(p, "ready")
  /\ UNCHANGED <<crd, config, preset, faults, edits, removed, late>>

PodStep(p) ==
  \/ GetCrd(p) \/ PutCrd(p) \/ GetConfig(p) \/ GetPreset(p) \/ CreateDefaultEcnetConfig(p) \/ UpdateConfig(p)
  \/ GetPod(p) \/ Initialize(p) \/ InitContainer(p) \/ CachesSynced(p) \/ StartController(p)
  \/ LoadProgs(p) \/ AttachProgs(p)

-----------------------------------------------------------------------------
\* A user edits the EcnetConfig, or creates one, with or without annotation.
EditConfig(ns) ==
  /\ edits < MaxEdits /\ edits' = edits + 1
  /\ crd["ecnetconfig"] # absent
  /\ \E annotated \in BOOLEAN : config' = [config EXCEPT ![ns] = [value |-> edits + 1, annotated |-> annotated]]
  /\ pod' = Written(ns, pod)
  /\ UNCHANGED <<crd, preset, faults, removed, late>>

-----------------------------------------------------------------------------
\* What a user wrote into the EcnetConfig is never replaced, except by a user:
\* neither by the default nor by an earlier state that ensureEcnetConfig read.
UserConfigKept ==
  [][\A ns \in Namespaces :
       config[ns] # absent => config'[ns] = absent \/ config'[ns].value >= config[ns].value]_podVars

\* A program that serves found everything in place: the CRDs of this version,
\* and an EcnetConfig in its namespace, unless they were deleted.
ServesOnlyWithConfig ==
  \A p \in Pods : Readiness(p) /\ NsOf[p] \notin removed =>
    config[NsOf[p]] # absent /\ \A c \in Crds : crd[c] = "new"
=============================================================================
