------------------------------ MODULE RepoSync ------------------------------
(***************************************************************************)
(* How the controller keeps the Pipy repo in step with the cluster:        *)
(* Server.Start uploads the base codebase, and each job publishes the      *)
(* configuration with DeriveCodebase and Batch, one HTTP request per step. *)
(* Requests are lost before or after they take effect or are answered      *)
(* with an error status, and the controller crashes and restarts.          *)
(*                                                                         *)
(* A configuration is a number, 0 is none.  Its hash is any number of      *)
(* Width bits, and versions are unsigned numbers of Width bits that wrap.  *)
(***************************************************************************)
EXTENDS Integers

CONSTANTS
  Confs,         (* configurations the cluster's states lead to             *)
  Width,         (* bits of a hash and of a version: 64 in the code         *)
  hashOf,        (* the hash of each configuration                          *)
  Items,         (* the files of the base codebase                          *)
  MaxChanges,    (* bound on the changes of the cluster                     *)
  MaxFaults,     (* bound on faulty requests                                *)
  MaxUnhandled,  (* bound on those among them that are a GET or the derive  *)
                 (* POST answered with an error status, which the           *)
                 (* controller takes for success                            *)
  MaxCrashes     (* bound on crashes                                        *)

\* No two configurations have the same hash, and none has the hash 0 that a
\* proxy's ETag starts with.
ASSUME HashAssumption ==
  /\ \A c, d \in Confs : hashOf[c] = hashOf[d] => c = d
  /\ \A c \in Confs : hashOf[c] # 0

ASSUME RepoAssumption ==
  /\ Confs \subseteq Nat \ {0}
  /\ Width \in Nat \ {0} /\ 2^Width \in Nat \ {0, 1}
  /\ hashOf \in [Confs -> 0..(2^Width - 1)]
  /\ {MaxChanges, MaxFaults, MaxUnhandled, MaxCrashes} \subseteq Nat

VARIABLES
  cluster,       (* the configuration of the current cluster state          *)
  repo,          (* the repo's codebases "base" and "proxy"                 *)
  pc,            (* the next request of the controller                      *)
  cb,            (* the codebase Batch works on                             *)
  todo,          (* files Batch has still to upload                         *)
  codebaseV,     (* the version Batch or DeriveCodebase commits             *)
  conf,          (* the configuration the job publishes                     *)
  ETag,          (* proxy.ETag, the hash of what was published last         *)
  touched,       (* requests were sent to the proxy codebase since ETag was *)
                 (* last set                                                *)
  reverted,      (* history: the cluster went back to a configuration       *)
  unhandled,     (* error statuses taken for success                        *)
  changes, faults, crashes

volatile == <<pc, cb, todo, codebaseV, conf, ETag, touched>>
bounds   == <<reverted, unhandled, changes, faults, crashes>>
vars     == <<cluster, repo, volatile, bounds>>

Hash(c) == hashOf[c]

\* codebaseCurV-1 and codebaseCurV-2 of a uint64.
Minus(n, k) == (n - k) % 2^Width

absent == [exists |-> FALSE, version |-> 0, derived |-> FALSE, staged |-> {}, live |-> {}]

-----------------------------------------------------------------------------
(* The repo and the network.                                               *)

Unhandled == {"exists", "createGet", "waitBase", "deriveExists", "derivePost", "deriveGet"}

\* "status" is an answer with an error status.
Replies ==
  {r \in {"ok", "lostBefore", "lostAfter", "status"} :
     /\ r # "ok" => faults < MaxFaults
     /\ r = "status" /\ pc \in Unhandled => unhandled < MaxUnhandled}

Count(r) == /\ faults' = IF r = "ok" THEN faults ELSE faults + 1
            /\ unhandled' = IF r = "status" /\ pc \in Unhandled THEN unhandled + 1 ELSE unhandled
            /\ UNCHANGED <<reverted, changes, crashes>>

TakesEffect(r) == r \in {"ok", "lostAfter"}

\* A request that changes codebase c: its effect, if it has one.
Request(c, r, effect) ==
  /\ repo' = IF TakesEffect(r) THEN [repo EXCEPT ![c] = effect] ELSE repo
  /\ Count(r)
  /\ touched' = (touched \/ c = "proxy")

\* A GET of codebase c.
Found(c, r) == r = "ok" /\ repo[c].exists
Erred(r) == r \in {"lostBefore", "lostAfter"}

\* POST does not change a codebase that exists already.
Create(c, version, derived) ==
  IF repo[c].exists
    THEN repo[c]
    ELSE [absent EXCEPT !.exists = TRUE, !.version = version, !.derived = derived]

Commit(c, version) == [repo[c] EXCEPT !.version = (version + 1) % 2^Width, !.live = repo[c].staged]

-----------------------------------------------------------------------------
\* Server.Start is about to call Batch for the base codebase.
Init ==
  /\ cluster \in Confs
  /\ repo = [c \in {"base", "proxy"} |-> absent]
  /\ pc = "exists"
  /\ cb = "base"
  /\ todo = Items
  /\ codebaseV = 0
  /\ conf = 0
  /\ ETag = 0
  /\ touched = FALSE
  /\ reverted = FALSE
  /\ unhandled = 0
  /\ changes = 0
  /\ faults = 0
  /\ crashes = 0

\* Batch returns to Start or to publishSidecarConf.
BatchReturns(err) ==
  IF cb = "base"
    THEN pc' = (IF err THEN "down" ELSE "waitBase") /\ UNCHANGED ETag
    ELSE IF err
      THEN pc' = "delete" /\ UNCHANGED ETag
      ELSE pc' = "ready" /\ ETag' = Hash(conf)

\* Batch: isCodebaseExists.
BatchExists(r) ==
  /\ pc = "exists"
  /\ IF Erred(r)
       THEN BatchReturns(TRUE) /\ UNCHANGED codebaseV
       ELSE /\ pc' = IF Found(cb, r) THEN "upsert" ELSE "create"
            /\ codebaseV' = IF Found(cb, r) THEN repo[cb].version ELSE codebaseV
            /\ UNCHANGED ETag
  /\ Count(r)
  /\ UNCHANGED <<cluster, repo, cb, todo, conf, touched>>

\* createCodebase: the POST.
BatchCreate(r) ==
  /\ pc = "create"
  /\ Request(cb, r, Create(cb, IF cb = "base" THEN 0 ELSE Minus(Hash(conf), 1), FALSE))
  /\ IF r = "ok" THEN pc' = "createGet" /\ UNCHANGED ETag ELSE BatchReturns(TRUE)
  /\ UNCHANGED <<cluster, cb, todo, codebaseV, conf>>

\* createCodebase: the GET.  With an error status Batch returns neither a
\* codebase nor an error.
BatchCreateGet(r) ==
  /\ pc = "createGet"
  /\ IF Found(cb, r)
       THEN pc' = "upsert" /\ codebaseV' = repo[cb].version /\ UNCHANGED ETag
       ELSE BatchReturns(Erred(r)) /\ UNCHANGED codebaseV
  /\ Count(r)
  /\ touched' = (touched /\ ETag' = ETag)
  /\ UNCHANGED <<cluster, repo, cb, todo, conf>>

\* upsertFile of the next file.
BatchUpsert(r) ==
  /\ pc = "upsert"
  /\ \E i \in todo :
       /\ Request(cb, r, [repo[cb] EXCEPT !.staged = {f \in @ : f[1] # i} \cup {<<i, conf>>}])
       /\ todo' = IF r = "ok" THEN todo \ {i} ELSE todo
  /\ IF r = "ok"
       THEN pc' = (IF todo' = {} THEN "commit" ELSE "upsert") /\ UNCHANGED ETag
       ELSE BatchReturns(TRUE)
  /\ UNCHANGED <<cluster, cb, codebaseV, conf>>

\* Mutant: ETag is recorded even though the commit failed.
BatchCommit_AlwaysOk(r) ==
  /\ pc = "commit"
  /\ repo' = IF TakesEffect(r) THEN [repo EXCEPT ![cb] = Commit(cb, codebaseV)] ELSE repo
  /\ Count(r)
  /\ BatchReturns(FALSE)
  /\ touched' = FALSE
  /\ UNCHANGED <<cluster, cb, todo, codebaseV, conf>>

\* Mutant: the version is committed as it is.
BatchCommit_SameVersion(r) ==
  /\ pc = "commit"
  /\ repo' = IF TakesEffect(r) THEN [repo EXCEPT ![cb] = Commit(cb, codebaseV - 1)] ELSE repo
  /\ Count(r)
  /\ BatchReturns(r # "ok")
  /\ touched' = (r # "ok" /\ (touched \/ cb = "proxy"))
  /\ UNCHANGED <<cluster, cb, todo, codebaseV, conf>>

\* commit makes the uploaded files live.
BatchCommit(r) ==
  /\ pc = "commit"
  /\ repo' = IF TakesEffect(r) THEN [repo EXCEPT ![cb] = Commit(cb, codebaseV)] ELSE repo
  /\ Count(r)
  /\ BatchReturns(r # "ok")
  /\ touched' = (r # "ok" /\ (touched \/ cb = "proxy"))
  /\ UNCHANGED <<cluster, cb, todo, codebaseV, conf>>

-----------------------------------------------------------------------------
\* Start polls until the base codebase can be read: any answer will do.  After
\* 90 seconds of lost requests it gives up.
WaitBase(r) ==
  /\ pc = "waitBase"
  /\ IF Erred(r) THEN pc' \in {"waitBase", "down"} ELSE pc' = "ready"
  /\ Count(r)
  /\ UNCHANGED <<cluster, repo, cb, todo, codebaseV, conf, ETag, touched>>

\* A job computes the configuration; publishSidecarConf does nothing when it
\* is the one that ETag stands for.
Job ==
  /\ pc = "ready"
  /\ Hash(cluster) # ETag
  /\ conf' = cluster
  /\ pc' = "deriveExists"
  /\ cb' = "proxy"
  /\ todo' = {"config.json"}
  /\ UNCHANGED <<cluster, repo, codebaseV, ETag, touched, bounds>>

\* DeriveCodebase: isCodebaseExists.
DeriveExists(r) ==
  /\ pc = "deriveExists"
  /\ pc' = CASE Erred(r) -> "delete"
             [] Found("proxy", r) -> "exists"
             [] OTHER -> "derivePost"
  /\ Count(r)
  /\ UNCHANGED <<cluster, repo, cb, todo, codebaseV, conf, ETag, touched>>

\* deriveCodebase: the POST.  With an error status it reports success as well
\* as an error, and publishSidecarConf goes on to Batch.
DerivePost(r) ==
  /\ pc = "derivePost"
  /\ Request("proxy", r, Create("proxy", Minus(Hash(conf), 2), TRUE))
  /\ pc' = CASE r = "ok" -> "deriveGet"
             [] r = "status" -> "exists"
             [] OTHER -> "delete"
  /\ UNCHANGED <<cluster, cb, todo, codebaseV, conf, ETag>>

\* deriveCodebase: the GET.  With an error status there is no codebase whose
\* version could be committed, and the controller panics.
DeriveGet(r) ==
  /\ pc = "deriveGet"
  /\ pc' = CASE Erred(r) -> "delete"
             [] Found("proxy", r) -> "deriveCommit"
             [] OTHER -> "down"
  /\ codebaseV' = IF Found("proxy", r) THEN repo["proxy"].version ELSE codebaseV
  /\ Count(r)
  /\ UNCHANGED <<cluster, repo, cb, todo, conf, ETag, touched>>

DeriveCommit(r) ==
  /\ pc = "deriveCommit"
  /\ Request("proxy", r, Commit("proxy", codebaseV))
  /\ pc' = IF r = "ok" THEN "exists" ELSE "delete"
  /\ UNCHANGED <<cluster, cb, todo, codebaseV, conf, ETag>>

\* The publication failed: the codebase is deleted, if the request arrives.
Delete(r) ==
  /\ pc = "delete"
  /\ Request("proxy", r, absent)
  /\ pc' = "ready"
  /\ UNCHANGED <<cluster, cb, todo, codebaseV, conf, ETag>>

-----------------------------------------------------------------------------
ClusterChange ==
  /\ changes < MaxChanges
  /\ changes' = changes + 1
  /\ cluster' \in Confs \ {cluster}
  /\ reverted' = (reverted \/ cluster' < cluster)
  /\ UNCHANGED <<repo, volatile, unhandled, faults, crashes>>

Crash ==
  /\ pc # "down"
  /\ crashes < MaxCrashes
  /\ crashes' = crashes + 1
  /\ pc' = "down"
  /\ UNCHANGED <<cluster, repo, cb, todo, codebaseV, conf, ETag, touched, changes, faults,
                 reverted, unhandled>>

\* The container is started again: the proxy and its ETag are new.
Restart ==
  /\ pc = "down"
  /\ pc' = "exists"
  /\ cb' = "base"
  /\ todo' = Items
  /\ codebaseV' = 0
  /\ conf' = 0
  /\ ETag' = 0
  /\ touched' = FALSE
  /\ UNCHANGED <<cluster, repo, bounds>>

Reply ==
  \E r \in Replies :
    \/ BatchExists(r) \/ BatchCreate(r) \/ BatchCreateGet(r) \/ BatchUpsert(r) \/ BatchCommit(r)
    \/ WaitBase(r)
    \/ DeriveExists(r) \/ DerivePost(r) \/ DeriveGet(r) \/ DeriveCommit(r)
    \/ Delete(r)

Next == Reply \/ Job \/ ClusterChange \/ Crash \/ Restart

Spec == Init /\ [][Next]_vars

\* Every request is answered or times out, Kubernetes restarts the container,
\* and with a resync interval configured jobs keep coming.
FairSpec == Spec /\ WF_vars(Reply) /\ WF_vars(Job) /\ WF_vars(Restart)

-----------------------------------------------------------------------------
TypeOK ==
  /\ cluster \in Confs
  /\ pc \in {"exists", "create", "createGet", "upsert", "commit", "waitBase", "ready",
             "deriveExists", "derivePost", "deriveGet", "deriveCommit", "delete", "down"}
  /\ cb \in {"base", "proxy"}
  /\ conf \in Confs \cup {0}
  /\ ETag \in 0..(2^Width - 1)
  /\ touched \in BOOLEAN
  /\ faults \in 0..MaxFaults
  /\ \A c \in {"base", "proxy"} : repo[c].version \in 0..(2^Width - 1)

\* What ETag stands for is what the repo serves: a job that skips publishing
\* because the hash has not changed skips nothing, as long as no later
\* attempt to publish has been made.  One error status that is taken for
\* success may leave the codebase without its base; two of them, of which the
\* second answers the GET of createCodebase, end a publication that uploaded
\* nothing as if it had succeeded.
ETagMeansPublished ==
  /\ TypeOK
  /\ ETag # 0 /\ ~touched /\ unhandled < 2 =>
       /\ repo["proxy"].derived \/ unhandled > 0
       /\ \E c \in Confs : Hash(c) = ETag /\ repo["proxy"].live = {<<"config.json", c>>}

\* Sidecars reload when the version of their codebase changes: whatever was
\* lost, retried or interrupted, new content never appears under the version
\* that was there before.
NewContentNewVersion ==
  [][\A c \in {"base", "proxy"} :
       repo[c].exists /\ repo'[c].exists /\ repo[c].live # repo'[c].live =>
         repo[c].version # repo'[c].version]_vars

\* Once the cluster stops changing the repo ends up with its configuration,
\* unless the cluster went back to an earlier one on the way, or a second
\* error status was taken for success.
Converges == <>[](reverted \/ unhandled > 1 \/ repo["proxy"].live = {<<"config.json", cluster>>})
=============================================================================
