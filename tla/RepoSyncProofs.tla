--------------------------- MODULE RepoSyncProofs ---------------------------
(* What ETag says about the repo, and that new content has a new version.   *)
EXTENDS RepoSync, TLAPS

\* A number of Width bits.
LEMMA Wraps == \A n \in Int : n % 2^Width \in 0..(2^Width - 1)
<1>1. \A m \in Nat \ {0} : \A n \in Int : n % m \in 0..(m - 1)
  OBVIOUS
<1> QED
  BY <1>1, RepoAssumption, Zenon

\* One more is another number, also when it wraps.
LEMMA OneMoreDiffers == \A v \in 0..(2^Width - 1) : (v + 1) % 2^Width # v
<1>1. ASSUME NEW m \in Nat \ {0, 1}, NEW v \in 0..(m - 1) PROVE (v + 1) % m # v
  <2>1. CASE v + 1 = m
    <3>1. m % m = 0
      OBVIOUS
    <3> QED
      BY <2>1, <3>1
  <2>2. CASE v + 1 < m
    <3>1. (v + 1) % m = v + 1
      BY <2>2
    <3> QED
      BY <3>1
  <2> QED
    BY <2>1, <2>2
<1> QED
  BY <1>1, RepoAssumption, Zenon

-----------------------------------------------------------------------------
Codebases == {"base", "proxy"}

Versions == 0..(2^Width - 1)

IsCodebase(b) ==
  /\ b = [exists |-> b.exists, version |-> b.version, derived |-> b.derived, staged |-> b.staged, live |-> b.live]
  /\ b.version \in Versions

\* The repo holds two codebases.
RepoOK == repo = [c \in Codebases |-> repo[c]] /\ \A c \in Codebases : IsCodebase(repo[c])

Derives == {"deriveExists", "derivePost", "deriveGet", "deriveCommit"}

\* What the controller works on at each request: Start at the base codebase
\* before it has an ETag, a job at the proxy's, with one file to upload.
Places ==
  /\ TypeOK /\ unhandled \in Nat /\ codebaseV \in Versions
  /\ cb = "base" => ETag = 0 /\ ~touched
  /\ pc \in Derives \cup {"delete"} => cb = "proxy"
  /\ pc = "waitBase" => cb = "base"
  /\ cb = "proxy" => conf \in Confs
  /\ cb = "proxy" /\ pc \in Derives \cup {"exists", "create", "createGet", "upsert"} => todo = {"config.json"}

\* The version to be committed is the one of the codebase: nobody else writes
\* it between the GET and the commit.
ReadIsCurrent ==
  /\ pc \in {"upsert", "commit", "deriveCommit"} => repo[cb].exists /\ codebaseV = repo[cb].version
  /\ pc = "createGet" => repo[cb].exists

\* A proxy codebase without its base is the work of an error status that was
\* taken for success, and so is a Batch that has to create it.
OnBase ==
  /\ repo["proxy"].exists => repo["proxy"].derived \/ unhandled > 0
  /\ cb = "proxy" /\ pc = "exists" => repo["proxy"].exists \/ unhandled > 0
  /\ cb = "proxy" /\ pc \in {"create", "createGet"} => unhandled > 0

\* The only file of the proxy codebase is its configuration.
Uploaded ==
  /\ \A f \in repo["proxy"].staged : f = <<"config.json", f[2]>>
  /\ cb = "proxy" /\ pc = "commit" => repo["proxy"].staged = {<<"config.json", conf>>}

IInv == RepoOK /\ Places /\ ReadIsCurrent /\ OnBase /\ Uploaded /\ ETagMeansPublished

-----------------------------------------------------------------------------
\* The hash of a configuration.
LEMMA HashType == \A c \in Confs : Hash(c) \in Versions /\ Hash(c) # 0
BY HashAssumption, RepoAssumption, Zenon DEF Hash, Versions

\* A request to one codebase leaves the other one alone.
LEMMA OneCodebase ==
  ASSUME RepoOK, NEW c \in Codebases, NEW r, NEW effect, IsCodebase(effect), Request(c, r, effect)
  PROVE  /\ RepoOK'
         /\ \A d \in Codebases : d # c => repo'[d] = repo[d]
         /\ repo'[c] = IF TakesEffect(r) THEN effect ELSE repo[c]
<1>1. CASE TakesEffect(r)
  <2>1. repo' = [repo EXCEPT ![c] = effect]
    BY <1>1 DEF Request
  <2> QED
    BY <1>1, <2>1 DEF RepoOK
<1>2. CASE ~TakesEffect(r)
  BY <1>2 DEF Request, RepoOK
<1> QED
  BY <1>1, <1>2

\* POST leaves a codebase.
LEMMA CreateOK ==
  ASSUME RepoOK, NEW c \in Codebases, NEW v \in Versions, NEW derived
  PROVE  /\ IsCodebase(Create(c, v, derived)) /\ Create(c, v, derived).exists
         /\ repo[c].exists => Create(c, v, derived) = repo[c]
         /\ ~repo[c].exists => /\ Create(c, v, derived).derived = derived
                               /\ Create(c, v, derived).staged = {}
BY Zenon DEF RepoOK, Create, absent, IsCodebase

\* commit makes the staged files live under the next version.
LEMMA CommitOK ==
  ASSUME RepoOK, NEW c \in Codebases, NEW v \in Versions
  PROVE  /\ IsCodebase(Commit(c, v))
         /\ Commit(c, v).version = (v + 1) % 2^Width
         /\ Commit(c, v).live = repo[c].staged /\ Commit(c, v).staged = repo[c].staged
         /\ Commit(c, v).exists = repo[c].exists /\ Commit(c, v).derived = repo[c].derived
<1>1. (v + 1) % 2^Width \in Versions
  <2>1. v + 1 \in Int
    BY DEF Versions
  <2> QED
    BY <2>1, Wraps DEF Versions
<1>2. ASSUME NEW w \in Versions, NEW b, b = [repo[c] EXCEPT !.version = w, !.live = repo[c].staged]
      PROVE  /\ IsCodebase(b) /\ b.version = w
             /\ b.live = repo[c].staged /\ b.staged = repo[c].staged
             /\ b.exists = repo[c].exists /\ b.derived = repo[c].derived
  <2>1. repo[c] = [exists |-> repo[c].exists, version |-> repo[c].version, derived |-> repo[c].derived,
                   staged |-> repo[c].staged, live |-> repo[c].live]
    BY DEF RepoOK, IsCodebase
  <2>2. b = [exists |-> repo[c].exists, version |-> w, derived |-> repo[c].derived,
             staged |-> repo[c].staged, live |-> repo[c].staged]
    BY <1>2, <2>1, Zenon
  <2> QED
    BY <2>2 DEF IsCodebase
<1> QED
  BY <1>1, <1>2, ZenonT(40) DEF Commit

\* upsertFile changes the staged files only.
LEMMA UpsertOK ==
  ASSUME RepoOK, NEW c \in Codebases, NEW files, NEW b, b = [repo[c] EXCEPT !.staged = files]
  PROVE  /\ IsCodebase(b) /\ b.staged = files
         /\ b.version = repo[c].version /\ b.live = repo[c].live
         /\ b.exists = repo[c].exists /\ b.derived = repo[c].derived
BY DEF RepoOK, IsCodebase

\* A codebase that is deleted.
LEMMA AbsentOK == IsCodebase(absent) /\ ~absent.exists /\ absent.staged = {}
BY RepoAssumption DEF IsCodebase, absent, Versions

-----------------------------------------------------------------------------
\* The second part of ETagMeansPublished.
Published ==
  ETag # 0 /\ ~touched /\ unhandled < 2 =>
    /\ repo["proxy"].derived \/ unhandled > 0
    /\ \E c \in Confs : Hash(c) = ETag /\ repo["proxy"].live = {<<"config.json", c>>}

\* What a step may do to the codebases.
NewVersion ==
  \A c \in Codebases :
    repo[c].exists /\ repo'[c].exists /\ repo[c].live # repo'[c].live => repo[c].version # repo'[c].version

\* Faults and unhandled statuses are counted.
LEMMA Counted ==
  ASSUME Places, NEW r \in Replies, Count(r)
  PROVE  /\ faults' \in 0..MaxFaults /\ unhandled' \in Nat /\ unhandled' >= unhandled
         /\ r = "status" /\ pc \in Unhandled => unhandled' > unhandled
<1>1. faults \in 0..MaxFaults /\ MaxFaults \in Nat /\ unhandled \in Nat
  BY RepoAssumption DEF Places, TypeOK
<1>2. r # "ok" => faults < MaxFaults
  BY DEF Replies
<1> QED
  BY <1>1, <1>2 DEF Count

\* What Batch returns to.
LEMMA Returned ==
  ASSUME Places, NEW err \in BOOLEAN, BatchReturns(err)
  PROVE  /\ err => UNCHANGED ETag /\ pc' = IF cb = "base" THEN "down" ELSE "delete"
         /\ ~err /\ cb = "base" => UNCHANGED ETag /\ pc' = "waitBase"
         /\ ~err /\ cb = "proxy" => ETag' = Hash(conf) /\ pc' = "ready"
         /\ cb \in Codebases
BY DEF Places, TypeOK, BatchReturns, Codebases

\* A step that leaves the repo and the ETag alone.
LEMMA SameRepo ==
  ASSUME IInv, UNCHANGED <<repo, ETag, touched>>, unhandled' \in Nat, unhandled' >= unhandled
  PROVE  /\ RepoOK' /\ Published' /\ NewVersion
         /\ repo'["proxy"].exists => repo'["proxy"].derived \/ unhandled' > 0
         /\ \A f \in repo'["proxy"].staged : f = <<"config.json", f[2]>>
<1>1. unhandled \in Nat
  BY DEF IInv, Places
<1>2. RepoOK' /\ NewVersion
  BY DEF IInv, RepoOK, NewVersion
<1>3. Published'
  <2>1. Published
    BY DEF IInv, ETagMeansPublished, Published
  <2> QED
    BY <1>1, <2>1 DEF Published
<1>4. repo'["proxy"].exists => repo'["proxy"].derived \/ unhandled' > 0
  BY <1>1 DEF IInv, OnBase
<1>5. \A f \in repo'["proxy"].staged : f = <<"config.json", f[2]>>
  BY DEF IInv, Uploaded
<1> QED
  BY <1>2, <1>3, <1>4, <1>5

\* Batch looks for the codebase.
LEMMA BatchExistsStep ==
  ASSUME IInv, NEW r \in Replies, BatchExists(r) PROVE IInv' /\ NewVersion
<1>1. pc = "exists" /\ UNCHANGED <<cluster, repo, cb, todo, conf, ETag, touched>>
  BY DEF BatchExists, BatchReturns
<1>2. faults' \in 0..MaxFaults /\ unhandled' \in Nat /\ unhandled' >= unhandled
      /\ (r = "status" => unhandled' > unhandled)
  BY <1>1, Counted DEF IInv, BatchExists, Unhandled
<1>3. \/ pc' = (IF cb = "base" THEN "down" ELSE "delete") /\ UNCHANGED codebaseV
      \/ pc' = "upsert" /\ codebaseV' = repo[cb].version /\ repo[cb].exists
      \/ pc' = "create" /\ UNCHANGED codebaseV /\ (r = "status" \/ ~repo[cb].exists)
  <2>1. CASE Erred(r)
    BY <2>1 DEF BatchExists, BatchReturns, IInv, Places, TypeOK
  <2>2. CASE ~Erred(r)
    BY <2>2 DEF BatchExists, Found, Erred, Replies
  <2> QED
    BY <2>1, <2>2
<1>4. Places /\ cb \in Codebases /\ \A c \in Codebases : repo[c].version \in Versions
  BY DEF IInv, RepoOK, IsCodebase, Places, TypeOK, Codebases
<1>5. Places'
  BY <1>1, <1>2, <1>3, <1>4 DEF Places, TypeOK, Derives, Versions
<1>6. RepoOK' /\ Published' /\ NewVersion
  BY <1>1, <1>2, SameRepo
<1>7. ReadIsCurrent'
  BY <1>1, <1>3 DEF ReadIsCurrent
<1>8. OnBase'
  <2>1. unhandled \in Nat /\ (cb = "proxy" => repo["proxy"].exists \/ unhandled > 0)
    BY <1>1 DEF IInv, Places, OnBase
  <2>2. cb = "proxy" /\ pc' = "create" => unhandled' > 0
    BY <1>2, <1>3, <2>1
  <2>3. repo'["proxy"].exists => repo'["proxy"].derived \/ unhandled' > 0
    BY <1>1, <1>2, SameRepo
  <2> QED
    BY <1>1, <1>3, <2>2, <2>3 DEF OnBase
<1>9. Uploaded'
  BY <1>1, <1>3 DEF IInv, Uploaded
<1> QED
  BY <1>5, <1>6, <1>7, <1>8, <1>9 DEF IInv, ETagMeansPublished, Published, Places

\* A step that leaves repo and ETag alone and leads to none of Batch's later
\* requests.
LEMMA QuietStep ==
  ASSUME IInv, UNCHANGED <<repo, ETag, touched>>, unhandled' \in Nat, unhandled' >= unhandled, Places',
         pc' \notin {"create", "createGet", "upsert", "commit"},
         pc' = "deriveCommit" => repo["proxy"].exists /\ codebaseV' = repo["proxy"].version,
         cb' = "proxy" /\ pc' = "exists" => repo["proxy"].exists \/ unhandled' > 0
  PROVE  IInv' /\ NewVersion
<1>1. ReadIsCurrent'
  BY DEF ReadIsCurrent, Places, Derives
<1>2. OnBase' /\ Uploaded'
  BY SameRepo DEF OnBase, Uploaded
<1> QED
  BY <1>1, <1>2, SameRepo DEF IInv, ETagMeansPublished, Published, Places

\* Start waits for the base codebase.
LEMMA WaitBaseStep ==
  ASSUME IInv, NEW r \in Replies, WaitBase(r) PROVE IInv' /\ NewVersion
<1>1. /\ UNCHANGED <<cluster, repo, cb, todo, codebaseV, conf, ETag, touched>>
      /\ cb = "base" /\ pc' \in {"waitBase", "down", "ready"}
  BY DEF WaitBase, IInv, Places
<1>2. faults' \in 0..MaxFaults /\ unhandled' \in Nat /\ unhandled' >= unhandled
  BY Counted DEF IInv, WaitBase
<1>3. Places'
  BY <1>1, <1>2 DEF IInv, Places, TypeOK, Derives
<1> QED
  BY <1>1, <1>2, <1>3, QuietStep

\* A job starts.
LEMMA JobStep ==
  ASSUME IInv, Job PROVE IInv' /\ NewVersion
<1>1. /\ UNCHANGED <<cluster, repo, codebaseV, ETag, touched, unhandled, faults>>
      /\ cb' = "proxy" /\ pc' = "deriveExists" /\ todo' = {"config.json"} /\ conf' = cluster
  BY DEF Job, bounds
<1>2. Places'
  BY <1>1 DEF IInv, Places, TypeOK, Derives
<1>3. unhandled' \in Nat /\ unhandled' >= unhandled
  BY <1>1 DEF IInv, Places
<1> QED
  BY <1>1, <1>2, <1>3, QuietStep

\* DeriveCodebase looks for the codebase.
LEMMA DeriveExistsStep ==
  ASSUME IInv, NEW r \in Replies, DeriveExists(r) PROVE IInv' /\ NewVersion
<1>1. /\ pc = "deriveExists" /\ cb = "proxy"
      /\ UNCHANGED <<cluster, repo, cb, todo, codebaseV, conf, ETag, touched>>
  BY DEF DeriveExists, IInv, Places, Derives
<1>2. pc' \in {"delete", "exists", "derivePost"} /\ (pc' = "exists" => repo["proxy"].exists)
  BY DEF DeriveExists, Found
<1>3. faults' \in 0..MaxFaults /\ unhandled' \in Nat /\ unhandled' >= unhandled
  BY Counted DEF IInv, DeriveExists
<1>4. Places'
  BY <1>1, <1>2, <1>3 DEF IInv, Places, TypeOK, Derives
<1> QED
  BY <1>1, <1>2, <1>3, <1>4, QuietStep

\* deriveCodebase reads the version.
LEMMA DeriveGetStep ==
  ASSUME IInv, NEW r \in Replies, DeriveGet(r) PROVE IInv' /\ NewVersion
<1>1. /\ pc = "deriveGet" /\ cb = "proxy"
      /\ UNCHANGED <<cluster, repo, cb, todo, conf, ETag, touched>>
  BY DEF DeriveGet, IInv, Places, Derives
<1>2. /\ pc' \in {"delete", "deriveCommit", "down"}
      /\ pc' = "deriveCommit" => repo["proxy"].exists /\ codebaseV' = repo["proxy"].version
      /\ codebaseV' \in {codebaseV, repo["proxy"].version}
  BY DEF DeriveGet, Found
<1>3. faults' \in 0..MaxFaults /\ unhandled' \in Nat /\ unhandled' >= unhandled
  BY Counted DEF IInv, DeriveGet
<1>4. codebaseV' \in Versions
  BY <1>2 DEF IInv, Places, RepoOK, IsCodebase, Codebases
<1>5. Places'
  BY <1>1, <1>2, <1>3, <1>4 DEF IInv, Places, TypeOK, Derives
<1> QED
  BY <1>1, <1>2, <1>3, <1>5, QuietStep

\* The controller crashes.
LEMMA CrashStep ==
  ASSUME IInv, Crash PROVE IInv' /\ NewVersion
<1>1. UNCHANGED <<cluster, repo, cb, todo, codebaseV, conf, ETag, touched, unhandled, faults>> /\ pc' = "down"
  BY DEF Crash
<1>2. Places'
  BY <1>1 DEF IInv, Places, TypeOK, Derives
<1>3. unhandled' \in Nat /\ unhandled' >= unhandled
  BY <1>1 DEF IInv, Places
<1> QED
  BY <1>1, <1>2, <1>3, QuietStep

\* It is started again, without an ETag.
LEMMA RestartStep ==
  ASSUME IInv, Restart PROVE IInv' /\ NewVersion
<1>1. /\ UNCHANGED <<cluster, repo, unhandled, faults>>
      /\ pc' = "exists" /\ cb' = "base" /\ codebaseV' = 0 /\ conf' = 0 /\ ETag' = 0 /\ touched' = FALSE
  BY DEF Restart, bounds
<1>2. Places'
  <2>1. 0 \in Versions
    BY RepoAssumption DEF Versions
  <2> QED
    BY <1>1, <2>1, Zenon DEF IInv, Places, TypeOK, Derives, Versions
<1>3. RepoOK' /\ NewVersion
  BY <1>1 DEF IInv, RepoOK, NewVersion
<1>4. ReadIsCurrent' /\ OnBase' /\ Uploaded'
  BY <1>1 DEF IInv, ReadIsCurrent, OnBase, Uploaded
<1>5. Published'
  BY <1>1 DEF Published
<1> QED
  BY <1>2, <1>3, <1>4, <1>5 DEF IInv, ETagMeansPublished, Published, Places

\* The cluster changes, or nothing does.
LEMMA ElsewhereStep ==
  ASSUME IInv, cluster' \in Confs, UNCHANGED <<repo, volatile, unhandled, faults>> PROVE IInv' /\ NewVersion
<1>1. Places' /\ ReadIsCurrent'
  BY DEF IInv, Places, TypeOK, ReadIsCurrent, volatile
<1>3. Published'
  BY DEF IInv, ETagMeansPublished, Published, volatile
<1>2. OnBase' /\ Uploaded' /\ RepoOK' /\ NewVersion
  BY DEF IInv, OnBase, Uploaded, RepoOK, NewVersion, volatile
<1> QED
  BY <1>1, <1>2, <1>3 DEF IInv, ETagMeansPublished, Published, Places

-----------------------------------------------------------------------------
\* n minus k, as an unsigned number.
LEMMA MinusType == \A c \in Confs, k \in {1, 2} : Minus(Hash(c), k) \in Versions
<1> SUFFICES ASSUME NEW c \in Confs, NEW k \in {1, 2} PROVE Minus(Hash(c), k) \in Versions
  OBVIOUS
<1>1. Hash(c) - k \in Int
  BY HashType DEF Versions
<1> QED
  BY <1>1, Wraps DEF Minus, Versions

\* A request that changes a codebase makes ETag say nothing.
LEMMA RequestTouches ==
  ASSUME IInv, NEW r, NEW effect, Request(cb, r, effect), UNCHANGED <<ETag, cb>> PROVE Published'
BY Zenon DEF IInv, Places, TypeOK, Request, Published

\* createCodebase posts.
LEMMA BatchCreateStep ==
  ASSUME IInv, NEW r \in Replies, BatchCreate(r) PROVE IInv' /\ NewVersion
<1> DEFINE v == IF cb = "base" THEN 0 ELSE Minus(Hash(conf), 1)
           effect == Create(cb, v, FALSE)
<1>1. pc = "create" /\ UNCHANGED <<cluster, cb, todo, codebaseV, conf>> /\ Request(cb, r, effect)
  BY Zenon DEF BatchCreate
<1>2. RepoOK /\ Places /\ cb \in Codebases
  BY DEF IInv, Places, TypeOK, Codebases
<1>3. /\ UNCHANGED ETag /\ pc' \in {"createGet", IF cb = "base" THEN "down" ELSE "delete"}
      /\ pc' = "createGet" => TakesEffect(r)
  BY <1>2, Returned, Zenon DEF BatchCreate, TakesEffect
<1>4. v \in Versions
  <2>1. 0 \in Versions
    BY RepoAssumption DEF Versions
  <2> QED
    BY <1>2, <2>1, MinusType DEF Places, Codebases
<1> HIDE DEF v
<1>5. /\ IsCodebase(effect) /\ effect.exists /\ (repo[cb].exists => effect = repo[cb])
      /\ ~repo[cb].exists => effect.staged = {}
  BY <1>2, <1>4, CreateOK, Zenon
<1> HIDE DEF effect
<1>6. /\ RepoOK' /\ \A d \in Codebases : d # cb => repo'[d] = repo[d]
      /\ repo'[cb] = IF TakesEffect(r) THEN effect ELSE repo[cb]
  BY <1>1, <1>2, <1>5, OneCodebase
<1>7. /\ faults' \in 0..MaxFaults /\ unhandled' \in Nat /\ unhandled' >= unhandled
      /\ touched' = (touched \/ cb = "proxy")
  BY <1>1, <1>2, Counted DEF Request
<1>8. Places'
  <2>1. \A c \in {"base", "proxy"} : repo'[c].version \in 0..(2^Width - 1)
    BY <1>6 DEF RepoOK, IsCodebase, Codebases, Versions
  <2> QED
    BY <1>1, <1>2, <1>3, <1>7, <2>1 DEF Places, TypeOK, Derives
<1>9. ReadIsCurrent'
  BY <1>1, <1>3, <1>5, <1>6 DEF ReadIsCurrent
<1>10. OnBase'
  <2>1. unhandled \in Nat /\ (cb = "proxy" => unhandled > 0)
    BY <1>1 DEF IInv, Places, OnBase
  <2>2. cb = "base" => repo'["proxy"] = repo["proxy"]
    BY <1>6 DEF Codebases
  <2> QED
    BY <1>1, <1>2, <1>3, <1>7, <2>1, <2>2 DEF IInv, OnBase, Codebases
<1>11. Uploaded'
  <2>1. repo'["proxy"].staged \in {repo["proxy"].staged, {}}
    BY <1>2, <1>5, <1>6 DEF Codebases
  <2> QED
    BY <1>3, <2>1 DEF IInv, Uploaded
<1>12. Published'
  BY <1>1, <1>3, RequestTouches
<1>13. NewVersion
  BY <1>2, <1>5, <1>6 DEF NewVersion
<1> QED
  BY <1>6, <1>8, <1>9, <1>10, <1>11, <1>12, <1>13 DEF IInv, ETagMeansPublished, Published, Places

\* createCodebase reads what it created.
LEMMA BatchCreateGetStep ==
  ASSUME IInv, NEW r \in Replies, BatchCreateGet(r) PROVE IInv' /\ NewVersion
<1>1. pc = "createGet" /\ UNCHANGED <<cluster, repo, cb, todo, conf>> /\ touched' = (touched /\ ETag' = ETag)
  BY DEF BatchCreateGet
<1>2. RepoOK /\ Places /\ cb \in Codebases
  BY DEF IInv, Places, TypeOK, Codebases
<1>3. /\ faults' \in 0..MaxFaults /\ unhandled' \in Nat /\ unhandled' >= unhandled
      /\ r = "status" => unhandled' > unhandled
  BY <1>1, <1>2, Counted DEF BatchCreateGet, Unhandled
<1>4. \/ pc' = "upsert" /\ codebaseV' = repo[cb].version /\ repo[cb].exists /\ UNCHANGED ETag
      \/ UNCHANGED <<codebaseV, ETag>> /\ pc' = IF cb = "base" THEN "down" ELSE "delete"
      \/ UNCHANGED <<codebaseV, ETag>> /\ cb = "base" /\ pc' = "waitBase"
      \/ /\ cb = "proxy" /\ ETag' = Hash(conf) /\ pc' = "ready" /\ UNCHANGED codebaseV
         /\ r = "status" \/ ~repo["proxy"].exists
  <2>1. CASE Found(cb, r)
    BY <2>1 DEF BatchCreateGet, Found
  <2>2. CASE ~Found(cb, r)
    <3>1. BatchReturns(Erred(r)) /\ UNCHANGED codebaseV
      BY <2>2 DEF BatchCreateGet
    <3>2. Erred(r) \in BOOLEAN /\ (~Erred(r) => r = "status" \/ ~repo[cb].exists)
      BY <2>2 DEF Erred, Found, Replies
    <3> QED
      BY <1>2, <3>1, <3>2, Returned DEF Codebases
  <2> QED
    BY <2>1, <2>2

<1>5. Places'
  <2>1. \A c \in Codebases : repo[c].version \in Versions
    BY <1>2 DEF RepoOK, IsCodebase
  <2>2. touched' \in BOOLEAN /\ (~touched => ~touched')
    BY <1>1, <1>2, Zenon DEF Places, TypeOK
  <2>3. ETag' \in 0..(2^Width - 1) /\ (cb = "base" => UNCHANGED ETag)
    BY <1>2, <1>4, HashType DEF Places, TypeOK, Versions, Codebases
  <2> QED
    BY <1>1, <1>2, <1>3, <1>4, <2>1, <2>2, <2>3 DEF Places, TypeOK, Derives
<1>6. ReadIsCurrent'
  BY <1>1, <1>4 DEF ReadIsCurrent
<1>7. OnBase' /\ Uploaded' /\ RepoOK' /\ NewVersion
  <2>1. unhandled \in Nat
    BY <1>2 DEF Places
  <2>2. OnBase'
    BY <1>1, <1>3, <1>4, <2>1 DEF IInv, OnBase
  <2>3. Uploaded' /\ RepoOK' /\ NewVersion
    BY <1>1, <1>2, <1>4 DEF IInv, Uploaded, RepoOK, NewVersion
  <2> QED
    BY <2>2, <2>3
<1>8. Published'
  <2>1. CASE cb = "base"
    BY <1>2, <1>4, <2>1 DEF Published, Places
  <2>2. CASE cb = "proxy" /\ UNCHANGED ETag
    <3>1. unhandled \in Nat /\ Published
      BY DEF IInv, Places, ETagMeansPublished, Published
    <3>2. ~touched' => ~touched
      BY <1>1, <2>2, Zenon
    <3> QED
      BY <1>1, <1>3, <2>2, <3>1, <3>2 DEF Published
  <2>3. CASE cb = "proxy" /\ r = "status"
    <3>1. unhandled \in Nat /\ unhandled > 0
      BY <1>1, <2>3 DEF IInv, Places, OnBase
    <3> QED
      BY <1>3, <2>3, <3>1 DEF Published
  <2> QED
    BY <1>1, <1>2, <1>4, <2>1, <2>2, <2>3 DEF Codebases, IInv, ReadIsCurrent
<1> QED
  BY <1>5, <1>6, <1>7, <1>8 DEF IInv, ETagMeansPublished, Published, Places

\* upsertFile: the proxy codebase gets its one file.
LEMMA BatchUpsertStep ==
  ASSUME IInv, NEW r \in Replies, BatchUpsert(r) PROVE IInv' /\ NewVersion
<1>1. pc = "upsert" /\ UNCHANGED <<cluster, cb, codebaseV, conf>>
  BY DEF BatchUpsert
<1>2. RepoOK /\ Places /\ cb \in Codebases
  BY DEF IInv, Places, TypeOK, Codebases
<1>3. PICK i \in todo :
        /\ Request(cb, r, [repo[cb] EXCEPT !.staged = {f \in @ : f[1] # i} \cup {<<i, conf>>}])
        /\ todo' = IF r = "ok" THEN todo \ {i} ELSE todo
  BY Zenon DEF BatchUpsert
<1> DEFINE files == {f \in repo[cb].staged : f[1] # i} \cup {<<i, conf>>}
           effect == [repo[cb] EXCEPT !.staged = files]
<1>4. /\ UNCHANGED ETag
      /\ \/ pc' = "upsert" /\ r = "ok" /\ todo' # {}
         \/ pc' = "commit" /\ r = "ok" /\ todo' = {}
         \/ pc' = (IF cb = "base" THEN "down" ELSE "delete") /\ r # "ok"
  BY <1>2, Returned, Zenon DEF BatchUpsert
<1>5. cb = "proxy" => i = "config.json" /\ files = {<<"config.json", conf>>}
  <2>1. cb = "proxy" => i = "config.json"
    BY <1>1, <1>2, <1>3 DEF Places
  <2>2. cb = "proxy" => \A f \in repo[cb].staged : f[1] = "config.json"
    BY DEF IInv, Uploaded
  <2> QED
    BY <2>1, <2>2
<1> HIDE DEF files
<1>6. /\ IsCodebase(effect) /\ effect.staged = files /\ effect.version = repo[cb].version
      /\ effect.live = repo[cb].live /\ effect.exists = repo[cb].exists /\ effect.derived = repo[cb].derived
  BY <1>2, UpsertOK
<1>7. Request(cb, r, effect)
  BY <1>3 DEF files
<1> HIDE DEF effect
<1>8. /\ RepoOK' /\ \A d \in Codebases : d # cb => repo'[d] = repo[d]
      /\ repo'[cb] = IF TakesEffect(r) THEN effect ELSE repo[cb]
  BY <1>2, <1>6, <1>7, OneCodebase
<1>9. /\ faults' \in 0..MaxFaults /\ unhandled' \in Nat /\ unhandled' >= unhandled
      /\ touched' = (touched \/ cb = "proxy")
  BY <1>2, <1>7, Counted DEF Request
<1>10. Places'
  <2>1. \A c \in {"base", "proxy"} : repo'[c].version \in 0..(2^Width - 1)
    BY <1>8 DEF RepoOK, IsCodebase, Codebases, Versions
  <2>2. cb = "proxy" => todo' = (IF r = "ok" THEN {} ELSE todo)
    BY <1>1, <1>2, <1>3 DEF Places
  <2> QED
    BY <1>1, <1>2, <1>4, <1>9, <2>1, <2>2 DEF Places, TypeOK, Derives
<1>11. ReadIsCurrent'
  BY <1>1, <1>4, <1>6, <1>8 DEF IInv, ReadIsCurrent
<1>12. OnBase'
  <2>1. repo'["proxy"].exists = repo["proxy"].exists /\ repo'["proxy"].derived = repo["proxy"].derived
    BY <1>2, <1>6, <1>8 DEF Codebases
  <2>2. unhandled \in Nat
    BY <1>2 DEF Places
  <2> QED
    BY <1>4, <1>9, <2>1, <2>2 DEF IInv, OnBase
<1>13. Uploaded'
  <2>1. cb = "base" => repo'["proxy"] = repo["proxy"]
    BY <1>8 DEF Codebases
  <2>2. cb = "proxy" => repo'["proxy"].staged = IF TakesEffect(r) THEN {<<"config.json", conf>>} ELSE repo["proxy"].staged
    BY <1>5, <1>6, <1>8
  <2> QED
    BY <1>1, <1>2, <1>4, <2>1, <2>2 DEF IInv, Uploaded, TakesEffect, Codebases
<1>14. Published'
  BY <1>1, <1>4, <1>7, RequestTouches
<1>15. NewVersion
  BY <1>2, <1>6, <1>8 DEF NewVersion
<1> QED
  BY <1>8, <1>10, <1>11, <1>12, <1>13, <1>14, <1>15 DEF IInv, ETagMeansPublished, Published, Places

\* deriveCodebase posts.
LEMMA DerivePostStep ==
  ASSUME IInv, NEW r \in Replies, DerivePost(r) PROVE IInv' /\ NewVersion
<1> DEFINE v == Minus(Hash(conf), 2)
           effect == Create("proxy", v, TRUE)
<1>1. /\ pc = "derivePost" /\ UNCHANGED <<cluster, cb, todo, codebaseV, conf, ETag>>
      /\ Request("proxy", r, effect)
      /\ pc' \in {"deriveGet", "exists", "delete"} /\ (pc' = "exists" => r = "status")
  BY Zenon DEF DerivePost
<1>2. RepoOK /\ Places /\ cb = "proxy" /\ "proxy" \in Codebases
  BY <1>1 DEF IInv, Places, TypeOK, Codebases, Derives
<1>3. v \in Versions
  BY <1>2, MinusType DEF Places
<1> HIDE DEF v
<1>4. /\ IsCodebase(effect) /\ (repo["proxy"].exists => effect = repo["proxy"])
      /\ ~repo["proxy"].exists => effect.staged = {} /\ effect.derived = TRUE
  <2>1. \A derived : /\ IsCodebase(Create("proxy", v, derived))
                     /\ repo["proxy"].exists => Create("proxy", v, derived) = repo["proxy"]
                     /\ ~repo["proxy"].exists => /\ Create("proxy", v, derived).derived = derived
                                                 /\ Create("proxy", v, derived).staged = {}
    BY <1>2, <1>3, CreateOK
  <2> QED
    BY <2>1, Zenon
<1> HIDE DEF effect
<1>5. /\ RepoOK' /\ \A d \in Codebases : d # "proxy" => repo'[d] = repo[d]
      /\ repo'["proxy"] = IF TakesEffect(r) THEN effect ELSE repo["proxy"]
  BY <1>1, <1>2, <1>4, OneCodebase
<1>6. /\ faults' \in 0..MaxFaults /\ unhandled' \in Nat /\ unhandled' >= unhandled
      /\ touched' = TRUE /\ (r = "status" => unhandled' > unhandled)
  <2>1. Count(r) /\ touched' = TRUE
    BY <1>1, Zenon DEF Request
  <2> QED
    BY <1>1, <1>2, <2>1, Counted DEF Unhandled
<1>7. Places'
  <2>1. \A c \in {"base", "proxy"} : repo'[c].version \in 0..(2^Width - 1)
    BY <1>5 DEF RepoOK, IsCodebase, Codebases, Versions
  <2> QED
    BY <1>1, <1>2, <1>6, <2>1 DEF Places, TypeOK, Derives
<1>8. ReadIsCurrent' /\ Published'
  BY <1>1, <1>6 DEF ReadIsCurrent, Published
<1>9. OnBase'
  <2>1. unhandled \in Nat
    BY <1>2 DEF Places
  <2>2. repo'["proxy"].exists => repo'["proxy"].derived \/ unhandled' > 0
    BY <1>4, <1>5, <1>6, <2>1 DEF IInv, OnBase
  <2> QED
    BY <1>1, <1>6, <2>1, <2>2 DEF OnBase
<1>10. Uploaded'
  <2>1. repo'["proxy"].staged \in {repo["proxy"].staged, {}}
    BY <1>4, <1>5
  <2> QED
    BY <1>1, <2>1 DEF IInv, Uploaded
<1>11. NewVersion
  BY <1>4, <1>5 DEF NewVersion
<1> QED
  BY <1>5, <1>7, <1>8, <1>9, <1>10, <1>11 DEF IInv, ETagMeansPublished, Published, Places

\* deriveCodebase commits.
LEMMA DeriveCommitStep ==
  ASSUME IInv, NEW r \in Replies, DeriveCommit(r) PROVE IInv' /\ NewVersion
<1> DEFINE effect == Commit("proxy", codebaseV)
<1>1. /\ pc = "deriveCommit" /\ UNCHANGED <<cluster, cb, todo, codebaseV, conf, ETag>>
      /\ Request("proxy", r, effect) /\ pc' \in {"exists", "delete"}
  BY DEF DeriveCommit
<1>2. RepoOK /\ Places /\ cb = "proxy" /\ "proxy" \in Codebases
  BY <1>1 DEF IInv, Places, TypeOK, Codebases, Derives
<1>3. repo["proxy"].exists /\ codebaseV = repo["proxy"].version /\ codebaseV \in Versions
  BY <1>1, <1>2 DEF IInv, ReadIsCurrent, Places
<1>4. /\ IsCodebase(effect) /\ effect.version = (codebaseV + 1) % 2^Width /\ effect.staged = repo["proxy"].staged
      /\ effect.exists = repo["proxy"].exists /\ effect.derived = repo["proxy"].derived
  BY <1>2, <1>3, CommitOK, Zenon
<1> HIDE DEF effect
<1>5. effect.version # repo["proxy"].version
  BY <1>3, <1>4, OneMoreDiffers DEF Versions
<1>6. /\ RepoOK' /\ \A d \in Codebases : d # "proxy" => repo'[d] = repo[d]
      /\ repo'["proxy"] = IF TakesEffect(r) THEN effect ELSE repo["proxy"]
  BY <1>1, <1>2, <1>4, OneCodebase
<1>7. faults' \in 0..MaxFaults /\ unhandled' \in Nat /\ unhandled' >= unhandled /\ touched' = TRUE
  <2>1. Count(r) /\ touched' = TRUE
    BY <1>1, Zenon DEF Request
  <2> QED
    BY <1>2, <2>1, Counted
<1>8. Places'
  <2>1. \A c \in {"base", "proxy"} : repo'[c].version \in 0..(2^Width - 1)
    BY <1>6 DEF RepoOK, IsCodebase, Codebases, Versions
  <2> QED
    BY <1>1, <1>2, <1>7, <2>1 DEF Places, TypeOK, Derives
<1>9. ReadIsCurrent' /\ Published'
  BY <1>1, <1>7 DEF ReadIsCurrent, Published
<1>10. OnBase' /\ Uploaded'
  <2>1. /\ repo'["proxy"].exists = repo["proxy"].exists /\ repo'["proxy"].derived = repo["proxy"].derived
        /\ repo'["proxy"].staged = repo["proxy"].staged
    BY <1>4, <1>6
  <2>2. unhandled \in Nat
    BY <1>2 DEF Places
  <2> QED
    BY <1>1, <1>3, <1>7, <2>1, <2>2 DEF IInv, OnBase, Uploaded
<1>11. NewVersion
  BY <1>5, <1>6 DEF NewVersion
<1> QED
  BY <1>6, <1>8, <1>9, <1>10, <1>11 DEF IInv, ETagMeansPublished, Published, Places

\* The proxy codebase is deleted.
LEMMA DeleteStep ==
  ASSUME IInv, NEW r \in Replies, Delete(r) PROVE IInv' /\ NewVersion
<1>1. /\ pc = "delete" /\ UNCHANGED <<cluster, cb, todo, codebaseV, conf, ETag>>
      /\ Request("proxy", r, absent) /\ pc' = "ready"
  BY DEF Delete
<1>2. RepoOK /\ Places /\ cb = "proxy" /\ "proxy" \in Codebases
  BY <1>1 DEF IInv, Places, TypeOK, Codebases
<1>3. /\ RepoOK' /\ \A d \in Codebases : d # "proxy" => repo'[d] = repo[d]
      /\ repo'["proxy"] = IF TakesEffect(r) THEN absent ELSE repo["proxy"]
  BY <1>1, <1>2, AbsentOK, OneCodebase
<1>4. faults' \in 0..MaxFaults /\ unhandled' \in Nat /\ unhandled' >= unhandled /\ touched' = TRUE
  <2>1. Count(r) /\ touched' = TRUE
    BY <1>1, Zenon DEF Request
  <2> QED
    BY <1>2, <2>1, Counted
<1>5. Places'
  <2>1. \A c \in {"base", "proxy"} : repo'[c].version \in 0..(2^Width - 1)
    BY <1>3 DEF RepoOK, IsCodebase, Codebases, Versions
  <2> QED
    BY <1>1, <1>2, <1>4, <2>1 DEF Places, TypeOK, Derives
<1>6. ReadIsCurrent' /\ Published'
  BY <1>1, <1>4 DEF ReadIsCurrent, Published
<1>7. OnBase' /\ Uploaded'
  <2>1. repo'["proxy"] = repo["proxy"] \/ (~repo'["proxy"].exists /\ repo'["proxy"].staged = {})
    BY <1>3, AbsentOK
  <2>2. unhandled \in Nat
    BY <1>2 DEF Places
  <2> QED
    BY <1>1, <1>4, <2>1, <2>2 DEF IInv, OnBase, Uploaded
<1>8. NewVersion
  BY <1>3, AbsentOK DEF NewVersion
<1> QED
  BY <1>3, <1>5, <1>6, <1>7, <1>8 DEF IInv, ETagMeansPublished, Published, Places

\* commit: the file that was uploaded becomes what the repo serves.
LEMMA BatchCommitStep ==
  ASSUME IInv, NEW r \in Replies, BatchCommit(r) PROVE IInv' /\ NewVersion
<1> DEFINE effect == Commit(cb, codebaseV)
<1>1. /\ pc = "commit" /\ UNCHANGED <<cluster, cb, todo, codebaseV, conf>> /\ Count(r)
      /\ repo' = IF TakesEffect(r) THEN [repo EXCEPT ![cb] = effect] ELSE repo
      /\ BatchReturns(r # "ok")
      /\ touched' = (r # "ok" /\ (touched \/ cb = "proxy"))
  BY DEF BatchCommit
<1>2. RepoOK /\ Places /\ cb \in Codebases
  BY DEF IInv, Places, TypeOK, Codebases
<1>3. repo[cb].exists /\ codebaseV = repo[cb].version /\ codebaseV \in Versions
  BY <1>1, <1>2 DEF IInv, ReadIsCurrent, Places
<1>4. /\ IsCodebase(effect) /\ effect.version = (codebaseV + 1) % 2^Width
      /\ effect.staged = repo[cb].staged /\ effect.live = repo[cb].staged
      /\ effect.exists = repo[cb].exists /\ effect.derived = repo[cb].derived
  BY <1>2, <1>3, CommitOK, Zenon
<1> HIDE DEF effect
<1>5. effect.version # repo[cb].version
  BY <1>3, <1>4, OneMoreDiffers DEF Versions
<1>6. /\ RepoOK' /\ \A d \in Codebases : d # cb => repo'[d] = repo[d]
      /\ repo'[cb] = IF TakesEffect(r) THEN effect ELSE repo[cb]
  <2>1. CASE TakesEffect(r)
    BY <1>1, <1>2, <1>4, <2>1 DEF RepoOK
  <2>2. CASE ~TakesEffect(r)
    BY <1>1, <1>2, <2>2 DEF RepoOK
  <2> QED
    BY <2>1, <2>2
<1>7. faults' \in 0..MaxFaults /\ unhandled' \in Nat /\ unhandled' >= unhandled
  BY <1>1, <1>2, Counted
<1>8. \/ r # "ok" /\ UNCHANGED ETag /\ pc' = IF cb = "base" THEN "down" ELSE "delete"
      \/ r = "ok" /\ cb = "base" /\ UNCHANGED ETag /\ pc' = "waitBase"
      \/ r = "ok" /\ cb = "proxy" /\ ETag' = Hash(conf) /\ pc' = "ready"
  <2>1. (r # "ok") \in BOOLEAN
    OBVIOUS
  <2> QED
    BY <1>1, <1>2, <2>1, Returned, Zenon DEF Codebases
<1>9. /\ touched' \in BOOLEAN /\ (r = "ok" => ~touched')
      /\ (r # "ok" /\ cb = "proxy" => touched') /\ (cb = "base" /\ ~touched => ~touched')
  BY <1>1, Zenon
<1>10. Places'
  <2>1. \A c \in {"base", "proxy"} : repo'[c].version \in 0..(2^Width - 1)
    BY <1>6 DEF RepoOK, IsCodebase, Codebases, Versions
  <2>2. ETag' \in 0..(2^Width - 1) /\ (cb = "base" => UNCHANGED ETag)
    BY <1>2, <1>8, HashType DEF Places, TypeOK, Versions, Codebases
  <2> QED
    BY <1>1, <1>2, <1>7, <1>8, <1>9, <2>1, <2>2 DEF Places, TypeOK, Derives
<1>11. ReadIsCurrent'
  BY <1>8 DEF ReadIsCurrent
<1>12. OnBase' /\ Uploaded'
  <2>1. /\ repo'["proxy"].exists = repo["proxy"].exists /\ repo'["proxy"].derived = repo["proxy"].derived
        /\ repo'["proxy"].staged = repo["proxy"].staged
    BY <1>2, <1>4, <1>6 DEF Codebases
  <2>2. unhandled \in Nat
    BY <1>2 DEF Places
  <2> QED
    BY <1>7, <1>8, <2>1, <2>2 DEF IInv, OnBase, Uploaded
<1>13. Published'
  <2>1. CASE cb = "base"
    BY <1>2, <1>8, <2>1 DEF Published, Places
  <2>2. CASE cb = "proxy" /\ r # "ok"
    BY <1>9, <2>2 DEF Published
  <2>3. CASE cb = "proxy" /\ r = "ok"
    <3>1. repo'["proxy"].live = {<<"config.json", conf>>} /\ ETag' = Hash(conf) /\ conf \in Confs
      BY <1>1, <1>2, <1>4, <1>6, <1>8, <2>3 DEF IInv, Uploaded, TakesEffect, Places
    <3>2. repo'["proxy"].derived \/ unhandled' > 0
      <4>1. repo["proxy"].derived \/ unhandled > 0
        BY <1>3, <2>3 DEF IInv, OnBase
      <4>2. repo'["proxy"].derived = repo["proxy"].derived /\ unhandled \in Nat
        BY <1>2, <1>4, <1>6, <2>3 DEF Places
      <4> QED
        BY <1>7, <4>1, <4>2
    <3> QED
      BY <3>1, <3>2 DEF Published
  <2> QED
    BY <1>2, <2>1, <2>2, <2>3 DEF Codebases
<1>14. NewVersion
  BY <1>5, <1>6 DEF NewVersion
<1> QED
  BY <1>6, <1>10, <1>11, <1>12, <1>13, <1>14 DEF IInv, ETagMeansPublished, Published, Places

\* At the start the repo is empty.
LEMMA InitOK == Init => IInv
<1> SUFFICES ASSUME Init PROVE IInv
  OBVIOUS
<1>1. 0 \in Versions
  BY RepoAssumption DEF Versions
<1>2. RepoOK
  BY AbsentOK DEF Init, RepoOK, Codebases
<1>3. \A c \in {"base", "proxy"} : repo[c].version \in 0..(2^Width - 1)
  BY <1>2 DEF RepoOK, IsCodebase, Codebases, Versions
<1>4. Places
  <2>1. 0 \in 0..MaxFaults /\ 0 \in Nat
    BY RepoAssumption
  <2> QED
    BY <1>1, <1>3, <2>1, Zenon DEF Init, Places, TypeOK, Derives, Versions
<1>5. ReadIsCurrent /\ Published
  BY DEF Init, ReadIsCurrent, Published
<1>6. OnBase /\ Uploaded
  BY AbsentOK DEF Init, OnBase, Uploaded
<1> QED
  BY <1>2, <1>4, <1>5, <1>6 DEF IInv, ETagMeansPublished, Published, Places

\* Every step keeps the invariant and gives new content a new version.
LEMMA NextOK == IInv /\ [Next]_vars => IInv' /\ NewVersion
<1> SUFFICES ASSUME IInv, [Next]_vars PROVE IInv' /\ NewVersion
  OBVIOUS
<1>1. CASE Reply
  <2>1. PICK r \in Replies :
          \/ BatchExists(r) \/ BatchCreate(r) \/ BatchCreateGet(r) \/ BatchUpsert(r) \/ BatchCommit(r)
          \/ WaitBase(r)
          \/ DeriveExists(r) \/ DerivePost(r) \/ DeriveGet(r) \/ DeriveCommit(r)
          \/ Delete(r)
    BY <1>1, Zenon DEF Reply
  <2> QED
    BY <2>1, BatchExistsStep, BatchCreateStep, BatchCreateGetStep, BatchUpsertStep, BatchCommitStep, WaitBaseStep,
       DeriveExistsStep, DerivePostStep, DeriveGetStep, DeriveCommitStep, DeleteStep
<1>2. CASE ClusterChange
  BY <1>2, ElsewhereStep DEF ClusterChange
<1>3. CASE UNCHANGED vars
  <2>1. cluster' \in Confs /\ UNCHANGED <<repo, volatile, unhandled, faults>>
    BY <1>3 DEF vars, bounds, IInv, Places, TypeOK
  <2> QED
    BY <2>1, ElsewhereStep
<1> QED
  BY <1>1, <1>2, <1>3, JobStep, CrashStep, RestartStep DEF Next

\* For any configurations, files, widths and numbers of faults: as long as no
\* second error status was taken for success, an ETag that no later request
\* has made doubtful stands for what the repo serves.
THEOREM ETagSound == Spec => []ETagMeansPublished
<1>1. IInv /\ [Next]_vars => IInv'
  BY NextOK
<1>2. IInv => ETagMeansPublished
  BY DEF IInv
<1> QED
  BY <1>1, <1>2, InitOK, PTL DEF Spec

\* And with any number of those: the sidecars see a new version of a codebase
\* whenever its content is new, whatever requests were lost, repeated or cut
\* short by a crash, since nobody else commits between the GET that reads the
\* version and the commit.
THEOREM ContentVersioned == Spec => NewContentNewVersion
<1>1. IInv /\ [Next]_vars => IInv'
  BY NextOK
<1>2. IInv /\ [Next]_vars =>
        [\A c \in {"base", "proxy"} :
           repo[c].exists /\ repo'[c].exists /\ repo[c].live # repo'[c].live =>
             repo[c].version # repo'[c].version]_vars
  BY NextOK DEF NewVersion, Codebases
<1> QED
  BY <1>1, <1>2, InitOK, PTL DEF Spec, NewContentNewVersion
=============================================================================
