-------------------------- MODULE Instance_proofs ---------------------------
(***************************************************************************)
(* What backups, restores, the demo purge and stops leave behind, for any  *)
(* number of workspaces, users, uploads and jobs at one time, and whatever *)
(* number of archives retention keeps.                                     *)
(***************************************************************************)
EXTENDS Instance, FiniteSetTheorems, WellFoundedInduction, TLAPS

Replacing == critical.at \in DOMAIN After
Pending(f) == job[f].at \in {"put", "snapshot"}
Restoring(f) == job[f].at \in {"snapshot", "get"}

\* Every copy of the directory there is: itself, the archives, those on their
\* way to the store, and the one a restore is putting in place.
OwnersIn(d) == \A w \in DOMAIN d.rows : d.rows[w].owner \in d.users
Owned ==
  /\ OwnersIn(data) /\ OwnersIn(critical.from)
  /\ \A k \in DOMAIN archives : OwnersIn(archives[k].data)
  /\ \A f \in Fiber : OwnersIn(job[f].made)

FilesIn(d) == Recorded(d) \subseteq d.attach
Complete ==
  /\ ~torn.cut /\ ~Replacing => FilesIn(data)
  /\ critical.whole => FilesIn(critical.from)
  /\ \A k \in DOMAIN archives : archives[k].whole => FilesIn(archives[k].data)
  /\ \A f \in Fiber : job[f].whole => FilesIn(job[f].made)

\* The file comes before its row, and an upload under way as the workspaces are
\* replaced has nowhere to write its row.
Uploading ==
  /\ \A f \in Fiber : job[f].at = "row" /\ job[f].into # {} =>
       job[f].file \subseteq data.attach
  /\ critical.at \in {"workspaces", "no attachments", "attachments"} =>
       \A f \in Fiber : job[f].into = {}

\* The parts a restore has come past are the archive's.
Placed ==
  /\ critical.at \in {"no workspaces", "workspaces", "no attachments", "attachments"} =>
       data.users = critical.from.users /\ data.rows = critical.from.rows
  /\ critical.at \in {"no attachments", "attachments"} => data.dbs = critical.from.dbs

\* A process that has stopped does nothing.
Stopped == server = "down" => critical = Free /\ \A f \in Fiber : job[f] = Idle

\* An upload whose row is not written is in no copy of the directory.
NotIn(X, d) == X \intersect Recorded(d) = {}
Unrecorded(X) ==
  /\ NotIn(X, data) /\ NotIn(X, critical.from)
  /\ \A k \in DOMAIN archives : NotIn(X, archives[k].data)
  /\ \A f \in Fiber : NotIn(X, job[f].made)
Fresh ==
  /\ Unrecorded(unused)
  /\ \A f \in Fiber : Unrecorded(job[f].file) /\ job[f].file \intersect unused = {}
  /\ \A f, g \in Fiber : f # g => job[f].file \intersect job[g].file = {}

\* Keys are given out once: the key of an archive on its way to the store is in
\* no listing and no other job's.
GivenOnce ==
  \A f \in Fiber : Pending(f) =>
    /\ job[f].key \in 1..taken /\ job[f].key \notin DOMAIN archives
    /\ \A g \in Fiber : /\ job[f].key \notin job[g].keys
                        /\ f # g /\ (Pending(g) \/ Restoring(g)) => job[f].key # job[g].key
                        /\ Restoring(g) => job[f].key # job[g].target
\* What a listing found to be past the last one kept never includes a restore's
\* snapshot without the archive it was asked for, which is older.
TargetsFirst ==
  \A f \in Fiber : Restoring(f) =>
    /\ job[f].target < job[f].key /\ job[f].key \in 1..taken
    /\ \A g \in Fiber : job[f].key \in job[g].keys =>
         job[f].target \in job[g].keys \/ job[f].target \notin DOMAIN archives
\* As long as that archive is there, the snapshot is.
SnapshotsHeld ==
  /\ \A f \in Fiber : job[f].at = "get" /\ job[f].target \in DOMAIN archives =>
       job[f].key \in DOMAIN archives /\ archives[job[f].key].data = job[f].made
  /\ \A f \in Fiber : job[f].before \subseteq Recorded(job[f].made)
\* Nor does a listing include the newest archive.
NewestKept ==
  /\ \A f \in Fiber : job[f].keys \subseteq 1..taken
  /\ \A f \in Fiber : \A k \in job[f].keys \intersect DOMAIN archives :
       \E n \in DOMAIN archives : n > k
Keys == GivenOnce /\ TargetsFirst /\ SnapshotsHeld /\ NewestKept

\* What archives hold of the uploads B, from the key s on.
Outlasts(B, s) ==
  /\ \A k \in DOMAIN archives : k >= s => B \subseteq Recorded(archives[k].data)
  /\ \A f \in Fiber : Pending(f) /\ job[f].key >= s => B \subseteq Recorded(job[f].made)
\* B is in an archive that nothing up to the key t can push out.
CoveredBy(m, B, t) ==
  /\ B \subseteq Recorded(archives[m].data)
  /\ \A k \in DOMAIN archives : k > m => k > t
  /\ \A f \in Fiber : Pending(f) =>
       job[f].key > t \/ job[f].key < m \/ B \subseteq Recorded(job[f].made)
  /\ \A f \in Fiber : m \notin job[f].keys
Covered(B, t) == \E m \in DOMAIN archives : CoveredBy(m, B, t)

\* What a restore under way will overwrite is in every archive since its snapshot.
SnapshotsHold ==
  server = "up" /\ ~Replacing =>
    \A f \in Fiber : Restoring(f) => Outlasts(job[f].before \intersect Recorded(data), job[f].key)
OldHeld == Replacing => Covered(IF server = "up" THEN critical.by ELSE {}, taken)
TornHeld ==
  torn.cut /\ (KeepLast = 0 \/ torn.since < KeepLast) =>
    Covered(torn.before, taken - torn.since)
Kept == SnapshotsHold /\ OldHeld /\ TornHeld /\ (~torn.cut => torn.since = 0)

-----------------------------------------------------------------------------
(* Partial functions, and the directories the actions make.                *)

LEMMA PartialOf ==
  ASSUME NEW S, NEW T, NEW f \in Partial(S, T)
  PROVE  DOMAIN f \subseteq S /\ f \in [DOMAIN f -> T]
BY DEF Partial

LEMMA IsPartial ==
  ASSUME NEW S, NEW T, NEW D \in SUBSET S, NEW f \in [D -> T]
  PROVE  f \in Partial(S, T)
BY DEF Partial

LEMMA NothingPartial ==
  ASSUME NEW S, NEW T
  PROVE  Nothing \in Partial(S, T) /\ DOMAIN Nothing = {}
<1>1. Nothing \in [{} -> T]
  BY DEF Nothing
<1> QED BY <1>1, IsPartial

LEMMA WithPartial ==
  ASSUME NEW S, NEW T, NEW f \in Partial(S, T), NEW x \in S, NEW y \in T
  PROVE  With(f, x, y) \in Partial(S, T)
<1>1. DOMAIN f \subseteq S /\ f \in [DOMAIN f -> T]
  BY PartialOf
<1>2. With(f, x, y) \in [DOMAIN f \union {x} -> T]
  BY <1>1 DEF With
<1> QED BY <1>1, <1>2, IsPartial

LEMMA LessPartial ==
  ASSUME NEW S, NEW T, NEW f \in Partial(S, T), NEW X
  PROVE  Less(f, X) \in Partial(S, T)
<1>1. DOMAIN f \subseteq S /\ f \in [DOMAIN f -> T]
  BY PartialOf
<1>2. Less(f, X) \in [DOMAIN f \ X -> T]
  BY <1>1 DEF Less, Restrict
<1> QED BY <1>1, <1>2, IsPartial

LEMMA EmptyData == Empty \in Data /\ Recorded(Empty) = {}
BY NothingPartial DEF Empty, Data, Recorded, Range

LEMMA RecordedOf ==
  ASSUME NEW d \in Data
  PROVE  /\ Recorded(d) \subseteq Upload
         /\ \A a : a \in Recorded(d) <=> \E w \in DOMAIN d.dbs : a \in d.dbs[w]
<1>1. d.dbs \in [DOMAIN d.dbs -> SUBSET Upload]
  BY PartialOf DEF Data
<1> QED BY <1>1 DEF Recorded, Range

-----------------------------------------------------------------------------
(* Types.                                                                  *)

LEMMA IdleJob == Idle \in Job
BY EmptyData DEF Idle, Job

LEMMA Places ==
  /\ DOMAIN After = {"no platform", "platform", "no workspaces", "workspaces",
                     "no attachments", "attachments"}
  /\ After["no platform"] = "platform" /\ After["platform"] = "no workspaces"
  /\ After["no workspaces"] = "workspaces" /\ After["workspaces"] = "no attachments"
  /\ After["no attachments"] = "attachments" /\ After["attachments"] = "free"
  /\ Free.at = "free"
BY DEF After, Free

LEMMA FreeSection == Free \in Section
BY EmptyData DEF Free, Section

LEMMA Fields ==
  ASSUME NEW d \in Data
  PROVE  /\ d.users \subseteq User /\ d.attach \subseteq Upload
         /\ d.rows \in Partial(Workspace, Row)
         /\ d.dbs \in Partial(Workspace, SUBSET Upload)
         /\ DOMAIN d.rows \subseteq Workspace /\ DOMAIN d.dbs \subseteq Workspace
         /\ \A w \in DOMAIN d.rows : d.rows[w] \in Row
         /\ \A w \in DOMAIN d.dbs : d.dbs[w] \subseteq Upload
<1>1. /\ d.users \subseteq User /\ d.attach \subseteq Upload
      /\ d.rows \in Partial(Workspace, Row)
      /\ d.dbs \in Partial(Workspace, SUBSET Upload)
  BY DEF Data
<1>2. /\ DOMAIN d.rows \subseteq Workspace /\ d.rows \in [DOMAIN d.rows -> Row]
      /\ DOMAIN d.dbs \subseteq Workspace /\ d.dbs \in [DOMAIN d.dbs -> SUBSET Upload]
  BY <1>1, PartialOf
<1> QED BY <1>1, <1>2

LEMMA ArchiveOf ==
  ASSUME InstanceTypeOK
  PROVE  /\ DOMAIN archives \subseteq 1..taken
         /\ \A k \in DOMAIN archives : archives[k].data \in Data /\ archives[k].whole \in BOOLEAN
<1>1. archives \in [DOMAIN archives -> Stored]
  BY PartialOf DEF InstanceTypeOK
<1> QED BY <1>1, PartialOf DEF InstanceTypeOK, Stored

LEMMA TypeInit == InstanceInit => InstanceTypeOK
<1>1. [Empty EXCEPT !.users = User \ Anonymous] \in Data
  BY EmptyData DEF Data
<1>2. Nothing \in Partial(1..0, Stored)
  BY NothingPartial
<1>3. Free.at \notin DOMAIN After
  BY Places
<1> QED BY <1>1, <1>2, <1>3, IdleJob, FreeSection DEF InstanceInit, InstanceTypeOK, Whole

LEMMA TypeNewWorkspace ==
  ASSUME InstanceTypeOK, NEW u \in User, NEW w \in Workspace, NEW demo \in BOOLEAN,
         NewWorkspace(u, w, demo)
  PROVE  /\ InstanceTypeOK'
         /\ data'.users = data.users \union {u}
         /\ data'.rows = With(data.rows, w, [owner |-> u, demo |-> demo, old |-> FALSE])
         /\ data'.dbs = With(data.dbs, w, {})
         /\ data'.attach = data.attach
<1> DEFINE row == [owner |-> u, demo |-> demo, old |-> FALSE]
<1>1. data \in Data
  BY DEF InstanceTypeOK
<1>2. row \in Row
  BY DEF Row
<1> HIDE DEF row
<1>3. /\ With(data.rows, w, row) \in Partial(Workspace, Row)
      /\ With(data.dbs, w, {}) \in Partial(Workspace, SUBSET Upload)
  BY <1>1, <1>2, Fields, WithPartial
<1>4. data' = [data EXCEPT !.users = @ \union {u}, !.rows = With(@, w, row), !.dbs = With(@, w, {})]
  BY DEF NewWorkspace, row
<1>5. /\ data' \in Data
      /\ data'.users = data.users \union {u}
      /\ data'.rows = With(data.rows, w, row)
      /\ data'.dbs = With(data.dbs, w, {})
      /\ data'.attach = data.attach
  BY <1>1, <1>3, <1>4 DEF Data
<1>6. InstanceTypeOK'
  BY <1>5 DEF NewWorkspace, InstanceTypeOK
<1> QED BY <1>5, <1>6 DEF row

LEMMA TypeTtlPasses ==
  ASSUME InstanceTypeOK, NEW w \in Workspace, TtlPasses(w)
  PROVE  /\ InstanceTypeOK'
         /\ data' = [data EXCEPT !.rows = data'.rows]
         /\ DOMAIN data'.rows = DOMAIN data.rows
         /\ \A v \in DOMAIN data.rows : data'.rows[v].owner = data.rows[v].owner
<1>1. data \in Data /\ w \in DOMAIN data.rows
  BY DEF InstanceTypeOK, TtlPasses
<1>2. data.rows \in [DOMAIN data.rows -> Row] /\ DOMAIN data.rows \subseteq Workspace
  BY <1>1, Fields, PartialOf
<1> DEFINE rows == [data.rows EXCEPT ![w] = [@ EXCEPT !.old = TRUE]]
<1>3. /\ rows \in [DOMAIN data.rows -> Row]
      /\ \A v \in DOMAIN data.rows : rows[v].owner = data.rows[v].owner
  BY <1>1, <1>2 DEF Row
<1>4. rows \in Partial(Workspace, Row)
  BY <1>2, <1>3, IsPartial
<1>5. data' = [data EXCEPT !.rows = rows]
  BY DEF TtlPasses
<1> HIDE DEF rows
<1>6. data' \in Data /\ data'.rows = rows
  BY <1>1, <1>4, <1>5 DEF Data
<1>7. InstanceTypeOK'
  BY <1>6 DEF TtlPasses, InstanceTypeOK
<1> QED BY <1>3, <1>5, <1>6, <1>7

LEMMA TypePurgeDemo ==
  ASSUME InstanceTypeOK, NEW w \in Workspace, PurgeDemo(w)
  PROVE  InstanceTypeOK' /\ data' = [data EXCEPT !.rows = Less(data.rows, {w})]
<1>1. data \in Data /\ w \in DOMAIN data.rows
  BY DEF InstanceTypeOK, PurgeDemo
<1>2. Less(data.rows, {w}) \in Partial(Workspace, Row) /\ data.rows[w].owner \in User
  BY <1>1, Fields, LessPartial DEF Row
<1>3. data' = [data EXCEPT !.rows = Less(data.rows, {w})]
  BY DEF PurgeDemo
<1>4. data' \in Data
  BY <1>1, <1>2, <1>3 DEF Data
<1>5. critical' = [Free EXCEPT !.at = "file", !.by = {w, data.rows[w].owner}]
  BY DEF PurgeDemo
<1>6. critical' \in Section
  BY <1>2, <1>5, FreeSection DEF Section
<1>7. InstanceTypeOK'
  <2>1. critical'.at = "file"
    BY <1>5 DEF Free
  <2> QED BY <1>4, <1>6, <2>1, Places DEF PurgeDemo, InstanceTypeOK
<1> QED BY <1>3, <1>7

\* What a connection's end does to the uploads.
LEMMA CutOffJobs ==
  ASSUME InstanceTypeOK, NEW W \in SUBSET Workspace
  PROVE  /\ CutOff(W) \in [Fiber -> Job]
         /\ \A f \in Fiber : CutOff(W)[f] = [job[f] EXCEPT !.into = job[f].into \ W]
<1>1. ASSUME NEW f \in Fiber
      PROVE  [job[f] EXCEPT !.into = job[f].into \ W] \in Job
  <2>1. job[f] \in Job
    BY DEF InstanceTypeOK
  <2> QED BY <2>1 DEF Job
<1> QED BY <1>1 DEF CutOff

LEMMA TypePurgeFile ==
  ASSUME InstanceTypeOK, NEW w \in Workspace, PurgeFile(w)
  PROVE  InstanceTypeOK' /\ data' = [data EXCEPT !.dbs = Less(data.dbs, {w})]
<1>1. data \in Data
  BY DEF InstanceTypeOK
<1>2. Less(data.dbs, {w}) \in Partial(Workspace, SUBSET Upload)
  BY <1>1, Fields, LessPartial
<1>3. data' = [data EXCEPT !.dbs = Less(data.dbs, {w})]
  BY DEF PurgeFile
<1>4. data' \in Data
  BY <1>1, <1>2, <1>3 DEF Data
<1>5. job' \in [Fiber -> Job]
  BY CutOffJobs DEF PurgeFile
<1>6. critical' \in Section /\ critical'.at = "owner"
  BY DEF PurgeFile, InstanceTypeOK, Section
<1> QED BY <1>3, <1>4, <1>5, <1>6, Places DEF PurgeFile, InstanceTypeOK

LEMMA TypePurgeOwner ==
  ASSUME InstanceTypeOK, NEW u \in User, PurgeOwner(u)
  PROVE  InstanceTypeOK'
<1>1. data' \in Data
  BY DEF PurgeOwner, InstanceTypeOK, Data
<1> QED BY <1>1, FreeSection, Places DEF PurgeOwner, InstanceTypeOK

LEMMA Goes ==
  ASSUME InstanceTypeOK, NEW f \in Fiber, NEW j \in Job, Go(f, j)
  PROVE  /\ job' \in [Fiber -> Job] /\ job'[f] = j
         /\ \A g \in Fiber \ {f} : job'[g] = job[g]
BY DEF Go, InstanceTypeOK

LEMMA TypeStartUpload ==
  ASSUME InstanceTypeOK, NEW f \in Fiber, NEW w \in Workspace, NEW a \in Upload,
         StartUpload(f, w, a)
  PROVE  InstanceTypeOK'
<1>1. [Idle EXCEPT !.at = "file", !.into = {w}, !.file = {a}] \in Job
  BY IdleJob DEF Job
<1>2. job' \in [Fiber -> Job]
  BY <1>1, Goes DEF StartUpload
<1> QED BY <1>2 DEF StartUpload, InstanceTypeOK

LEMMA TypeUploadFile ==
  ASSUME InstanceTypeOK, NEW f \in Fiber, UploadFile(f)
  PROVE  /\ InstanceTypeOK'
         /\ data' = [data EXCEPT !.attach = data.attach \union job[f].file]
         /\ job'[f] = [job[f] EXCEPT !.at = "row"]
<1>1. job[f] \in Job /\ data \in Data
  BY DEF InstanceTypeOK
<1>2. [job[f] EXCEPT !.at = "row"] \in Job
  BY <1>1 DEF Job
<1>3. job' \in [Fiber -> Job] /\ job'[f] = [job[f] EXCEPT !.at = "row"]
  BY <1>2, Goes DEF UploadFile
<1>4. data' = [data EXCEPT !.attach = data.attach \union job[f].file]
  BY DEF UploadFile, UploadStep, Written
<1>5. data' \in Data
  BY <1>1, <1>4 DEF Data, Job
<1>6. InstanceTypeOK'
  BY <1>3, <1>5 DEF UploadFile, InstanceTypeOK
<1> QED BY <1>3, <1>4, <1>6

LEMMA TypeUploadRow ==
  ASSUME InstanceTypeOK, NEW f \in Fiber, UploadRow(f)
  PROVE  /\ InstanceTypeOK' /\ job'[f] = Idle
         /\ data' = [data EXCEPT !.dbs = data'.dbs]
         /\ DOMAIN data'.dbs = DOMAIN data.dbs
         /\ \A w \in DOMAIN data.dbs :
              data'.dbs[w] = IF w \in job[f].into THEN data.dbs[w] \union job[f].file
                             ELSE data.dbs[w]
<1> DEFINE dbs == [w \in DOMAIN data.dbs |->
                     IF w \in job[f].into THEN data.dbs[w] \union job[f].file ELSE data.dbs[w]]
<1>1. job[f] \in Job /\ data \in Data
  BY DEF InstanceTypeOK
<1>2. dbs \in [DOMAIN data.dbs -> SUBSET Upload] /\ DOMAIN data.dbs \subseteq Workspace
  BY <1>1, Fields DEF Job
<1>3. dbs \in Partial(Workspace, SUBSET Upload)
  BY <1>2, IsPartial
<1>4. data' = [data EXCEPT !.dbs = dbs]
  BY DEF UploadRow, UploadStep, Written
<1>5. job' \in [Fiber -> Job] /\ job'[f] = Idle
  BY IdleJob, Goes DEF UploadRow
<1>6. \A w \in DOMAIN data.dbs :
        dbs[w] = IF w \in job[f].into THEN data.dbs[w] \union job[f].file ELSE data.dbs[w]
  OBVIOUS
<1>7. DOMAIN dbs = DOMAIN data.dbs
  OBVIOUS
<1> HIDE DEF dbs
<1>8. data' \in Data /\ data'.dbs = dbs
  BY <1>1, <1>3, <1>4 DEF Data
<1>9. InstanceTypeOK'
  BY <1>5, <1>8 DEF UploadRow, InstanceTypeOK
<1> QED BY <1>4, <1>5, <1>6, <1>7, <1>8, <1>9

\* A new key, and the archive as it is built.
LEMMA Built ==
  ASSUME InstanceTypeOK, Build, NEW place \in {"put", "snapshot"}
  PROVE  /\ taken' = taken + 1 /\ 1..taken \subseteq 1..taken' /\ taken' \in 1..taken'
         /\ torn' = [torn EXCEPT !.since = IF torn.cut THEN torn.since + 1 ELSE 0]
         /\ torn' \in [cut : BOOLEAN, before : SUBSET Upload, since : Nat]
         /\ Archive(place) \in Job
         /\ Archive(place) = [Idle EXCEPT !.at = place, !.key = taken + 1, !.made = data,
                                          !.whole = ~torn.cut]
<1>1. taken \in Nat /\ torn \in [cut : BOOLEAN, before : SUBSET Upload, since : Nat] /\ data \in Data
  BY DEF InstanceTypeOK
<1>2. taken' = taken + 1
  BY DEF Build
<1>3. torn' = [torn EXCEPT !.since = IF torn.cut THEN torn.since + 1 ELSE 0]
  BY DEF Build, Aged
<1>4. torn' \in [cut : BOOLEAN, before : SUBSET Upload, since : Nat]
  BY <1>1, <1>3
<1>5. Archive(place) = [Idle EXCEPT !.at = place, !.key = taken + 1, !.made = data,
                                    !.whole = ~torn.cut]
  BY <1>2 DEF Archive
<1>6. taken + 1 \in Nat /\ (~torn.cut) \in BOOLEAN
  BY <1>1
<1>7. Archive(place) \in Job
  BY <1>1, <1>5, <1>6, IdleJob DEF Job
<1> QED BY <1>1, <1>2, <1>3, <1>4, <1>5, <1>7

LEMMA GrownKeys ==
  ASSUME NEW X, NEW m \in Nat, NEW n \in Nat, m <= n, NEW h \in Partial(1..m, X)
  PROVE  h \in Partial(1..n, X)
<1>1. DOMAIN h \subseteq 1..m /\ h \in [DOMAIN h -> X]
  BY PartialOf
<1>2. DOMAIN h \in SUBSET (1..n)
  BY <1>1
<1> QED BY <1>1, <1>2, IsPartial

LEMMA TypeTriggerBackup ==
  ASSUME InstanceTypeOK, NEW f \in Fiber, TriggerBackup(f)
  PROVE  InstanceTypeOK' /\ job'[f] = Archive("put")
<1>1. Build
  BY DEF TriggerBackup
<1>2. job' \in [Fiber -> Job] /\ job'[f] = Archive("put")
  BY <1>1, Built, Goes DEF TriggerBackup
<1>3. archives \in Partial(1..(taken + 1), Stored)
  BY GrownKeys DEF InstanceTypeOK
<1> QED BY <1>1, <1>2, <1>3, Built DEF TriggerBackup, InstanceTypeOK

LEMMA TypeRestoreBackup ==
  ASSUME InstanceTypeOK, NEW f \in Fiber, NEW k \in DOMAIN archives, RestoreBackup(f, k)
  PROVE  /\ InstanceTypeOK'
         /\ job'[f] = [Archive("snapshot") EXCEPT !.target = k, !.before = Recorded(data)]
<1>1. Build
  BY DEF RestoreBackup
<1>2. k \in Nat /\ Recorded(data) \subseteq Upload
  BY ArchiveOf, RecordedOf DEF InstanceTypeOK
<1> DEFINE j == [Archive("snapshot") EXCEPT !.target = k, !.before = Recorded(data)]
<1>3. j \in Job
  BY <1>1, <1>2, Built DEF Job
<1>4. Go(f, j)
  BY DEF RestoreBackup
<1> HIDE DEF j
<1>5. job' \in [Fiber -> Job] /\ job'[f] = j
  BY <1>3, <1>4, Goes
<1>6. archives \in Partial(1..(taken + 1), Stored)
  BY GrownKeys DEF InstanceTypeOK
<1>7. InstanceTypeOK'
  BY <1>1, <1>5, <1>6, Built DEF RestoreBackup, InstanceTypeOK
<1> QED BY <1>5, <1>7 DEF j

\* The store after an archive, whose key was given out, has come.
LEMMA Stores ==
  ASSUME InstanceTypeOK, NEW f \in Fiber, job[f].key \in 1..taken, Put(f)
  PROVE  /\ archives' \in Partial(1..taken, Stored)
         /\ DOMAIN archives' = DOMAIN archives \union {job[f].key}
         /\ archives'[job[f].key] = [data |-> job[f].made, whole |-> job[f].whole]
         /\ \A k \in DOMAIN archives \ {job[f].key} : archives'[k] = archives[k]
<1>1. [data |-> job[f].made, whole |-> job[f].whole] \in Stored
  BY DEF InstanceTypeOK, Job, Stored
<1>2. archives \in Partial(1..taken, Stored)
  BY DEF InstanceTypeOK
<1>3. archives' = With(archives, job[f].key, [data |-> job[f].made, whole |-> job[f].whole])
  BY DEF Put
<1>4. archives' \in Partial(1..taken, Stored)
  BY <1>1, <1>2, <1>3, WithPartial
<1> QED BY <1>3, <1>4 DEF With

LEMMA TypeBackupStored ==
  ASSUME InstanceTypeOK, Keys, NEW f \in Fiber, BackupStored(f)
  PROVE  InstanceTypeOK' /\ job'[f] = [Idle EXCEPT !.at = "list"] /\ job[f].key \in 1..taken
<1>1. job[f].key \in 1..taken
  BY DEF BackupStored, At, Keys, GivenOnce, Pending
<1>2. [Idle EXCEPT !.at = "list"] \in Job
  BY IdleJob DEF Job
<1>3. job' \in [Fiber -> Job] /\ job'[f] = [Idle EXCEPT !.at = "list"]
  BY <1>2, Goes DEF BackupStored
<1>4. archives' \in Partial(1..taken, Stored)
  BY <1>1, Stores DEF BackupStored
<1> QED BY <1>1, <1>3, <1>4 DEF BackupStored, InstanceTypeOK

LEMMA TypeSnapshotStored ==
  ASSUME InstanceTypeOK, Keys, NEW f \in Fiber, SnapshotStored(f)
  PROVE  InstanceTypeOK' /\ job'[f] = [job[f] EXCEPT !.at = "get"] /\ job[f].key \in 1..taken
<1>1. job[f].key \in 1..taken
  BY DEF SnapshotStored, At, Keys, GivenOnce, Pending
<1>2. [job[f] EXCEPT !.at = "get"] \in Job
  BY DEF InstanceTypeOK, Job
<1>3. job' \in [Fiber -> Job] /\ job'[f] = [job[f] EXCEPT !.at = "get"]
  BY <1>2, Goes DEF SnapshotStored
<1>4. archives' \in Partial(1..taken, Stored)
  BY <1>1, Stores DEF SnapshotStored
<1> QED BY <1>1, <1>3, <1>4 DEF SnapshotStored, InstanceTypeOK

LEMMA TypePruneListed ==
  ASSUME InstanceTypeOK, NEW f \in Fiber, PruneListed(f)
  PROVE  InstanceTypeOK' /\ job'[f] = [Idle EXCEPT !.at = "delete", !.keys = SelectExpired]
<1>1. SelectExpired \subseteq Nat
  BY ArchiveOf DEF SelectExpired, InstanceTypeOK
<1>2. [Idle EXCEPT !.at = "delete", !.keys = SelectExpired] \in Job
  BY <1>1, IdleJob DEF Job
<1>3. job' \in [Fiber -> Job] /\ job'[f] = [Idle EXCEPT !.at = "delete", !.keys = SelectExpired]
  BY <1>2, Goes DEF PruneListed
<1> QED BY <1>3 DEF PruneListed, InstanceTypeOK

LEMMA TypePruned ==
  ASSUME InstanceTypeOK, NEW f \in Fiber, Pruned(f)
  PROVE  /\ InstanceTypeOK' /\ job'[f] = Idle
         /\ DOMAIN archives' = DOMAIN archives \ job[f].keys
         /\ \A k \in DOMAIN archives' : archives'[k] = archives[k]
<1>1. job' \in [Fiber -> Job] /\ job'[f] = Idle
  BY IdleJob, Goes DEF Pruned
<1>2. archives \in Partial(1..taken, Stored) /\ archives' = Less(archives, job[f].keys)
  BY DEF Pruned, InstanceTypeOK
<1>3. archives' \in Partial(1..taken, Stored)
  BY <1>2, LessPartial
<1>4. /\ DOMAIN archives' = DOMAIN archives \ job[f].keys
      /\ \A k \in DOMAIN archives' : archives'[k] = archives[k]
  BY <1>2 DEF Less, Restrict
<1> QED BY <1>1, <1>3, <1>4 DEF Pruned, InstanceTypeOK

LEMMA TypeFails ==
  ASSUME InstanceTypeOK, NEW f \in Fiber, Fails(f)
  PROVE  InstanceTypeOK' /\ job'[f] = Idle
<1>1. job' \in [Fiber -> Job] /\ job'[f] = Idle
  BY IdleJob, Goes DEF Fails
<1> QED BY <1>1 DEF Fails, InstanceTypeOK

LEMMA TypeBytesRead ==
  ASSUME InstanceTypeOK, NEW f \in Fiber, BytesRead(f)
  PROVE  /\ InstanceTypeOK' /\ job'[f] = Idle
         /\ critical'.at = "no platform"
         /\ critical'.from = archives[job[f].target].data
         /\ critical'.whole = archives[job[f].target].whole
         /\ critical'.by = job[f].before \intersect Recorded(data)
<1>1. job' \in [Fiber -> Job] /\ job'[f] = Idle
  BY IdleJob, Goes DEF BytesRead
<1>2. critical' = [at |-> "no platform", from |-> archives[job[f].target].data,
                   whole |-> archives[job[f].target].whole,
                   by |-> job[f].before \intersect Recorded(data)]
  BY DEF BytesRead
<1>3. /\ archives[job[f].target].data \in Data
      /\ archives[job[f].target].whole \in BOOLEAN
      /\ job[f].before \subseteq Upload
      /\ "no platform" \in DOMAIN After
  BY ArchiveOf DEF BytesRead, InstanceTypeOK, Job, After
<1>4. critical' \in Section
  BY <1>2, <1>3 DEF Section
<1>5. critical'.by \subseteq Upload
  BY <1>2, <1>3
<1>6. InstanceTypeOK'
  BY <1>1, <1>4, <1>5 DEF BytesRead, InstanceTypeOK
<1> QED BY <1>1, <1>2, <1>6

\* What a part replaced leaves of the directory, field by field.
LEMMA Replaces ==
  ASSUME InstanceTypeOK, Replace
  PROVE  /\ data' \in Data
         /\ data'.users = IF critical.at = "no platform" THEN {}
              ELSE IF critical.at = "platform" THEN critical.from.users ELSE data.users
         /\ data'.rows = IF critical.at = "no platform" THEN Nothing
              ELSE IF critical.at = "platform" THEN critical.from.rows ELSE data.rows
         /\ data'.dbs = IF critical.at = "no workspaces" THEN Nothing
              ELSE IF critical.at = "workspaces" THEN critical.from.dbs ELSE data.dbs
         /\ data'.attach = IF critical.at = "no attachments" THEN {}
              ELSE IF critical.at = "attachments" THEN critical.from.attach ELSE data.attach
<1> DEFINE P == critical.at
<1>1. /\ data \in Data /\ critical.from \in Data
      /\ P \in {"no platform", "platform", "no workspaces", "workspaces",
                "no attachments", "attachments"}
  BY Places DEF InstanceTypeOK, Section, Replace
<1>2. data' = Part(P, data, critical.from)
  BY DEF Replace, Replaced
<1>3. /\ Nothing \in Partial(Workspace, Row)
      /\ Nothing \in Partial(Workspace, SUBSET Upload)
  BY NothingPartial
<1> HIDE DEF P
<1>4. CASE P = "no platform"
  <2>1. data' = [data EXCEPT !.users = {}, !.rows = Nothing]
    BY <1>2, <1>4 DEF Part
  <2> QED BY <1>1, <1>3, <1>4, <2>1 DEF Data, P
<1>5. CASE P = "platform"
  <2>1. data' = [data EXCEPT !.users = critical.from.users, !.rows = critical.from.rows]
    BY <1>2, <1>5 DEF Part
  <2> QED BY <1>1, <1>5, <2>1 DEF Data, P
<1>6. CASE P = "no workspaces"
  <2>1. data' = [data EXCEPT !.dbs = Nothing]
    BY <1>2, <1>6 DEF Part
  <2> QED BY <1>1, <1>3, <1>6, <2>1 DEF Data, P
<1>7. CASE P = "workspaces"
  <2>1. data' = [data EXCEPT !.dbs = critical.from.dbs]
    BY <1>2, <1>7 DEF Part
  <2> QED BY <1>1, <1>7, <2>1 DEF Data, P
<1>8. CASE P = "no attachments"
  <2>1. data' = [data EXCEPT !.attach = {}]
    BY <1>2, <1>8 DEF Part
  <2> QED BY <1>1, <1>8, <2>1 DEF Data, P
<1>9. CASE P = "attachments"
  <2>1. data' = [data EXCEPT !.attach = critical.from.attach]
    BY <1>2, <1>9 DEF Part
  <2> QED BY <1>1, <1>9, <2>1 DEF Data, P
<1> QED BY <1>1, <1>4, <1>5, <1>6, <1>7, <1>8, <1>9

LEMMA Torn ==
  ASSUME InstanceTypeOK
  PROVE  /\ Replacing => Tear \in [cut : BOOLEAN, before : SUBSET Upload, since : Nat]
         /\ Whole \in [cut : BOOLEAN, before : SUBSET Upload, since : Nat]
BY DEF InstanceTypeOK, Tear, Whole, Section, Replacing

LEMMA TypeReplace == ASSUME InstanceTypeOK, Replace PROVE InstanceTypeOK'
<1>1. data' \in Data
  BY Replaces
<1>2. job' \in [Fiber -> Job]
  BY CutOffJobs DEF Replace, InstanceTypeOK
<1>3. critical.at \in DOMAIN After
  BY DEF Replace
<1>4. torn' \in [cut : BOOLEAN, before : SUBSET Upload, since : Nat]
  BY <1>3, Torn DEF Replace, Replacing, InstanceTypeOK
<1>5. CASE After[critical.at] = "free"
  <2>1. critical' = Free /\ server' = "closing"
    BY <1>5 DEF Replace
  <2> QED BY <1>1, <1>2, <1>4, <2>1, FreeSection, Places DEF Replace, InstanceTypeOK
<1>6. CASE After[critical.at] # "free"
  <2>1. critical' = [critical EXCEPT !.at = After[critical.at]] /\ UNCHANGED server
    BY <1>6 DEF Replace
  <2>2. After[critical.at] \in DOMAIN After
    BY <1>3, <1>6, Places
  <2>3. critical' \in Section /\ critical'.by = critical.by
    BY <2>1, <2>2 DEF InstanceTypeOK, Section
  <2> QED BY <1>1, <1>2, <1>3, <1>4, <2>1, <2>3 DEF Replace, InstanceTypeOK
<1> QED BY <1>5, <1>6

LEMMA Downs ==
  ASSUME InstanceTypeOK, Down
  PROVE  /\ server' = "down" /\ critical' = Free
         /\ job' \in [Fiber -> Job] /\ \A f \in Fiber : job'[f] = Idle
BY IdleJob DEF Down

LEMMA TypeExit == ASSUME InstanceTypeOK, Exit PROVE InstanceTypeOK'
BY Downs, FreeSection, Places DEF Exit, InstanceTypeOK

LEMMA TypeCrash == ASSUME InstanceTypeOK, Crash PROVE InstanceTypeOK'
<1>1. torn' \in [cut : BOOLEAN, before : SUBSET Upload, since : Nat]
  BY Torn DEF Crash, Replacing, InstanceTypeOK
<1> QED BY <1>1, Downs, FreeSection, Places DEF Crash, InstanceTypeOK

LEMMA TypeBoot ==
  ASSUME InstanceTypeOK, Boot
  PROVE  /\ InstanceTypeOK'
         /\ \E f \in Fiber : /\ job'[f] = [Idle EXCEPT !.at = "list"]
                             /\ \A g \in Fiber \ {f} : job'[g] = job[g]
<1>1. PICK f \in Fiber : Go(f, [Idle EXCEPT !.at = "list"])
  BY DEF Boot
<1>2. [Idle EXCEPT !.at = "list"] \in Job
  BY IdleJob DEF Job
<1>3. /\ job' \in [Fiber -> Job] /\ job'[f] = [Idle EXCEPT !.at = "list"]
      /\ \A g \in Fiber \ {f} : job'[g] = job[g]
  BY <1>1, <1>2, Goes
<1> QED BY <1>3 DEF Boot, InstanceTypeOK

LEMMA TypeNext ==
  ASSUME InstanceTypeOK, Keys, InstanceNext
  PROVE  InstanceTypeOK'
<1>1. ASSUME NEW u \in User, NEW w \in Workspace, CreateWorkspace(u, w) \/ StartDemo(u, w)
      PROVE  InstanceTypeOK'
  BY <1>1, TypeNewWorkspace DEF CreateWorkspace, StartDemo
<1>2. ASSUME NEW w \in Workspace, TtlPasses(w) \/ PurgeDemo(w) \/ PurgeFile(w)
      PROVE  InstanceTypeOK'
  BY <1>2, TypeTtlPasses, TypePurgeDemo, TypePurgeFile
<1>3. ASSUME NEW u \in User, PurgeOwner(u)
      PROVE  InstanceTypeOK'
  BY <1>3, TypePurgeOwner
<1>4. ASSUME NEW f \in Fiber, NEW w \in Workspace, NEW a \in Upload, StartUpload(f, w, a)
      PROVE  InstanceTypeOK'
  BY <1>4, TypeStartUpload
<1>5. ASSUME NEW f \in Fiber, Awaited(f) \/ Fails(f) \/ TriggerBackup(f)
      PROVE  InstanceTypeOK'
  BY <1>5, TypeUploadFile, TypeUploadRow, TypeBackupStored, TypePruneListed, TypePruned,
     TypeSnapshotStored, TypeBytesRead, TypeFails, TypeTriggerBackup DEF Awaited
<1>6. ASSUME NEW f \in Fiber, NEW k \in DOMAIN archives, RestoreBackup(f, k)
      PROVE  InstanceTypeOK'
  BY <1>6, TypeRestoreBackup
<1>7. CASE Replace \/ Exit \/ Crash \/ Boot
  BY <1>7, TypeReplace, TypeExit, TypeCrash, TypeBoot
<1> QED BY <1>1, <1>2, <1>3, <1>4, <1>5, <1>6, <1>7 DEF InstanceNext, Sync

-----------------------------------------------------------------------------
(* What the jobs' actions do, field by field.                              *)

LEMMA Triggered ==
  ASSUME InstanceTypeOK, NEW f \in Fiber, TriggerBackup(f)
  PROVE  /\ job'[f].at = "put" /\ job'[f].key = taken + 1 /\ job'[f].keys = {}
         /\ job'[f].made = data /\ job'[f].whole = ~torn.cut /\ job'[f].before = {}
         /\ job'[f].into = {} /\ job'[f].file = {}
         /\ taken' = taken + 1 /\ taken \in Nat
         /\ UNCHANGED <<data, archives, server, critical, unused>>
         /\ \A g \in Fiber \ {f} : job'[g] = job[g]
<1>1. Build /\ job'[f] = Archive("put")
  BY TypeTriggerBackup DEF TriggerBackup
<1>2. job'[f] = [Idle EXCEPT !.at = "put", !.key = taken + 1, !.made = data,
                             !.whole = ~torn.cut]
  BY <1>1, Built
<1>3. taken' = taken + 1 /\ taken \in Nat
  BY <1>1, Built DEF InstanceTypeOK
<1>4. /\ UNCHANGED <<data, archives, server, critical, unused>>
      /\ \A g \in Fiber \ {f} : job'[g] = job[g]
  BY DEF TriggerBackup, Go, InstanceTypeOK
<1>5. /\ job'[f].at = "put" /\ job'[f].key = taken + 1 /\ job'[f].keys = {}
      /\ job'[f].made = data /\ job'[f].whole = ~torn.cut /\ job'[f].before = {}
      /\ job'[f].into = {} /\ job'[f].file = {}
  BY <1>2 DEF Idle
<1> QED BY <1>3, <1>4, <1>5

LEMMA Asked ==
  ASSUME InstanceTypeOK, NEW f \in Fiber, NEW k \in DOMAIN archives, RestoreBackup(f, k)
  PROVE  /\ job'[f].at = "snapshot" /\ job'[f].key = taken + 1 /\ job'[f].keys = {}
         /\ job'[f].made = data /\ job'[f].whole = ~torn.cut
         /\ job'[f].before = Recorded(data) /\ job'[f].target = k
         /\ job'[f].into = {} /\ job'[f].file = {}
         /\ taken' = taken + 1 /\ taken \in Nat
         /\ UNCHANGED <<data, archives, server, critical, unused>>
         /\ \A g \in Fiber \ {f} : job'[g] = job[g]
<1>1. Build /\ job'[f] = [Archive("snapshot") EXCEPT !.target = k, !.before = Recorded(data)]
  BY TypeRestoreBackup DEF RestoreBackup
<1>2. Archive("snapshot") = [Idle EXCEPT !.at = "snapshot", !.key = taken + 1, !.made = data,
                                         !.whole = ~torn.cut]
  BY <1>1, Built
<1> QED BY <1>1, <1>2, Built DEF RestoreBackup, Idle, Go, InstanceTypeOK

\* An archive comes to the store; f goes on to the listing, or to the archive it
\* is to restore.
LEMMA Comes ==
  ASSUME InstanceTypeOK, Keys, NEW f \in Fiber, BackupStored(f) \/ SnapshotStored(f)
  PROVE  /\ Pending(f) /\ job[f].key \in 1..taken
         /\ UNCHANGED <<data, taken, server, critical, torn, unused>>
         /\ DOMAIN archives' = DOMAIN archives \union {job[f].key}
         /\ archives'[job[f].key].data = job[f].made
         /\ archives'[job[f].key].whole = job[f].whole
         /\ \A k \in DOMAIN archives \ {job[f].key} : archives'[k] = archives[k]
         /\ \A g \in Fiber \ {f} : job'[g] = job[g]
         /\ \/ job'[f] = [Idle EXCEPT !.at = "list"]
            \/ /\ job[f].at = "snapshot" /\ job'[f].at = "get" /\ job'[f].key = job[f].key
               /\ job'[f].target = job[f].target /\ job'[f].made = job[f].made
               /\ job'[f].whole = job[f].whole /\ job'[f].before = job[f].before
               /\ job'[f].keys = job[f].keys
               /\ job'[f].into = job[f].into /\ job'[f].file = job[f].file
<1>1. /\ Pending(f) /\ job[f].key \in 1..taken /\ Put(f)
      /\ UNCHANGED <<data, taken, server, critical, torn, unused>>
      /\ \A g \in Fiber \ {f} : job'[g] = job[g]
  <2>1. CASE BackupStored(f)
    BY <2>1, TypeBackupStored DEF BackupStored, At, Pending, Go, InstanceTypeOK
  <2>2. CASE SnapshotStored(f)
    BY <2>2, TypeSnapshotStored DEF SnapshotStored, At, Pending, Go, InstanceTypeOK
  <2> QED BY <2>1, <2>2
<1>2. \/ job'[f] = [Idle EXCEPT !.at = "list"]
      \/ job[f].at = "snapshot" /\ job[f] \in Job /\ job'[f] = [job[f] EXCEPT !.at = "get"]
  <2>1. CASE BackupStored(f)
    BY <2>1, TypeBackupStored
  <2>2. CASE SnapshotStored(f)
    BY <2>2, TypeSnapshotStored DEF SnapshotStored, At, InstanceTypeOK
  <2> QED BY <2>1, <2>2
<1>3. /\ DOMAIN archives' = DOMAIN archives \union {job[f].key}
      /\ archives'[job[f].key].data = job[f].made
      /\ archives'[job[f].key].whole = job[f].whole
      /\ \A k \in DOMAIN archives \ {job[f].key} : archives'[k] = archives[k]
  BY <1>1 DEF Put, With
<1>4. CASE job'[f] = [Idle EXCEPT !.at = "list"]
  BY <1>1, <1>3, <1>4
<1>5. CASE job[f].at = "snapshot" /\ job[f] \in Job /\ job'[f] = [job[f] EXCEPT !.at = "get"]
  BY <1>1, <1>3, <1>5 DEF Job
<1> QED BY <1>2, <1>4, <1>5

LEMMA Prunes ==
  ASSUME InstanceTypeOK, NEW f \in Fiber, PruneListed(f) \/ Pruned(f)
  PROVE  /\ UNCHANGED <<data, taken, server, critical, torn, unused>>
         /\ DOMAIN archives' \subseteq DOMAIN archives
         /\ \A k \in DOMAIN archives' : archives'[k] = archives[k]
         /\ job'[f].at \in {"idle", "delete"} /\ job'[f].made = Empty
         /\ job'[f].whole = TRUE /\ job'[f].before = {}
         /\ job'[f].into = {} /\ job'[f].file = {}
         /\ \A g \in Fiber \ {f} : job'[g] = job[g]
<1>1. CASE PruneListed(f)
  BY <1>1, TypePruneListed DEF PruneListed, Idle, Go, InstanceTypeOK
<1>2. CASE Pruned(f)
  BY <1>2, TypePruned DEF Pruned, Idle, Go, InstanceTypeOK
<1> QED BY <1>1, <1>2

LEMMA CutOffFields ==
  ASSUME InstanceTypeOK, NEW W \in SUBSET Workspace, job' = CutOff(W)
  PROVE  \A f \in Fiber :
           /\ job'[f].at = job[f].at /\ job'[f].key = job[f].key
           /\ job'[f].made = job[f].made /\ job'[f].whole = job[f].whole
           /\ job'[f].target = job[f].target /\ job'[f].before = job[f].before
           /\ job'[f].keys = job[f].keys /\ job'[f].file = job[f].file
           /\ job'[f].into = job[f].into \ W
<1>1. SUFFICES ASSUME NEW f \in Fiber
               PROVE  /\ job'[f].at = job[f].at /\ job'[f].key = job[f].key
                      /\ job'[f].made = job[f].made /\ job'[f].whole = job[f].whole
                      /\ job'[f].target = job[f].target /\ job'[f].before = job[f].before
                      /\ job'[f].keys = job[f].keys /\ job'[f].file = job[f].file
                      /\ job'[f].into = job[f].into \ W
  OBVIOUS
<1>2. job[f] \in Job /\ job'[f] = [job[f] EXCEPT !.into = job[f].into \ W]
  BY CutOffJobs DEF InstanceTypeOK
<1> QED BY <1>2 DEF Job

\* A restore's statements: those before the last, and the last.
LEMMA Advances ==
  ASSUME InstanceTypeOK, Replace
  PROVE  /\ Replacing /\ UNCHANGED <<archives, taken, unused>>
         /\ \/ /\ critical.at # "attachments" /\ critical'.at = After[critical.at]
               /\ critical'.from = critical.from /\ critical'.whole = critical.whole
               /\ critical'.by = critical.by /\ UNCHANGED <<server, torn>>
            \/ /\ critical.at = "attachments" /\ critical' = Free /\ server' = "closing"
               /\ torn' = IF critical.whole THEN Whole ELSE Tear
         /\ \/ critical.at = "no workspaces" /\ job' = CutOff(Workspace)
            \/ critical.at # "no workspaces" /\ job' = job
<1>1. /\ critical.at \in DOMAIN After /\ critical \in Section
      /\ (critical.at = "attachments" <=> After[critical.at] = "free")
  BY Places DEF Replace, InstanceTypeOK
<1>2. CASE critical.at = "attachments"
  BY <1>1, <1>2 DEF Replace, Replacing
<1>3. CASE critical.at # "attachments"
  <2>1. critical' = [critical EXCEPT !.at = After[critical.at]] /\ UNCHANGED <<server, torn>>
    BY <1>1, <1>3 DEF Replace
  <2> QED BY <1>1, <1>3, <2>1 DEF Replace, Replacing, Section
<1> QED BY <1>2, <1>3

-----------------------------------------------------------------------------
(* Keys.                                                                   *)

\* A job that keeps out of the store, or that an action leaves as it is but for
\* the upload in it.
Holds(f) == /\ job'[f].made = job[f].made /\ job'[f].whole = job[f].whole
            /\ job'[f].before = job[f].before /\ job'[f].keys = job[f].keys
Empties(f) == /\ job'[f].made = Empty /\ job'[f].whole = TRUE
              /\ job'[f].before = {} /\ job'[f].keys = {}
Quiet(f) == /\ job'[f].at \notin {"put", "snapshot", "get"}
            /\ Holds(f) \/ Empties(f)
Same(f) == /\ job'[f].at = job[f].at /\ job'[f].key = job[f].key
           /\ job'[f].target = job[f].target /\ Holds(f)

LEMMA QuietKeys ==
  ASSUME InstanceTypeOK, Keys, UNCHANGED <<archives, taken>>,
         \A f \in Fiber : Quiet(f) \/ Same(f)
  PROVE  Keys'
<1> USE DEF Quiet, Same, Holds, Empties, Pending, Restoring
<1>1. GivenOnce'
  BY DEF GivenOnce, Keys
<1>2. TargetsFirst'
  BY DEF TargetsFirst, Keys
<1>3. SnapshotsHeld'
  BY EmptyData DEF SnapshotsHeld, Keys
<1>4. NewestKept'
  BY DEF NewestKept, Keys
<1> QED BY <1>1, <1>2, <1>3, <1>4 DEF Keys

LEMMA KeysInit == ASSUME InstanceInit PROVE Keys
BY EmptyData DEF InstanceInit, Idle, Keys, GivenOnce, TargetsFirst, SnapshotsHeld, NewestKept,
   Pending, Restoring

LEMMA KeysTriggerBackup ==
  ASSUME InstanceTypeOK, Keys, NEW f \in Fiber, TriggerBackup(f)
  PROVE  Keys'
<1>1. /\ job'[f].at = "put" /\ job'[f].key = taken + 1 /\ job'[f].keys = {}
      /\ job'[f].before = {}
      /\ taken' = taken + 1 /\ archives' = archives /\ taken \in Nat
      /\ \A g \in Fiber \ {f} : job'[g] = job[g]
  BY Triggered
<1> USE <1>1 DEF Pending, Restoring
<1>2. DOMAIN archives \subseteq 1..taken
  BY ArchiveOf
<1>3. GivenOnce'
  BY <1>2 DEF GivenOnce, TargetsFirst, NewestKept, Keys
<1>4. TargetsFirst'
  BY DEF TargetsFirst, Keys
<1>5. SnapshotsHeld'
  BY DEF SnapshotsHeld, Keys
<1>6. NewestKept'
  BY DEF NewestKept, Keys
<1> QED BY <1>3, <1>4, <1>5, <1>6 DEF Keys

LEMMA KeysRestoreBackup ==
  ASSUME InstanceTypeOK, Keys, NEW f \in Fiber, NEW k \in DOMAIN archives, RestoreBackup(f, k)
  PROVE  Keys'
<1>1. /\ job'[f].at = "snapshot" /\ job'[f].key = taken + 1 /\ job'[f].keys = {}
      /\ job'[f].before = Recorded(data) /\ job'[f].made = data /\ job'[f].target = k
      /\ taken' = taken + 1 /\ archives' = archives /\ taken \in Nat
      /\ \A g \in Fiber \ {f} : job'[g] = job[g]
  BY Asked
<1> USE <1>1 DEF Pending, Restoring
<1>2. DOMAIN archives \subseteq 1..taken
  BY ArchiveOf
<1>3. GivenOnce'
  BY <1>2 DEF GivenOnce, TargetsFirst, NewestKept, Keys
<1>4. TargetsFirst'
  BY <1>2 DEF TargetsFirst, NewestKept, Keys
<1>5. SnapshotsHeld'
  BY DEF SnapshotsHeld, Keys
<1>6. NewestKept'
  BY DEF NewestKept, Keys
<1> QED BY <1>3, <1>4, <1>5, <1>6 DEF Keys

LEMMA KeysStored ==
  ASSUME InstanceTypeOK, Keys, NEW f \in Fiber, BackupStored(f) \/ SnapshotStored(f)
  PROVE  Keys'
<1>1. /\ Pending(f) /\ job[f].key \in 1..taken /\ taken' = taken
      /\ \A g \in Fiber \ {f} : job'[g] = job[g]
  BY Comes
<1>2. \/ job'[f].at = "list" /\ job'[f].keys = {} /\ job'[f].before = {}
      \/ /\ job[f].at = "snapshot" /\ job'[f].at = "get" /\ job'[f].key = job[f].key
         /\ job'[f].target = job[f].target /\ job'[f].made = job[f].made
         /\ job'[f].before = job[f].before /\ job'[f].keys = job[f].keys
  BY Comes DEF Idle
<1>3. /\ DOMAIN archives' = DOMAIN archives \union {job[f].key}
      /\ archives'[job[f].key].data = job[f].made
      /\ \A k \in DOMAIN archives \ {job[f].key} : archives'[k] = archives[k]
  BY Comes
<1>4. \A g \in Fiber : job[f].key \notin job[g].keys
  BY <1>1 DEF Keys, GivenOnce
<1> USE <1>1 DEF Restoring, Pending
<1>5. GivenOnce'
  BY <1>2, <1>3 DEF GivenOnce, Keys
<1>6. TargetsFirst'
  BY <1>2, <1>3, <1>4 DEF TargetsFirst, GivenOnce, Keys
<1>7. SnapshotsHeld'
  BY <1>2, <1>3 DEF SnapshotsHeld, GivenOnce, Keys
<1>8. NewestKept'
  BY <1>2, <1>3, <1>4 DEF NewestKept, Keys
<1> QED BY <1>5, <1>6, <1>7, <1>8 DEF Keys

\* What is past the last one kept is so with everything older.
LEMMA ExpiredDown ==
  ASSUME InstanceTypeOK
  PROVE  /\ \A k \in SelectExpired : \E n \in DOMAIN archives : n > k
         /\ \A k \in SelectExpired, j \in DOMAIN archives : j < k => j \in SelectExpired
<1>1. DOMAIN archives \subseteq 1..taken /\ taken \in Nat
  BY ArchiveOf DEF InstanceTypeOK
<1>2. ASSUME NEW k \in DOMAIN archives
      PROVE  IsFiniteSet(Newer(k)) /\ Cardinality(Newer(k)) \in Nat
  <2>1. IsFiniteSet(1..taken)
    BY <1>1, FS_Interval
  <2>2. Newer(k) \in SUBSET (1..taken)
    BY <1>1 DEF Newer
  <2>3. IsFiniteSet(Newer(k))
    BY <2>1, <2>2, FS_Subset
  <2> QED BY <2>3, FS_CardinalityType
<1>3. ASSUME NEW k \in SelectExpired PROVE \E n \in DOMAIN archives : n > k
  <2>1. KeepLast > 0 /\ Cardinality(Newer(k)) >= KeepLast /\ k \in DOMAIN archives
    BY DEF SelectExpired
  <2>2. Cardinality(Newer(k)) # 0
    BY <1>2, <2>1, KeepLastAssumption
  <2>3. Newer(k) # {}
    BY <2>2, FS_EmptySet
  <2> QED BY <2>3 DEF Newer
<1>4. ASSUME NEW k \in SelectExpired, NEW j \in DOMAIN archives, j < k
      PROVE  j \in SelectExpired
  <2>1. KeepLast > 0 /\ Cardinality(Newer(k)) >= KeepLast /\ k \in DOMAIN archives
    BY DEF SelectExpired
  <2>2. Newer(k) \in SUBSET Newer(j)
    BY <1>1, <1>4, <2>1 DEF Newer
  <2>3. Cardinality(Newer(k)) <= Cardinality(Newer(j))
    BY <1>2, <2>2, FS_Subset
  <2>4. Cardinality(Newer(j)) >= KeepLast
    BY <1>2, <2>1, <2>3, KeepLastAssumption
  <2> QED BY <2>1, <2>4 DEF SelectExpired
<1> QED BY <1>3, <1>4

LEMMA KeysPruneListed ==
  ASSUME InstanceTypeOK, Keys, NEW f \in Fiber, PruneListed(f)
  PROVE  Keys'
<1>1. /\ job'[f].at = "delete" /\ job'[f].keys = SelectExpired /\ job'[f].before = {}
      /\ taken' = taken /\ archives' = archives
      /\ \A g \in Fiber \ {f} : job'[g] = job[g]
  BY TypePruneListed DEF PruneListed, Idle, Go, InstanceTypeOK
<1>2. SelectExpired \subseteq DOMAIN archives /\ DOMAIN archives \subseteq 1..taken
  BY ArchiveOf DEF SelectExpired
<1> USE <1>1, <1>2 DEF Pending, Restoring
<1>3. GivenOnce'
  BY DEF GivenOnce, Keys
<1>4. TargetsFirst'
  BY ExpiredDown DEF TargetsFirst, Keys
<1>5. SnapshotsHeld'
  BY DEF SnapshotsHeld, Keys
<1>6. NewestKept'
  BY ExpiredDown DEF NewestKept, Keys
<1> QED BY <1>3, <1>4, <1>5, <1>6 DEF Keys

\* The newest archive.
LEMMA Newest ==
  ASSUME InstanceTypeOK, NEW k \in DOMAIN archives
  PROVE  \E m \in DOMAIN archives : m >= k /\ \A n \in DOMAIN archives : n <= m
<1> DEFINE ages == {taken - n : n \in DOMAIN archives}
<1>1. DOMAIN archives \subseteq 1..taken /\ taken \in Nat
  BY ArchiveOf DEF InstanceTypeOK
<1>2. ages \subseteq Nat /\ ages # {}
  BY <1>1
<1>3. PICK a \in ages : \A b \in ages : <<b, a>> \notin OpToRel(<, Nat)
  <2> HIDE DEF ages
  <2> QED BY <1>2, NatLessThanWellFounded, WFMin
<1>4. \A b \in ages : ~(b < a)
  BY <1>2, <1>3 DEF OpToRel
<1>5. PICK m \in DOMAIN archives : a = taken - m
  OBVIOUS
<1>6. \A n \in DOMAIN archives : n <= m
  <2>1. SUFFICES ASSUME NEW n \in DOMAIN archives PROVE n <= m
    OBVIOUS
  <2>2. ~(taken - n < taken - m)
    BY <1>4, <1>5
  <2> QED BY <1>1, <2>2
<1> QED BY <1>6

LEMMA KeysPruned ==
  ASSUME InstanceTypeOK, Keys, NEW f \in Fiber, Pruned(f)
  PROVE  Keys'
<1>1. /\ job'[f].at = "idle" /\ job'[f].keys = {} /\ job'[f].before = {}
      /\ taken' = taken
      /\ \A g \in Fiber \ {f} : job'[g] = job[g]
  BY TypePruned DEF Pruned, Idle, Go, InstanceTypeOK
<1>2. /\ DOMAIN archives' = DOMAIN archives \ job[f].keys
      /\ \A k \in DOMAIN archives' : archives'[k] = archives[k]
  BY TypePruned
<1> USE <1>1, <1>2 DEF Pending, Restoring
<1>3. GivenOnce'
  BY DEF GivenOnce, Keys
<1>4. TargetsFirst'
  BY DEF TargetsFirst, Keys
<1>5. SnapshotsHeld'
  BY DEF SnapshotsHeld, TargetsFirst, Keys
<1>6. NewestKept'
  <2>1. SUFFICES ASSUME NEW g \in Fiber, NEW k \in job'[g].keys \intersect DOMAIN archives'
                 PROVE  \E n \in DOMAIN archives' : n > k
    BY DEF NewestKept, Keys
  <2>2. g # f /\ k \in job[g].keys \intersect DOMAIN archives
    OBVIOUS
  <2>3. PICK m \in DOMAIN archives : m >= k /\ \A n \in DOMAIN archives : n <= m
    BY <2>2, Newest
  <2>4. \A n \in DOMAIN archives : n \in Nat
    BY ArchiveOf
  <2>5. m \notin job[f].keys /\ m \notin job[g].keys
    BY <2>3, <2>4 DEF NewestKept, Keys
  <2> QED BY <2>2, <2>3, <2>4, <2>5
<1> QED BY <1>3, <1>4, <1>5, <1>6 DEF Keys

\* The actions that leave the store and the keys alone.
StoreIdle ==
  \/ \E u \in User, w \in Workspace : CreateWorkspace(u, w) \/ StartDemo(u, w)
  \/ \E w \in Workspace : TtlPasses(w) \/ PurgeDemo(w)
  \/ \E f \in Fiber :
       \/ \E w \in Workspace, a \in Upload : StartUpload(f, w, a)
       \/ UploadFile(f) \/ UploadRow(f) \/ BytesRead(f) \/ Fails(f)
  \/ Sync \/ Exit \/ Crash \/ Boot

LEMMA StoreIdles ==
  ASSUME InstanceTypeOK, StoreIdle
  PROVE  UNCHANGED <<archives, taken>> /\ \A f \in Fiber : Quiet(f) \/ Same(f)
<1> USE DEF Quiet, Same, Holds, Empties
<1>1. ASSUME NEW u \in User, NEW w \in Workspace, CreateWorkspace(u, w) \/ StartDemo(u, w)
      PROVE  UNCHANGED <<archives, taken, job>>
  BY <1>1 DEF CreateWorkspace, StartDemo, NewWorkspace
<1>2. ASSUME NEW w \in Workspace, TtlPasses(w) \/ PurgeDemo(w)
      PROVE  UNCHANGED <<archives, taken, job>>
  BY <1>2 DEF TtlPasses, PurgeDemo
<1>3. ASSUME NEW u \in User, PurgeOwner(u)
      PROVE  UNCHANGED <<archives, taken, job>>
  BY <1>3 DEF PurgeOwner
<1>4. ASSUME NEW W \in SUBSET Workspace, job' = CutOff(W)
      PROVE  \A f \in Fiber : Same(f)
  BY <1>4, CutOffFields
<1>5. ASSUME NEW w \in Workspace, PurgeFile(w)
      PROVE  UNCHANGED <<archives, taken>> /\ \A f \in Fiber : Same(f)
  BY <1>4, <1>5 DEF PurgeFile
<1>6. ASSUME Replace
      PROVE  UNCHANGED <<archives, taken>> /\ \A f \in Fiber : Same(f)
  BY <1>4, <1>6 DEF Replace
<1>7. ASSUME NEW f \in Fiber, NEW j \in Job, Go(f, j),
             j.at \notin {"put", "snapshot", "get"},
             j.made = Empty, j.whole = TRUE, j.before = {}, j.keys = {}
      PROVE  \A g \in Fiber : Quiet(g) \/ Same(g)
  BY <1>7, Goes
<1>8. ASSUME NEW f \in Fiber, NEW w \in Workspace, NEW a \in Upload, StartUpload(f, w, a)
      PROVE  UNCHANGED <<archives, taken>> /\ \A g \in Fiber : Quiet(g) \/ Same(g)
  <2>1. [Idle EXCEPT !.at = "file", !.into = {w}, !.file = {a}] \in Job
    BY IdleJob DEF Job
  <2> QED BY <1>7, <1>8, <2>1 DEF StartUpload, Idle
<1>9. ASSUME NEW f \in Fiber, UploadFile(f)
      PROVE  UNCHANGED <<archives, taken>> /\ \A g \in Fiber : Quiet(g) \/ Same(g)
  <2>1. job[f] \in Job /\ job'[f] = [job[f] EXCEPT !.at = "row"]
    BY <1>9, TypeUploadFile DEF InstanceTypeOK
  <2>2. \A g \in Fiber \ {f} : job'[g] = job[g]
    BY <1>9 DEF UploadFile, Go, InstanceTypeOK
  <2> QED BY <1>9, <2>1, <2>2 DEF UploadFile, Job
<1>10. ASSUME NEW f \in Fiber, UploadRow(f) \/ BytesRead(f) \/ Fails(f)
       PROVE  UNCHANGED <<archives, taken>> /\ \A g \in Fiber : Quiet(g) \/ Same(g)
  BY <1>7, <1>10, IdleJob DEF UploadRow, BytesRead, Fails, Idle
<1>11. ASSUME Exit \/ Crash
       PROVE  UNCHANGED <<archives, taken>> /\ \A g \in Fiber : Quiet(g)
  BY <1>11, Downs DEF Exit, Crash, Idle
<1>12. ASSUME Boot
       PROVE  UNCHANGED <<archives, taken>> /\ \A g \in Fiber : Quiet(g) \/ Same(g)
  BY <1>12, TypeBoot DEF Boot, Idle
<1> QED BY <1>1, <1>2, <1>3, <1>5, <1>6, <1>8, <1>9, <1>10, <1>11, <1>12 DEF StoreIdle, Sync

LEMMA KeysNext == ASSUME InstanceTypeOK, Keys, InstanceNext PROVE Keys'
<1>1. CASE StoreIdle
  BY <1>1, StoreIdles, QuietKeys
<1>2. ASSUME NEW f \in Fiber, \/ TriggerBackup(f) \/ \E k \in DOMAIN archives : RestoreBackup(f, k)
                            \/ BackupStored(f) \/ PruneListed(f) \/ Pruned(f) \/ SnapshotStored(f)
      PROVE  Keys'
  BY <1>2, KeysTriggerBackup, KeysRestoreBackup, KeysStored, KeysPruneListed, KeysPruned
<1> QED BY <1>1, <1>2 DEF InstanceNext, StoreIdle, Awaited

LEMMA Reached ==
  InstanceSpec => [](InstanceTypeOK /\ Keys)
<1>1. InstanceInit => InstanceTypeOK /\ Keys
  BY TypeInit, KeysInit
<1>2. InstanceTypeOK /\ Keys /\ [InstanceNext]_instanceVars => (InstanceTypeOK /\ Keys)'
  <2>1. ASSUME InstanceTypeOK, Keys, InstanceNext PROVE InstanceTypeOK' /\ Keys'
    BY <2>1, TypeNext, KeysNext
  <2>2. ASSUME InstanceTypeOK, Keys, UNCHANGED instanceVars PROVE InstanceTypeOK' /\ Keys'
    <3>1. InstanceTypeOK'
      BY <2>2 DEF InstanceTypeOK, instanceVars
    <3>2. \A f \in Fiber : Same(f)
      BY <2>2 DEF instanceVars, Same, Holds
    <3> QED BY <2>2, <3>1, <3>2, QuietKeys DEF instanceVars
  <2> QED BY <2>1, <2>2
<1> QED BY <1>1, <1>2, PTL DEF InstanceSpec

-----------------------------------------------------------------------------
(* Copies.  What goes from one to another.                                 *)

LEMMA CopyInPlace ==
  ASSUME InstanceTypeOK, InstanceNext
  PROVE  \/ critical'.from = Empty /\ critical'.whole = TRUE
         \/ critical'.from = critical.from /\ critical'.whole = critical.whole
         \/ \E k \in DOMAIN archives : /\ critical'.from = archives[k].data
                                       /\ critical'.whole = archives[k].whole
<1> DEFINE P == \/ critical'.from = Empty /\ critical'.whole = TRUE
                \/ critical'.from = critical.from /\ critical'.whole = critical.whole
                \/ \E k \in DOMAIN archives : /\ critical'.from = archives[k].data
                                              /\ critical'.whole = archives[k].whole
<1>1. UNCHANGED critical => P
  OBVIOUS
<1>2. critical' = Free => P
  BY DEF Free
<1>3. ASSUME NEW w \in Workspace, PurgeDemo(w) \/ PurgeFile(w) PROVE P
  BY <1>3 DEF PurgeDemo, PurgeFile, Free, InstanceTypeOK, Section
<1>4. ASSUME NEW f \in Fiber, BytesRead(f) PROVE P
  BY <1>4, TypeBytesRead DEF BytesRead
<1>5. Replace => P
  BY <1>2, Advances
<1> HIDE DEF P
<1>6. P
  BY <1>1, <1>2, <1>3, <1>4, <1>5 DEF InstanceNext, CreateWorkspace, StartDemo, NewWorkspace,
     TtlPasses, StartUpload, TriggerBackup, RestoreBackup, Awaited, UploadFile, UploadRow,
     BackupStored, PruneListed, Pruned, SnapshotStored, Fails, Sync, PurgeOwner, Exit, Crash,
     Down, Boot
<1> QED BY <1>6 DEF P

LEMMA Copies ==
  ASSUME InstanceTypeOK, Keys, InstanceNext
  PROVE  /\ \A f \in Fiber :
              \/ job'[f].made = Empty /\ job'[f].whole = TRUE
              \/ job'[f].made = job[f].made /\ job'[f].whole = job[f].whole
              \/ job'[f].made = data /\ job'[f].whole = ~torn.cut /\ critical = Free
         /\ \A k \in DOMAIN archives' :
              \/ k \in DOMAIN archives /\ archives'[k] = archives[k]
              \/ \E f \in Fiber : /\ archives'[k].data = job[f].made
                                  /\ archives'[k].whole = job[f].whole
<1> DEFINE J(f) == \/ job'[f].made = Empty /\ job'[f].whole = TRUE
                   \/ job'[f].made = job[f].made /\ job'[f].whole = job[f].whole
                   \/ job'[f].made = data /\ job'[f].whole = ~torn.cut /\ critical = Free
           A(k) == \/ k \in DOMAIN archives /\ archives'[k] = archives[k]
                   \/ \E f \in Fiber : /\ archives'[k].data = job[f].made
                                       /\ archives'[k].whole = job[f].whole
<1>1. CASE StoreIdle
  BY <1>1, StoreIdles DEF Quiet, Same, Holds, Empties
<1>2. ASSUME NEW f \in Fiber, TriggerBackup(f) \/ \E k \in DOMAIN archives : RestoreBackup(f, k)
      PROVE  (\A g \in Fiber : J(g)) /\ UNCHANGED archives
  <2>1. /\ job'[f].made = data /\ job'[f].whole = ~torn.cut /\ UNCHANGED archives
        /\ \A g \in Fiber \ {f} : job'[g] = job[g]
    BY <1>2, Triggered, Asked
  <2>2. critical = Free
    BY <1>2 DEF TriggerBackup, RestoreBackup, Running
  <2> QED BY <2>1, <2>2
<1>3. ASSUME NEW f \in Fiber, BackupStored(f) \/ SnapshotStored(f)
      PROVE  (\A g \in Fiber : J(g)) /\ \A k \in DOMAIN archives' : A(k)
  <2>1. /\ \/ job'[f].made = Empty /\ job'[f].whole = TRUE
           \/ job'[f].made = job[f].made /\ job'[f].whole = job[f].whole
        /\ \A g \in Fiber \ {f} : job'[g] = job[g]
    BY <1>3, Comes DEF Idle
  <2>2. /\ DOMAIN archives' = DOMAIN archives \union {job[f].key}
        /\ archives'[job[f].key].data = job[f].made
        /\ archives'[job[f].key].whole = job[f].whole
        /\ \A k \in DOMAIN archives \ {job[f].key} : archives'[k] = archives[k]
    BY <1>3, Comes
  <2> QED BY <2>1, <2>2
<1>4. ASSUME NEW f \in Fiber, PruneListed(f) \/ Pruned(f)
      PROVE  (\A g \in Fiber : J(g)) /\ \A k \in DOMAIN archives' : A(k)
  BY <1>4, Prunes
<1> HIDE DEF J
<1>5. CASE ~StoreIdle
  <2>1. \E f \in Fiber : \/ TriggerBackup(f) \/ \E k \in DOMAIN archives : RestoreBackup(f, k)
                         \/ BackupStored(f) \/ SnapshotStored(f) \/ PruneListed(f) \/ Pruned(f)
    BY <1>5 DEF InstanceNext, StoreIdle, Awaited
  <2>2. (\A f \in Fiber : J(f)) /\ \A k \in DOMAIN archives' : A(k)
    BY <1>2, <1>3, <1>4, <2>1
  <2> QED BY <2>2 DEF J
<1> QED BY <1>1, <1>5

-----------------------------------------------------------------------------
(* Owners.                                                                 *)

LEMMA OwnedInit == ASSUME InstanceInit PROVE Owned
<1>1. OwnersIn(Empty)
  BY DEF OwnersIn, Empty, Nothing
<1> QED BY <1>1 DEF InstanceInit, Owned, OwnersIn, Free, Idle, Empty, Nothing

LEMMA OwnersKept == ASSUME InstanceTypeOK, Owned, InstanceNext PROVE OwnersIn(data')
<1>1. ASSUME NEW u \in User, NEW w \in Workspace, CreateWorkspace(u, w) \/ StartDemo(u, w)
      PROVE  OwnersIn(data')
  <2>1. PICK demo \in BOOLEAN : NewWorkspace(u, w, demo)
    BY <1>1 DEF CreateWorkspace, StartDemo
  <2>2. /\ data'.users = data.users \union {u}
        /\ data'.rows = With(data.rows, w, [owner |-> u, demo |-> demo, old |-> FALSE])
    BY <2>1, TypeNewWorkspace
  <2> QED BY <2>2 DEF Owned, OwnersIn, With
<1>2. ASSUME NEW w \in Workspace, TtlPasses(w) PROVE OwnersIn(data')
  BY <1>2, TypeTtlPasses DEF Owned, OwnersIn, InstanceTypeOK, Data
<1>3. ASSUME NEW w \in Workspace, PurgeDemo(w) PROVE OwnersIn(data')
  <2>1. data'.users = data.users /\ data'.rows = Less(data.rows, {w})
    BY <1>3, TypePurgeDemo DEF InstanceTypeOK, Data
  <2> QED BY <2>1 DEF Owned, OwnersIn, Less, Restrict
<1>4. ASSUME data'.users = data.users /\ data'.rows = data.rows PROVE OwnersIn(data')
  BY <1>4 DEF Owned, OwnersIn
<1>5. ASSUME NEW w \in Workspace, PurgeFile(w) PROVE OwnersIn(data')
  BY <1>4, <1>5, TypePurgeFile DEF InstanceTypeOK, Data
<1>6. ASSUME NEW u \in User, PurgeOwner(u) PROVE OwnersIn(data')
  BY <1>6 DEF PurgeOwner, OwnsNothing, Owned, OwnersIn, InstanceTypeOK, Data
<1>7. ASSUME NEW f \in Fiber, UploadFile(f) \/ UploadRow(f) PROVE OwnersIn(data')
  <2>1. data'.users = data.users /\ data'.rows = data.rows
    BY <1>7, TypeUploadFile, TypeUploadRow DEF InstanceTypeOK, Data
  <2> QED BY <1>4, <2>1
<1>8. CASE Replace
  <2>1. \/ data'.users = {} /\ data'.rows = Nothing
        \/ data'.users = critical.from.users /\ data'.rows = critical.from.rows
        \/ data'.users = data.users /\ data'.rows = data.rows
    BY <1>8, Replaces
  <2>2. DOMAIN Nothing = {}
    BY DEF Nothing
  <2> QED BY <2>1, <2>2 DEF Owned, OwnersIn
<1>9. UNCHANGED data => OwnersIn(data')
  BY <1>4
<1> QED BY <1>1, <1>2, <1>3, <1>5, <1>6, <1>7, <1>8, <1>9 DEF InstanceNext, Sync, Awaited,
  StartUpload, TriggerBackup, RestoreBackup, BackupStored, PruneListed, Pruned, SnapshotStored,
  BytesRead, Fails, Exit, Crash, Boot

LEMMA OwnedNext == ASSUME InstanceTypeOK, Keys, Owned, InstanceNext PROVE Owned'
<1>1. OwnersIn(Empty)
  BY DEF OwnersIn, Empty, Nothing
<1>2. OwnersIn(critical'.from)
  BY <1>1, CopyInPlace DEF Owned
<1>3. \A k \in DOMAIN archives' : OwnersIn(archives'[k].data)
  BY Copies DEF Owned
<1>4. \A f \in Fiber : OwnersIn(job'[f].made)
  BY <1>1, Copies DEF Owned
<1> QED BY <1>2, <1>3, <1>4, OwnersKept DEF Owned

\* The demo purge leaves no workspace without its owner's account, in the
\* directory or in an archive, wherever a stop cut it off and whatever restores
\* mixed (demo.ts:42, restore.ts:85).
THEOREM OwnersAlwaysExist == InstanceSpec => []OwnersExist
<1>1. InstanceInit => Owned
  BY OwnedInit
<1>2. InstanceTypeOK /\ Keys /\ Owned /\ [InstanceNext]_instanceVars => Owned'
  <2>1. Owned /\ UNCHANGED instanceVars => Owned'
    BY DEF Owned, instanceVars
  <2> QED BY <2>1, OwnedNext
<1>3. Owned => OwnersExist
  BY DEF Owned, OwnersIn, OwnersExist
<1> QED BY <1>1, <1>2, <1>3, Reached, PTL DEF InstanceSpec

-----------------------------------------------------------------------------
(* Restores.                                                               *)

\* While a restore replaces files nothing else can happen but a stop; the first
\* of its statements follows the archive's bytes.
LEMMA Uncut ==
  ASSUME InstanceTypeOK, Stopped, InstanceNext, Replacing
  PROVE  Replace \/ Crash
<1>1. critical # Free /\ critical.at \notin {"file", "owner"} /\ server # "down"
  BY Places DEF Replacing, Stopped
<1> QED BY <1>1 DEF InstanceNext, CreateWorkspace, StartDemo, NewWorkspace, TtlPasses, PurgeDemo,
  StartUpload, TriggerBackup, RestoreBackup, Awaited, UploadFile, UploadRow, BackupStored,
  PruneListed, Pruned, SnapshotStored, BytesRead, Fails, Sync, PurgeFile, PurgeOwner, Exit, Boot,
  Running, At

LEMMA Begins ==
  ASSUME InstanceTypeOK, InstanceNext, ~Replacing, Replacing'
  PROVE  \E f \in Fiber : BytesRead(f)
<1> USE DEF Replacing
<1>1. ASSUME UNCHANGED critical PROVE FALSE
  BY <1>1
<1>2. ASSUME critical'.at \in {"free", "file", "owner"} PROVE FALSE
  BY <1>2, Places
<1>3. ASSUME NEW w \in Workspace, PurgeDemo(w) \/ PurgeFile(w) PROVE FALSE
  <2>1. critical'.at \in {"file", "owner"}
    BY <1>3 DEF PurgeDemo, PurgeFile, Free, InstanceTypeOK, Section
  <2> QED BY <2>1, <1>2
<1>4. ASSUME (\E u \in User : PurgeOwner(u)) \/ Exit \/ Crash PROVE FALSE
  BY <1>2, <1>4, Places DEF PurgeOwner, Exit, Crash, Down
<1>5. ~Replace
  BY DEF Replace
<1> QED BY <1>1, <1>3, <1>4, <1>5 DEF InstanceNext, CreateWorkspace, StartDemo, NewWorkspace,
  TtlPasses, StartUpload, TriggerBackup, RestoreBackup, Awaited, UploadFile, UploadRow,
  BackupStored, PruneListed, Pruned, SnapshotStored, Fails, Sync, Boot

LEMMA StoppedNext == ASSUME InstanceTypeOK, Stopped, InstanceNext PROVE Stopped'
<1>1. CASE Exit \/ Crash
  BY <1>1, Downs DEF Exit, Crash, Stopped
<1>2. CASE server' # "down"
  BY <1>2 DEF Stopped
<1>3. ASSUME ~Exit, ~Crash, server = "down" PROVE Boot
  BY <1>3, Places DEF Stopped, InstanceNext, CreateWorkspace, StartDemo, NewWorkspace, TtlPasses,
     PurgeDemo, StartUpload, TriggerBackup, RestoreBackup, Awaited, UploadFile, UploadRow,
     BackupStored, PruneListed, Pruned, SnapshotStored, BytesRead, Fails, Sync, PurgeFile,
     PurgeOwner, Replace, Running, At
<1>4. ASSUME server # "down", ~Exit, ~Crash PROVE server' # "down"
  BY <1>4 DEF InstanceNext, CreateWorkspace, StartDemo, NewWorkspace, TtlPasses,
     PurgeDemo, StartUpload, TriggerBackup, RestoreBackup, Awaited, UploadFile, UploadRow,
     BackupStored, PruneListed, Pruned, SnapshotStored, BytesRead, Fails, Sync, PurgeFile,
     PurgeOwner, Replace, Boot
<1>5. Boot => server' # "down"
  BY DEF Boot
<1> QED BY <1>1, <1>2, <1>3, <1>4, <1>5

LEMMA PlacedNext == ASSUME InstanceTypeOK, Stopped, Placed, InstanceNext PROVE Placed'
<1>1. CASE ~Replacing'
  BY <1>1, Places DEF Placed, Replacing
<1>2. CASE Replacing' /\ ~Replacing
  <2>1. critical'.at = "no platform"
    BY <1>2, Begins, TypeBytesRead
  <2> QED BY <2>1 DEF Placed
<1>3. CASE Replacing' /\ Replacing
  <2>1. Replace
    BY <1>3, Uncut, Places DEF Replacing, Crash, Down
  <2>2. /\ critical.at \in DOMAIN After /\ critical.at # "attachments"
        /\ critical'.at = After[critical.at] /\ critical'.from = critical.from
    BY <1>3, <2>1, Advances, Places DEF Replacing
  <2> QED BY <2>1, <2>2, Replaces, Places DEF Placed
<1> QED BY <1>1, <1>2, <1>3

LEMMA ReachedPlaced == InstanceSpec => [](InstanceTypeOK /\ Keys /\ Stopped /\ Placed)
<1>1. InstanceInit => Stopped /\ Placed
  BY DEF InstanceInit, Stopped, Placed, Free
<1>2. InstanceTypeOK /\ Stopped /\ Placed /\ [InstanceNext]_instanceVars => (Stopped /\ Placed)'
  <2>1. Stopped /\ Placed /\ UNCHANGED instanceVars => (Stopped /\ Placed)'
    BY DEF Stopped, Placed, instanceVars
  <2> QED BY <2>1, StoppedNext, PlacedNext
<1> QED BY <1>1, <1>2, Reached, PTL DEF InstanceSpec

\* A restore that runs to its end leaves the archive in every part, whatever
\* was under way as it began (restore.ts:83).
THEOREM RestoresLeaveTheArchive == InstanceSpec => RestoresTheArchive
<1>1. ASSUME InstanceTypeOK, Stopped, Placed, InstanceNext,
             critical.at = "attachments", critical' = Free, server' = "closing"
      PROVE  data' = critical.from
  <2>1. Replacing
    BY <1>1, Places DEF Replacing
  <2>2. Replace
    BY <1>1, <2>1, Uncut DEF Crash, Down
  <2>3. /\ data' \in Data /\ critical.from \in Data
        /\ data'.users = critical.from.users /\ data'.rows = critical.from.rows
        /\ data'.dbs = critical.from.dbs /\ data'.attach = critical.from.attach
    BY <1>1, <2>2, Replaces DEF Placed, InstanceTypeOK, Section
  <2> QED BY <2>3 DEF Data
<1> QED BY <1>1, ReachedPlaced, PTL DEF InstanceSpec, RestoresTheArchive

\* As a restore starts to replace files, what it overwrites is in an archive of
\* the store, whatever other backups and their pruning did since its snapshot
\* (restore.ts:57, backup.ts:112).
THEOREM RestoresKeepTheOld == InstanceSpec => RestoreKeepsTheOld
<1>1. ASSUME InstanceTypeOK, Keys, InstanceNext, critical = Free, critical'.at \in DOMAIN After
      PROVE  \E k \in DOMAIN archives : critical'.by \subseteq Recorded(archives[k].data)
  <2>1. PICK f \in Fiber : BytesRead(f)
    BY <1>1, Begins, Places DEF Replacing
  <2>2. /\ job[f].at = "get" /\ job[f].target \in DOMAIN archives
        /\ critical'.by = job[f].before \intersect Recorded(data)
    BY <1>1, <2>1, TypeBytesRead DEF BytesRead, At
  <2>3. /\ job[f].key \in DOMAIN archives /\ archives[job[f].key].data = job[f].made
        /\ job[f].before \subseteq Recorded(job[f].made)
    BY <1>1, <2>2 DEF Keys, SnapshotsHeld
  <2> QED BY <2>2, <2>3
<1> QED BY <1>1, Reached, PTL DEF InstanceSpec, RestoreKeepsTheOld

-----------------------------------------------------------------------------
(* Files.                                                                  *)

LEMMA RecordsLess ==
  ASSUME NEW d \in Data, NEW e \in Data, NEW X,
         \A w \in DOMAIN e.dbs : \A a \in e.dbs[w] :
           a \in X \/ (w \in DOMAIN d.dbs /\ a \in d.dbs[w])
  PROVE  Recorded(e) \subseteq Recorded(d) \union X
BY RecordedOf

\* But for a restore, no file goes, and what is newly recorded is an upload's file.
LEMMA Records ==
  ASSUME InstanceTypeOK, Keys, InstanceNext, ~Replace
  PROVE  /\ data.attach \subseteq data'.attach
         /\ \/ Recorded(data') \subseteq Recorded(data)
            \/ \E f \in Fiber : /\ UploadRow(f) /\ job[f].into # {}
                                /\ Recorded(data') \subseteq Recorded(data) \union job[f].file
<1>1. data \in Data /\ data' \in Data
  BY TypeNext DEF InstanceTypeOK
<1>2. ASSUME data'.attach = data.attach, data'.dbs = data.dbs
      PROVE  data.attach \subseteq data'.attach /\ Recorded(data') \subseteq Recorded(data)
  BY <1>2 DEF Recorded
<1>3. ASSUME NEW u \in User, NEW w \in Workspace, CreateWorkspace(u, w) \/ StartDemo(u, w)
      PROVE  data.attach \subseteq data'.attach /\ Recorded(data') \subseteq Recorded(data)
  <2>1. data'.dbs = With(data.dbs, w, {}) /\ data'.attach = data.attach
    BY <1>3, TypeNewWorkspace DEF CreateWorkspace, StartDemo
  <2>2. \A v \in DOMAIN data'.dbs : \A a \in data'.dbs[v] :
          a \in {} \/ (v \in DOMAIN data.dbs /\ a \in data.dbs[v])
    BY <2>1 DEF With
  <2>3. Recorded(data') \subseteq Recorded(data) \union {}
    BY <1>1, <2>2, RecordsLess
  <2> QED BY <2>1, <2>3
<1>4. ASSUME NEW w \in Workspace, TtlPasses(w) \/ PurgeDemo(w)
      PROVE  data.attach \subseteq data'.attach /\ Recorded(data') \subseteq Recorded(data)
  BY <1>1, <1>2, <1>4, TypeTtlPasses, TypePurgeDemo DEF Data
<1>5. ASSUME NEW w \in Workspace, PurgeFile(w)
      PROVE  data.attach \subseteq data'.attach /\ Recorded(data') \subseteq Recorded(data)
  <2>1. data'.dbs = Less(data.dbs, {w}) /\ data'.attach = data.attach
    BY <1>1, <1>5, TypePurgeFile DEF Data
  <2>2. \A v \in DOMAIN data'.dbs : \A a \in data'.dbs[v] :
          a \in {} \/ (v \in DOMAIN data.dbs /\ a \in data.dbs[v])
    BY <2>1 DEF Less, Restrict
  <2>3. Recorded(data') \subseteq Recorded(data) \union {}
    BY <1>1, <2>2, RecordsLess
  <2> QED BY <2>1, <2>3
<1>6. ASSUME NEW u \in User, PurgeOwner(u)
      PROVE  data.attach \subseteq data'.attach /\ Recorded(data') \subseteq Recorded(data)
  BY <1>1, <1>2, <1>6 DEF PurgeOwner, Data
<1>7. ASSUME NEW f \in Fiber, UploadFile(f)
      PROVE  data.attach \subseteq data'.attach /\ Recorded(data') \subseteq Recorded(data)
  <2>1. data' = [data EXCEPT !.attach = data.attach \union job[f].file]
    BY <1>7, TypeUploadFile
  <2>2. data'.dbs = data.dbs /\ data'.attach = data.attach \union job[f].file
    BY <1>1, <2>1 DEF Data
  <2> QED BY <2>2 DEF Recorded
<1>8. ASSUME NEW f \in Fiber, UploadRow(f)
      PROVE  /\ data.attach = data'.attach
             /\ Recorded(data') \subseteq Recorded(data) \union job[f].file
             /\ job[f].into = {} => Recorded(data') \subseteq Recorded(data)
  <2>1. /\ data' = [data EXCEPT !.dbs = data'.dbs] /\ DOMAIN data'.dbs = DOMAIN data.dbs
        /\ \A w \in DOMAIN data.dbs :
             data'.dbs[w] = IF w \in job[f].into THEN data.dbs[w] \union job[f].file
                            ELSE data.dbs[w]
    BY <1>8, TypeUploadRow
  <2>2. data.attach = data'.attach
    BY <1>1, <2>1 DEF Data
  <2>3. \A w \in DOMAIN data'.dbs : \A a \in data'.dbs[w] :
          a \in job[f].file \/ (w \in DOMAIN data.dbs /\ a \in data.dbs[w])
    BY <2>1
  <2>4. ASSUME job[f].into = {}
        PROVE  Recorded(data') \subseteq Recorded(data) \union {}
    <3>1. \A w \in DOMAIN data'.dbs : \A a \in data'.dbs[w] :
            a \in {} \/ (w \in DOMAIN data.dbs /\ a \in data.dbs[w])
      BY <2>1, <2>4
    <3> QED BY <1>1, <3>1, RecordsLess
  <2>5. Recorded(data') \subseteq Recorded(data) \union job[f].file
    BY <1>1, <2>3, RecordsLess
  <2> QED BY <2>2, <2>4, <2>5
<1> QED BY <1>2, <1>3, <1>4, <1>5, <1>6, <1>7, <1>8 DEF InstanceNext, Sync, Awaited,
  StartUpload, TriggerBackup, RestoreBackup, BackupStored, PruneListed, Pruned, SnapshotStored,
  BytesRead, Fails, Exit, Crash, Boot

\* The upload in a job goes on, ends, or is a new one.
Onward(f) ==
  \/ job'[f].file = {}
  \/ /\ job'[f].file = job[f].file /\ job'[f].into \subseteq job[f].into
     /\ job'[f].at = job[f].at \/ job'[f].at # "row" \/ UploadFile(f)
Arrives(f) ==
  \E a \in unused : /\ job'[f].file = {a} /\ job'[f].at = "file" /\ unused' = unused \ {a}
                    /\ \A g \in Fiber \ {f} : job'[g] = job[g]
                    /\ UNCHANGED <<data, critical, archives>>

LEMMA Uploads ==
  ASSUME InstanceTypeOK, Keys, InstanceNext
  PROVE  unused' \subseteq unused /\ ((\A f \in Fiber : Onward(f)) \/ \E f \in Fiber : Arrives(f))
<1>1. unused' \subseteq unused
  BY DEF InstanceNext, CreateWorkspace, StartDemo, NewWorkspace, TtlPasses, PurgeDemo,
     StartUpload, TriggerBackup, RestoreBackup, Awaited, UploadFile, UploadRow, BackupStored,
     PruneListed, Pruned, SnapshotStored, BytesRead, Fails, Sync, PurgeFile, PurgeOwner, Replace,
     Exit, Crash, Boot
<1>2. UNCHANGED job => \A f \in Fiber : Onward(f)
  BY DEF Onward
<1>3. ASSUME NEW W \in SUBSET Workspace, job' = CutOff(W) PROVE \A f \in Fiber : Onward(f)
  BY <1>3, CutOffFields DEF Onward
<1>4. ASSUME NEW f \in Fiber, NEW w \in Workspace, NEW a \in Upload, StartUpload(f, w, a)
      PROVE  Arrives(f)
  <2>1. [Idle EXCEPT !.at = "file", !.into = {w}, !.file = {a}] \in Job
    BY IdleJob DEF Job
  <2>2. job'[f] = [Idle EXCEPT !.at = "file", !.into = {w}, !.file = {a}]
    BY <1>4, <2>1, Goes DEF StartUpload
  <2>3. job'[f].file = {a} /\ job'[f].at = "file"
    BY <2>2 DEF Idle
  <2> QED BY <1>4, <2>3 DEF StartUpload, Arrives, Go, InstanceTypeOK
<1>5. ASSUME NEW f \in Fiber, UploadFile(f) PROVE \A g \in Fiber : Onward(g)
  <2>1. job[f] \in Job /\ job'[f] = [job[f] EXCEPT !.at = "row"]
    BY <1>5, TypeUploadFile DEF InstanceTypeOK
  <2>2. job'[f].file = job[f].file /\ job'[f].into = job[f].into
    BY <2>1 DEF Job
  <2>3. \A g \in Fiber \ {f} : job'[g] = job[g]
    BY <1>5 DEF UploadFile, Go, InstanceTypeOK
  <2> QED BY <1>5, <2>2, <2>3 DEF Onward
<1>6. ASSUME NEW f \in Fiber, UploadRow(f) \/ BytesRead(f) \/ Fails(f)
      PROVE  \A g \in Fiber : Onward(g)
  <2>1. job'[f] = Idle /\ \A g \in Fiber \ {f} : job'[g] = job[g]
    BY <1>6, IdleJob, Goes DEF UploadRow, BytesRead, Fails
  <2> QED BY <2>1 DEF Onward, Idle
<1>7. ASSUME NEW f \in Fiber, \/ TriggerBackup(f) \/ \E k \in DOMAIN archives : RestoreBackup(f, k)
                            \/ PruneListed(f) \/ Pruned(f)
      PROVE  \A g \in Fiber : Onward(g)
  <2>1. job'[f].file = {} /\ \A g \in Fiber \ {f} : job'[g] = job[g]
    BY <1>7, Triggered, Asked, Prunes
  <2> QED BY <2>1 DEF Onward
<1>8. ASSUME NEW f \in Fiber, BackupStored(f) \/ SnapshotStored(f)
      PROVE  \A g \in Fiber : Onward(g)
  <2>1. /\ \/ job'[f].file = {}
           \/ job'[f].file = job[f].file /\ job'[f].into = job[f].into /\ job'[f].at = "get"
        /\ \A g \in Fiber \ {f} : job'[g] = job[g]
    BY <1>8, Comes DEF Idle
  <2> QED BY <2>1 DEF Onward
<1>9. ASSUME Exit \/ Crash PROVE \A f \in Fiber : Onward(f)
  BY <1>9, Downs DEF Exit, Crash, Onward, Idle
<1>10. ASSUME Boot PROVE \A f \in Fiber : Onward(f)
  <2>1. PICK f \in Fiber : /\ job'[f] = [Idle EXCEPT !.at = "list"]
                           /\ \A g \in Fiber \ {f} : job'[g] = job[g]
    BY <1>10, TypeBoot
  <2> QED BY <2>1 DEF Onward, Idle
<1>11. ASSUME Replace \/ \E w \in Workspace : PurgeFile(w) PROVE \A f \in Fiber : Onward(f)
  BY <1>2, <1>3, <1>11 DEF Replace, PurgeFile
<1>12. ASSUME \/ \E u \in User, w \in Workspace : CreateWorkspace(u, w) \/ StartDemo(u, w)
              \/ \E w \in Workspace : TtlPasses(w) \/ PurgeDemo(w)
              \/ \E u \in User : PurgeOwner(u)
       PROVE  UNCHANGED job
  BY <1>12 DEF CreateWorkspace, StartDemo, NewWorkspace, TtlPasses, PurgeDemo, PurgeOwner
<1> QED BY <1>1, <1>2, <1>4, <1>5, <1>6, <1>7, <1>8, <1>9, <1>10, <1>11, <1>12
        DEF InstanceNext, Sync, Awaited

LEMMA UploadingNext ==
  ASSUME InstanceTypeOK, Keys, Stopped, Uploading, InstanceNext
  PROVE  Uploading'
<1>1. \A f \in Fiber : job[f].file \subseteq Upload /\ job[f].into \subseteq Workspace
  BY DEF InstanceTypeOK, Job
<1>2. CASE Replace
  <2>1. CASE critical.at = "no workspaces"
    <3>1. job' = CutOff(Workspace)
      BY <1>2, <2>1, Advances
    <3>2. \A f \in Fiber : job'[f].into = job[f].into \ Workspace
      BY <3>1, CutOffFields
    <3>3. \A f \in Fiber : job'[f].into = {}
      BY <1>1, <3>2
    <3> QED BY <3>3 DEF Uploading
  <2>2. CASE critical.at \in {"no platform", "platform"}
    <3>1. /\ job' = job /\ data'.attach = data.attach
          /\ critical'.at \in {"platform", "no workspaces"}
      BY <1>2, <2>2, Advances, Replaces, Places
    <3> QED BY <3>1 DEF Uploading
  <2>3. CASE critical.at \in {"workspaces", "no attachments", "attachments"}
    <3>1. job' = job
      BY <1>2, <2>3, Advances
    <3> QED BY <2>3, <3>1 DEF Uploading
  <2> QED BY <1>2, <2>1, <2>2, <2>3, Places DEF Replace
<1>3. CASE ~Replace
  <2>1. critical'.at \notin {"workspaces", "no attachments", "attachments"}
    <3>1. CASE Replacing
      <4>1. Crash
        BY <1>3, <3>1, Uncut
      <4> QED BY <4>1, Places DEF Crash, Down
    <3>2. CASE ~Replacing /\ Replacing'
      BY <3>2, Begins, TypeBytesRead
    <3>3. CASE ~Replacing'
      BY <3>3, Places DEF Replacing
    <3> QED BY <3>1, <3>2, <3>3
  <2>2. data.attach \subseteq data'.attach
    BY <1>3, Records
  <2>3. ASSUME NEW f \in Fiber, UploadFile(f)
        PROVE  data'.attach = data.attach \union job[f].file
    BY <2>3, TypeUploadFile DEF InstanceTypeOK, Data
  <2>4. CASE \A f \in Fiber : Onward(f)
    <3>1. SUFFICES ASSUME NEW f \in Fiber, job'[f].at = "row", job'[f].into # {}
                   PROVE  job'[f].file \subseteq data'.attach
      BY <2>1 DEF Uploading
    <3>2. CASE job'[f].file = {}
      BY <3>2
    <3>3. CASE job'[f].file = job[f].file /\ UploadFile(f)
      BY <2>3, <3>3
    <3>4. CASE /\ job'[f].file = job[f].file /\ job'[f].into \subseteq job[f].into
               /\ job'[f].at = job[f].at
      BY <2>2, <3>1, <3>4 DEF Uploading
    <3> QED BY <2>4, <3>1, <3>2, <3>3, <3>4 DEF Onward
  <2>5. ASSUME NEW f \in Fiber, Arrives(f) PROVE Uploading'
    BY <2>1, <2>5 DEF Arrives, Uploading
  <2> QED BY <2>4, <2>5, Uploads
<1> QED BY <1>2, <1>3

LEMMA CompleteNext ==
  ASSUME InstanceTypeOK, Keys, Stopped, Placed, Uploading, Complete, InstanceNext
  PROVE  Complete'
<1>1. FilesIn(Empty)
  BY EmptyData DEF FilesIn
<1>2. critical'.whole => FilesIn(critical'.from)
  BY <1>1, CopyInPlace DEF Complete
<1>3. \A f \in Fiber : job'[f].whole => FilesIn(job'[f].made)
  <2>1. critical = Free => ~Replacing
    BY Places DEF Replacing
  <2> QED BY <1>1, <2>1, Copies DEF Complete
<1>4. \A k \in DOMAIN archives' : archives'[k].whole => FilesIn(archives'[k].data)
  BY Copies DEF Complete
<1>5. ~torn'.cut /\ ~Replacing' => FilesIn(data')
  <2>1. CASE Replacing /\ Replace
    <3>1. CASE critical.at = "attachments"
      <4>1. torn' = IF critical.whole THEN Whole ELSE Tear
        BY <2>1, <3>1, Advances
      <4>2. CASE critical.whole
        <5>1. data'.dbs = critical.from.dbs /\ data'.attach = critical.from.attach
          BY <2>1, <3>1, Replaces DEF Placed
        <5>2. FilesIn(critical.from)
          BY <4>2 DEF Complete
        <5> QED BY <5>1, <5>2 DEF FilesIn, Recorded
      <4> QED BY <4>1, <4>2 DEF Tear
    <3>2. CASE critical.at # "attachments"
      <4>1. Replacing'
        BY <2>1, <3>2, Advances, Places DEF Replacing
      <4> QED BY <4>1
    <3> QED BY <3>1, <3>2
  <2>2. CASE Replacing /\ ~Replace
    <3>1. Crash
      BY <2>2, Uncut
    <3> QED BY <2>2, <3>1 DEF Crash, Tear, Replacing
  <2>3. CASE ~Replacing
    <3>1. ~Replace
      BY <2>3 DEF Replace, Replacing
    <3>2. torn'.cut = torn.cut
      BY <2>3, <3>1 DEF InstanceNext, CreateWorkspace, StartDemo, NewWorkspace, TtlPasses,
        PurgeDemo, StartUpload, TriggerBackup, RestoreBackup, Awaited, UploadFile, UploadRow,
        BackupStored, PruneListed, Pruned, SnapshotStored, BytesRead, Fails, Sync, PurgeFile,
        PurgeOwner, Exit, Crash, Boot, Build, Aged, Replacing, InstanceTypeOK
    <3>3. ASSUME ~torn.cut PROVE FilesIn(data')
      <4>1. FilesIn(data)
        BY <2>3, <3>3 DEF Complete
      <4>2. ASSUME NEW f \in Fiber, UploadRow(f), job[f].into # {}
            PROVE  job[f].file \subseteq data.attach
        BY <4>2 DEF Uploading, UploadRow, At
      <4> QED BY <3>1, <4>1, <4>2, Records DEF FilesIn
    <3> QED BY <3>2, <3>3
  <2> QED BY <2>1, <2>2, <2>3
<1> QED BY <1>2, <1>3, <1>4, <1>5 DEF Complete

LEMMA FilesInit == ASSUME InstanceInit PROVE Uploading /\ Complete
<1>1. FilesIn(Empty) /\ FilesIn(data)
  BY EmptyData DEF FilesIn, InstanceInit, Empty, Recorded
<1> QED BY <1>1, Places DEF InstanceInit, Uploading, Complete, Free, Idle, Nothing

\* A recorded attachment has its file, in the directory and in every archive,
\* whatever stops, failures and restores came between an upload's two writes
\* and a backup's (upload.ts:57, restore.ts:85, backup.ts:41).
THEOREM RowsAlwaysHaveFiles == InstanceSpec => []RowsHaveFiles
<1>1. InstanceInit => Uploading /\ Complete
  BY FilesInit
<1>2. InstanceTypeOK /\ Keys /\ Stopped /\ Placed /\ Uploading /\ Complete
        /\ [InstanceNext]_instanceVars => (Uploading /\ Complete)'
  <2>1. ASSUME Uploading, Complete, UNCHANGED instanceVars PROVE (Uploading /\ Complete)'
    BY <2>1 DEF Uploading, Complete, Replacing, instanceVars
  <2> QED BY <2>1, UploadingNext, CompleteNext
<1>3. Complete => RowsHaveFiles
  BY DEF Complete, RowsHaveFiles, FilesIn, Replacing
<1> QED BY <1>1, <1>2, <1>3, ReachedPlaced, PTL DEF InstanceSpec

-----------------------------------------------------------------------------
(* Uploads not yet recorded.                                               *)

LEMMA StillUnrecorded ==
  ASSUME InstanceTypeOK, Keys, InstanceNext, NEW X, Unrecorded(X),
         \A f \in Fiber : UploadRow(f) => X \intersect job[f].file = {}
  PROVE  /\ NotIn(X, data') /\ NotIn(X, critical'.from)
         /\ \A k \in DOMAIN archives' : NotIn(X, archives'[k].data)
         /\ \A f \in Fiber : NotIn(X, job'[f].made)
<1>1. NotIn(X, Empty)
  BY EmptyData DEF NotIn
<1>2. NotIn(X, critical'.from)
  BY <1>1, CopyInPlace DEF Unrecorded
<1>3. \A k \in DOMAIN archives' : NotIn(X, archives'[k].data)
  BY Copies DEF Unrecorded
<1>4. \A f \in Fiber : NotIn(X, job'[f].made)
  BY <1>1, Copies DEF Unrecorded
<1>5. NotIn(X, data')
  <2>1. CASE Replace
    <3>1. data'.dbs = Nothing \/ data'.dbs = critical.from.dbs \/ data'.dbs = data.dbs
      BY <2>1, Replaces
    <3>2. Recorded(data') \in {{}, Recorded(critical.from), Recorded(data)}
      BY <3>1, EmptyData DEF Recorded, Empty
    <3> QED BY <3>2 DEF Unrecorded, NotIn
  <2>2. CASE ~Replace
    BY <2>2, Records DEF Unrecorded, NotIn
  <2> QED BY <2>1, <2>2
<1> QED BY <1>2, <1>3, <1>4, <1>5

LEMMA FreshNext == ASSUME InstanceTypeOK, Keys, Fresh, InstanceNext PROVE Fresh'
<1>1. unused' \subseteq unused /\ Unrecorded(unused')
  BY Uploads DEF Fresh, Unrecorded, NotIn
<1>2. \A f \in Fiber : UploadRow(f) => unused' \intersect job[f].file = {}
  BY <1>1 DEF Fresh
<1>3. Unrecorded(unused)'
  BY <1>1, <1>2, StillUnrecorded DEF Unrecorded
<1>4. ASSUME NEW f \in Fiber, UploadRow(f)
      PROVE  job'[f].file = {}
  BY <1>4, TypeUploadRow DEF Idle
<1>5. ASSUME NEW f \in Fiber, job'[f].file = job[f].file
      PROVE  /\ Unrecorded(job[f].file)' /\ job'[f].file \intersect unused' = {}
  <2>1. Unrecorded(job'[f].file) /\ job'[f].file \intersect unused = {}
    BY <1>5 DEF Fresh
  <2>2. \A g \in Fiber : UploadRow(g) => job'[f].file \intersect job[g].file = {}
    BY <1>4, <1>5 DEF Fresh
  <2>3. Unrecorded(job[f].file)'
    BY <2>1, <2>2, StillUnrecorded DEF Unrecorded
  <2> QED BY <1>1, <2>1, <2>3
<1>6. ASSUME NEW f \in Fiber, job'[f].file = {}
      PROVE  /\ Unrecorded(job[f].file)' /\ job'[f].file \intersect unused' = {}
  BY <1>6 DEF Unrecorded, NotIn
<1>7. CASE \A f \in Fiber : Onward(f)
  <2>1. \A f \in Fiber : job'[f].file = {} \/ job'[f].file = job[f].file
    BY <1>7 DEF Onward
  <2>2. \A f, g \in Fiber : f # g => job'[f].file \intersect job'[g].file = {}
    BY <2>1 DEF Fresh
  <2> QED BY <1>3, <1>5, <1>6, <2>1, <2>2 DEF Fresh
<1>8. ASSUME NEW f \in Fiber, Arrives(f) PROVE Fresh'
  <2>1. PICK a \in unused : /\ job'[f].file = {a} /\ unused' = unused \ {a}
                            /\ \A g \in Fiber \ {f} : job'[g] = job[g]
    BY <1>8 DEF Arrives
  <2>2. Unrecorded(job'[f].file)
    BY <2>1 DEF Fresh, Unrecorded, NotIn
  <2>3. \A g \in Fiber : UploadRow(g) => job'[f].file \intersect job[g].file = {}
    BY <2>1 DEF Fresh
  <2>4. Unrecorded(job[f].file)'
    BY <2>2, <2>3, StillUnrecorded DEF Unrecorded
  <2>5. \A g, h \in Fiber : g # h => job'[g].file \intersect job'[h].file = {}
    BY <2>1 DEF Fresh
  <2>6. \A g \in Fiber \ {f} : Unrecorded(job[g].file)' /\ job'[g].file \intersect unused' = {}
    BY <1>5, <2>1
  <2>7. job'[f].file \intersect unused' = {}
    BY <2>1
  <2> QED BY <1>3, <2>4, <2>5, <2>6, <2>7 DEF Fresh
<1> QED BY <1>7, <1>8, Uploads

LEMMA FreshInit == ASSUME InstanceInit PROVE Fresh
<1>1. Recorded(data) = {} /\ Recorded(Empty) = {}
  BY EmptyData DEF InstanceInit, Empty, Recorded
<1> QED BY <1>1 DEF InstanceInit, Fresh, Unrecorded, NotIn, Free, Idle, Nothing

-----------------------------------------------------------------------------
(* What archives hold.                                                     *)

LEMMA Kinds ==
  ASSUME InstanceNext
  PROVE  \/ StoreIdle
         \/ \E f \in Fiber : \/ TriggerBackup(f) \/ \E k \in DOMAIN archives : RestoreBackup(f, k)
                             \/ BackupStored(f) \/ SnapshotStored(f)
                             \/ PruneListed(f) \/ Pruned(f)
BY DEF InstanceNext, StoreIdle, Awaited

\* What every archive from a key on holds, and the directory, those to come do.
LEMMA OutlastsNext ==
  ASSUME InstanceTypeOK, Keys, InstanceNext, NEW B, NEW s \in Nat,
         Outlasts(B, s), B \subseteq Recorded(data)
  PROVE  Outlasts(B, s)'
<1> USE DEF Pending
<1>1. CASE StoreIdle
  BY <1>1, StoreIdles DEF Outlasts, Quiet, Same, Holds
<1>2. ASSUME NEW f \in Fiber, TriggerBackup(f) \/ \E k \in DOMAIN archives : RestoreBackup(f, k)
      PROVE  Outlasts(B, s)'
  <2>1. /\ job'[f].made = data /\ UNCHANGED archives
        /\ \A g \in Fiber \ {f} : job'[g] = job[g]
    BY <1>2, Triggered, Asked
  <2> QED BY <2>1 DEF Outlasts
<1>3. ASSUME NEW f \in Fiber, BackupStored(f) \/ SnapshotStored(f) PROVE Outlasts(B, s)'
  <2>1. /\ job[f].at \in {"put", "snapshot"} /\ job'[f].at \in {"list", "get"}
        /\ \A g \in Fiber \ {f} : job'[g] = job[g]
    BY <1>3, Comes DEF Idle
  <2>2. /\ DOMAIN archives' = DOMAIN archives \union {job[f].key}
        /\ archives'[job[f].key].data = job[f].made
        /\ \A k \in DOMAIN archives \ {job[f].key} : archives'[k] = archives[k]
    BY <1>3, Comes
  <2> QED BY <2>1, <2>2 DEF Outlasts
<1>4. ASSUME NEW f \in Fiber, PruneListed(f) \/ Pruned(f) PROVE Outlasts(B, s)'
  <2>1. /\ DOMAIN archives' \subseteq DOMAIN archives
        /\ \A k \in DOMAIN archives' : archives'[k] = archives[k]
        /\ job'[f].at \in {"idle", "delete"}
        /\ \A g \in Fiber \ {f} : job'[g] = job[g]
    BY <1>4, Prunes
  <2> QED BY <2>1 DEF Outlasts
<1> QED BY <1>1, <1>2, <1>3, <1>4, Kinds

\* Retention does not list what fewer newer archives than it keeps can follow.
LEMMA NotExpired ==
  ASSUME InstanceTypeOK, NEW m \in DOMAIN archives, NEW t \in Int, t <= taken,
         \A k \in DOMAIN archives : k > m => k > t,
         KeepLast = 0 \/ taken - t < KeepLast
  PROVE  m \notin SelectExpired
<1>1. DOMAIN archives \subseteq 1..taken /\ taken \in Nat
  BY ArchiveOf DEF InstanceTypeOK
<1>2. Newer(m) \in SUBSET ((t + 1)..taken)
  BY <1>1 DEF Newer
<1>3. IsFiniteSet((t + 1)..taken) /\ Cardinality((t + 1)..taken) = taken - t
  <2>1. /\ IsFiniteSet((t + 1)..taken)
        /\ Cardinality((t + 1)..taken) = IF t + 1 > taken THEN 0 ELSE taken - (t + 1) + 1
    <3>1. t + 1 \in Int /\ taken \in Int
      BY <1>1
    <3> QED BY <3>1, FS_Interval
  <2> QED BY <1>1, <2>1
<1>4. IsFiniteSet(Newer(m)) /\ Cardinality(Newer(m)) <= taken - t
  BY <1>2, <1>3, FS_Subset
<1>5. Cardinality(Newer(m)) \in Nat
  BY <1>4, FS_CardinalityType
<1> QED BY <1>1, <1>4, <1>5, KeepLastAssumption DEF SelectExpired

\* An archive that holds B stays, as long as retention keeps more than came since.
LEMMA CoveredNext ==
  ASSUME InstanceTypeOK, Keys, InstanceNext, NEW B, NEW t \in Int, t <= taken,
         Covered(B, t), KeepLast = 0 \/ taken - t < KeepLast
  PROVE  Covered(B, t)'
<1>1. PICK m \in DOMAIN archives : CoveredBy(m, B, t)
  BY DEF Covered
<1>2. DOMAIN archives \subseteq 1..taken /\ taken \in Nat
  BY ArchiveOf DEF InstanceTypeOK
<1> USE DEF Pending
<1>3. CASE StoreIdle
  <2>1. CoveredBy(m, B, t)' /\ m \in DOMAIN archives'
    BY <1>1, <1>3, StoreIdles DEF CoveredBy, Quiet, Same, Holds, Empties
  <2> QED BY <2>1 DEF Covered
<1>4. ASSUME NEW f \in Fiber, TriggerBackup(f) \/ \E k \in DOMAIN archives : RestoreBackup(f, k)
      PROVE  Covered(B, t)'
  <2>1. /\ job'[f].key = taken + 1 /\ job'[f].keys = {} /\ UNCHANGED archives
        /\ \A g \in Fiber \ {f} : job'[g] = job[g]
    BY <1>4, Triggered, Asked
  <2>2. CoveredBy(m, B, t)' /\ m \in DOMAIN archives'
    BY <1>1, <1>2, <2>1 DEF CoveredBy
  <2> QED BY <2>2 DEF Covered
<1>5. ASSUME NEW f \in Fiber, BackupStored(f) \/ SnapshotStored(f) PROVE Covered(B, t)'
  <2>0. job[f].key \in 1..taken
    BY <1>5, Comes
  <2> PICK n \in 1..taken : n = job[f].key
    BY <2>0
  <2>1. /\ job[f].at \in {"put", "snapshot"} /\ job'[f].at \in {"list", "get"}
        /\ job'[f].keys \subseteq job[f].keys
        /\ \A g \in Fiber \ {f} : job'[g] = job[g]
    BY <1>5, Comes DEF Idle
  <2>2. /\ DOMAIN archives' = DOMAIN archives \union {n}
        /\ archives'[n].data = job[f].made
        /\ \A k \in DOMAIN archives \ {n} : archives'[k] = archives[k]
    BY <1>5, Comes
  <2>3. /\ n \notin DOMAIN archives
        /\ \A g \in Fiber : n \notin job[g].keys
    BY <2>1 DEF Keys, GivenOnce
  <2>4. CASE n > t \/ n < m
    <3>1. CoveredBy(m, B, t)' /\ m \in DOMAIN archives'
      BY <1>1, <1>2, <2>1, <2>2, <2>3, <2>4 DEF CoveredBy
    <3> QED BY <3>1 DEF Covered
  <2>5. CASE ~(n > t \/ n < m)
    <3>1. n > m /\ B \subseteq Recorded(job[f].made)
      BY <1>1, <1>2, <2>1, <2>3, <2>5 DEF CoveredBy
    <3>2. B \subseteq Recorded(archives'[n].data)
      BY <2>2, <3>1
    <3>3. \A k \in DOMAIN archives' : k > n => k > t
      BY <1>1, <1>2, <2>2, <2>3, <3>1 DEF CoveredBy
    <3>4. \A g \in Fiber : job'[g].at \in {"put", "snapshot"} =>
            job'[g].key > t \/ job'[g].key < n \/ B \subseteq Recorded(job'[g].made)
      <4>1. SUFFICES ASSUME NEW g \in Fiber \ {f}, job[g].at \in {"put", "snapshot"}
                     PROVE  job[g].key > t \/ job[g].key < n \/ B \subseteq Recorded(job[g].made)
        BY <2>1
      <4>2. job[g].key \in 1..taken
        BY <4>1 DEF Keys, GivenOnce
      <4> QED BY <1>1, <1>2, <2>3, <3>1, <4>1, <4>2 DEF CoveredBy
    <3>5. \A g \in Fiber : n \notin job'[g].keys
      BY <2>1, <2>3
    <3>6. CoveredBy(n, B, t)' /\ n \in DOMAIN archives'
      BY <2>2, <3>2, <3>3, <3>4, <3>5 DEF CoveredBy
    <3> QED BY <3>6 DEF Covered
  <2> QED BY <2>4, <2>5
<1>6. ASSUME NEW f \in Fiber, PruneListed(f) \/ Pruned(f) PROVE Covered(B, t)'
  <2>1. /\ DOMAIN archives' \subseteq DOMAIN archives
        /\ \A k \in DOMAIN archives' : archives'[k] = archives[k]
        /\ job'[f].at \in {"idle", "delete"}
        /\ \A g \in Fiber \ {f} : job'[g] = job[g]
    BY <1>6, Prunes
  <2>2. m \in DOMAIN archives' /\ m \notin job'[f].keys
    <3>1. CASE PruneListed(f)
      <4>1. job'[f].keys = SelectExpired /\ UNCHANGED archives
        BY <3>1, TypePruneListed DEF PruneListed, Idle
      <4>2. m \notin SelectExpired
        BY <1>1, NotExpired DEF CoveredBy
      <4> QED BY <4>1, <4>2
    <3>2. CASE Pruned(f)
      <4>1. job'[f].keys = {} /\ DOMAIN archives' = DOMAIN archives \ job[f].keys
        <5>1. job'[f] = Idle /\ DOMAIN archives' = DOMAIN archives \ job[f].keys
          BY <3>2, TypePruned
        <5> QED BY <5>1 DEF Idle
      <4> QED BY <1>1, <4>1 DEF CoveredBy
    <3> QED BY <1>6, <3>1, <3>2
  <2>3. CoveredBy(m, B, t)'
    BY <1>1, <2>1, <2>2 DEF CoveredBy
  <2> QED BY <2>2, <2>3 DEF Covered
<1> QED BY <1>3, <1>4, <1>5, <1>6, Kinds

LEMMA TornAges ==
  ASSUME InstanceTypeOK, InstanceNext, ~Replacing
  PROVE  /\ torn'.cut = torn.cut /\ torn'.before = torn.before
         /\ \/ torn'.since = torn.since /\ taken' = taken
            \/ /\ taken' = taken + 1
               /\ torn'.since = IF torn.cut THEN torn.since + 1 ELSE 0
<1>1. torn \in [cut : BOOLEAN, before : SUBSET Upload, since : Nat]
  BY DEF InstanceTypeOK
<1>2. CASE Build
  BY <1>1, <1>2 DEF Build, Aged
<1>3. CASE UNCHANGED <<torn, taken>>
  BY <1>3
<1>4. ~Replace
  BY DEF Replace, Replacing
<1> QED BY <1>2, <1>3, <1>4 DEF InstanceNext, CreateWorkspace, StartDemo, NewWorkspace, TtlPasses,
  PurgeDemo, StartUpload, TriggerBackup, RestoreBackup, Awaited, UploadFile, UploadRow,
  BackupStored, PruneListed, Pruned, SnapshotStored, BytesRead, Fails, Sync, PurgeFile,
  PurgeOwner, Exit, Crash, Boot, Replacing

LEMMA RestoresGoOn ==
  ASSUME InstanceTypeOK, Keys, InstanceNext, NEW f \in Fiber, Restoring(f)'
  PROVE  \/ /\ Restoring(f) /\ job'[f].key = job[f].key /\ job'[f].before = job[f].before
         \/ /\ job'[f].key = taken + 1 /\ job'[f].made = data
            /\ job'[f].before = Recorded(data) /\ UNCHANGED <<data, archives>>
            /\ \A g \in Fiber \ {f} : job'[g] = job[g]
<1> USE DEF Restoring
<1>1. CASE StoreIdle
  BY <1>1, StoreIdles DEF Quiet, Same, Holds
<1>2. ASSUME NEW g \in Fiber, g # f, job'[f] = job[f]
      PROVE  Restoring(f) /\ job'[f].key = job[f].key /\ job'[f].before = job[f].before
  BY <1>2
<1>3. ASSUME NEW g \in Fiber, TriggerBackup(g)
      PROVE  g # f /\ job'[f] = job[f]
  BY <1>3, Triggered
<1>4. ASSUME NEW g \in Fiber, PruneListed(g) \/ Pruned(g)
      PROVE  g # f /\ job'[f] = job[f]
  BY <1>4, Prunes
<1>5. ASSUME NEW g \in Fiber, BackupStored(g) \/ SnapshotStored(g)
      PROVE  Restoring(f) /\ job'[f].key = job[f].key /\ job'[f].before = job[f].before
  BY <1>5, Comes DEF Idle
<1>6. ASSUME NEW g \in Fiber, NEW k \in DOMAIN archives, RestoreBackup(g, k)
      PROVE  \/ g # f /\ job'[f] = job[f]
             \/ /\ job'[f].key = taken + 1 /\ job'[f].made = data
                /\ job'[f].before = Recorded(data) /\ UNCHANGED <<data, archives>>
                /\ \A h \in Fiber \ {f} : job'[h] = job[h]
  BY <1>6, Asked
<1> QED BY <1>1, <1>2, <1>3, <1>4, <1>5, <1>6, Kinds

LEMMA SnapshotsHoldNext ==
  ASSUME InstanceTypeOK, Keys, Stopped, Fresh, SnapshotsHold, InstanceNext
  PROVE  SnapshotsHold'
<1>1. SUFFICES ASSUME server' = "up", ~Replacing', NEW f \in Fiber, Restoring(f)'
               PROVE  Outlasts(job[f].before \intersect Recorded(data), job[f].key)'
  BY DEF SnapshotsHold
<1>2. server = "up"
  <2>1. ASSUME Boot PROVE FALSE
    <3>1. PICK g \in Fiber : /\ job'[g] = [Idle EXCEPT !.at = "list"]
                             /\ \A h \in Fiber \ {g} : job'[h] = job[h]
      BY <2>1, TypeBoot
    <3>2. \A h \in Fiber : job[h] = Idle
      BY <2>1 DEF Boot, Stopped
    <3>3. \A h \in Fiber : job'[h].at \in {"idle", "list"}
      BY <3>1, <3>2 DEF Idle
    <3> QED BY <1>1, <3>3 DEF Restoring
  <2> QED BY <1>1, <2>1 DEF InstanceNext, CreateWorkspace, StartDemo, NewWorkspace, TtlPasses,
    PurgeDemo, StartUpload, TriggerBackup, RestoreBackup, Awaited, UploadFile, UploadRow,
    BackupStored, PruneListed, Pruned, SnapshotStored, BytesRead, Fails, Sync, PurgeFile,
    PurgeOwner, Exit, Crash, Down, Replace
<1>3. ~Replacing
  <2>1. ASSUME Replacing, Replace PROVE FALSE
    BY <1>1, <2>1, Advances, Places DEF Replacing
  <2>2. ASSUME Crash PROVE FALSE
    BY <1>1, <2>2 DEF Crash, Down
  <2> QED BY <2>1, <2>2, Uncut
<1>4. ~Replace
  BY <1>3 DEF Replace, Replacing
<1>5. DOMAIN archives \subseteq 1..taken /\ taken \in Nat
  BY ArchiveOf DEF InstanceTypeOK
<1>6. CASE Restoring(f) /\ job'[f].key = job[f].key /\ job'[f].before = job[f].before
  <2>1. job[f].key \in Nat
    BY DEF InstanceTypeOK, Job
  <2> PICK s \in Nat : s = job[f].key
    BY <2>1
  <2> PICK B : B = job[f].before \intersect Recorded(data)
    OBVIOUS
  <2>2. s = job[f].key /\ B = job[f].before \intersect Recorded(data)
    OBVIOUS
  <2>3. Outlasts(B, s)'
    BY <1>2, <1>3, <1>6, <2>2, OutlastsNext DEF SnapshotsHold
  <2>4. job'[f].before \intersect Recorded(data') \subseteq B
    <3>1. job[f].before \subseteq Recorded(job[f].made)
      BY DEF Keys, SnapshotsHeld
    <3>2. \A g \in Fiber : job[g].file \intersect Recorded(job[f].made) = {}
      BY DEF Fresh, Unrecorded, NotIn
    <3> QED BY <1>4, <1>6, <2>2, <3>1, <3>2, Records
  <2> QED BY <1>6, <2>2, <2>3, <2>4 DEF Outlasts
<1>7. CASE /\ job'[f].key = taken + 1 /\ job'[f].made = data
           /\ job'[f].before = Recorded(data) /\ UNCHANGED <<data, archives>>
           /\ \A g \in Fiber \ {f} : job'[g] = job[g]
  <2>1. \A g \in Fiber : Pending(g) => job[g].key \in 1..taken
    BY DEF Keys, GivenOnce
  <2>2. \A g \in Fiber : Pending(g)' /\ job'[g].key >= taken + 1 => job'[g].made = data
    BY <1>5, <1>7, <2>1 DEF Pending
  <2>3. \A k \in DOMAIN archives : ~(k >= taken + 1)
    BY <1>5
  <2> QED BY <1>7, <2>2, <2>3 DEF Outlasts
<1> QED BY <1>1, <1>6, <1>7, RestoresGoOn

\* As a restore starts to replace files, the newest archive holds what was there.
LEMMA NewestHolds ==
  ASSUME InstanceTypeOK, Keys, SnapshotsHold, ~Replacing, NEW f \in Fiber, BytesRead(f)
  PROVE  OldHeld'
<1>1. /\ job[f].at = "get" /\ job[f].target \in DOMAIN archives
      /\ UNCHANGED <<archives, taken, server>>
      /\ critical'.by = job[f].before \intersect Recorded(data)
      /\ job'[f] = Idle /\ \A g \in Fiber \ {f} : job'[g] = job[g]
  BY TypeBytesRead DEF BytesRead, At, Go, InstanceTypeOK
<1>2. job[f].key \in DOMAIN archives
  BY <1>1 DEF Keys, SnapshotsHeld
<1>3. PICK m \in DOMAIN archives : m >= job[f].key /\ \A n \in DOMAIN archives : n <= m
  BY <1>2, Newest
<1>4. DOMAIN archives \subseteq 1..taken /\ taken \in Nat
  BY ArchiveOf DEF InstanceTypeOK
<1>5. PICK B : B = IF server = "up" THEN critical'.by ELSE {}
  OBVIOUS
<1>6. PICK t \in Nat : t = taken
  BY <1>4
<1>7. Outlasts(B, job[f].key)
  <2>1. CASE server = "up"
    BY <1>1, <1>5, <2>1 DEF SnapshotsHold, Restoring
  <2>2. CASE server # "up"
    BY <1>5, <2>2 DEF Outlasts
  <2> QED BY <2>1, <2>2
<1>8. B \subseteq Recorded(archives[m].data)
  BY <1>3, <1>7 DEF Outlasts
<1>9. \A k \in DOMAIN archives : ~(k > m)
  BY <1>3, <1>4
<1>10. \A g \in Fiber : Pending(g) =>
         job[g].key > t \/ job[g].key < m \/ B \subseteq Recorded(job[g].made)
  <2>1. SUFFICES ASSUME NEW g \in Fiber, Pending(g), ~(job[g].key < m)
                 PROVE  B \subseteq Recorded(job[g].made)
    OBVIOUS
  <2>2. job[g].key \in 1..taken
    BY <2>1 DEF Keys, GivenOnce
  <2>3. job[g].key >= job[f].key
    BY <1>2, <1>3, <1>4, <2>1, <2>2
  <2> QED BY <1>7, <2>1, <2>3 DEF Outlasts
<1>11. \A g \in Fiber : m \notin job[g].keys
  BY <1>9 DEF Keys, NewestKept
<1>12. CoveredBy(m, B, t)'
  <2>1. \A g \in Fiber : m \notin job'[g].keys
    BY <1>1, <1>11 DEF Idle
  <2>2. \A g \in Fiber : Pending(g)' =>
          job'[g].key > t \/ job'[g].key < m \/ B \subseteq Recorded(job'[g].made)
    BY <1>1, <1>10 DEF Idle, Pending
  <2> QED BY <1>1, <1>8, <1>9, <2>1, <2>2 DEF CoveredBy
<1>13. Covered(B, t)'
  BY <1>1, <1>12 DEF Covered
<1> QED BY <1>1, <1>5, <1>6, <1>13 DEF OldHeld

\* ... and the store stays as it is while the files are replaced.
LEMMA CoveredIdle ==
  ASSUME NEW B, NEW t, Covered(B, t), UNCHANGED archives,
         \A f \in Fiber : Quiet(f) \/ Same(f)
  PROVE  Covered(B, t)'
<1>1. PICK m \in DOMAIN archives : CoveredBy(m, B, t)
  BY DEF Covered
<1>2. CoveredBy(m, B, t)' /\ m \in DOMAIN archives'
  BY <1>1 DEF CoveredBy, Pending, Quiet, Same, Holds, Empties
<1> QED BY <1>2 DEF Covered

LEMMA OldHeldNext ==
  ASSUME InstanceTypeOK, Keys, Stopped, SnapshotsHold, OldHeld, InstanceNext
  PROVE  OldHeld'
<1>1. CASE ~Replacing'
  BY <1>1 DEF OldHeld
<1>2. CASE Replacing' /\ ~Replacing
  BY <1>2, Begins, NewestHolds
<1>3. CASE Replacing' /\ Replacing
  <2>1. Replace
    BY <1>3, Uncut, Places DEF Replacing, Crash, Down
  <2>2. UNCHANGED <<archives, taken, server>> /\ critical'.by = critical.by
    BY <1>3, <2>1, Advances, Places DEF Replacing
  <2>3. PICK B, t : B = (IF server = "up" THEN critical.by ELSE {}) /\ t = taken
    OBVIOUS
  <2>4. \A f \in Fiber : Quiet(f) \/ Same(f)
    BY <2>1, StoreIdles DEF StoreIdle, Sync
  <2>5. Covered(B, t)'
    BY <1>3, <2>2, <2>3, <2>4, CoveredIdle DEF OldHeld
  <2> QED BY <2>2, <2>3, <2>5 DEF OldHeld
<1> QED BY <1>1, <1>2, <1>3

LEMMA TornHeldNext ==
  ASSUME InstanceTypeOK, Keys, Stopped, Kept, InstanceNext
  PROVE  TornHeld' /\ (~torn'.cut => torn'.since = 0)
<1>1. torn \in [cut : BOOLEAN, before : SUBSET Upload, since : Nat] /\ taken \in Nat
  BY DEF InstanceTypeOK
<1>2. CASE ~Replacing
  <2>1. /\ torn'.cut = torn.cut /\ torn'.before = torn.before
        /\ \/ torn'.since = torn.since /\ taken' = taken
           \/ taken' = taken + 1 /\ torn'.since = IF torn.cut THEN torn.since + 1 ELSE 0
    BY <1>2, TornAges
  <2>2. ~torn'.cut => torn'.since = 0
    BY <2>1 DEF Kept
  <2>3. ASSUME torn.cut, KeepLast = 0 \/ torn'.since < KeepLast
        PROVE  Covered(torn.before, taken - torn.since)'
    <3> PICK B : B = torn.before
      OBVIOUS
    <3> PICK t \in Int : t = taken - torn.since
      BY <1>1
    <3>1. B = torn.before /\ t = taken - torn.since
      OBVIOUS
    <3>2. KeepLast = 0 \/ torn.since < KeepLast
      BY <1>1, <2>1, <2>3, KeepLastAssumption
    <3>3. Covered(B, t)
      BY <2>3, <3>1, <3>2 DEF Kept, TornHeld
    <3>4. t <= taken /\ (KeepLast = 0 \/ taken - t < KeepLast)
      BY <1>1, <3>1, <3>2, KeepLastAssumption
    <3>5. Covered(B, t)'
      BY <3>3, <3>4, CoveredNext
    <3>6. torn'.before = B /\ taken' - torn'.since = t
      BY <1>1, <2>1, <2>3, <3>1
    <3> QED BY <3>5, <3>6
  <2> QED BY <2>1, <2>2, <2>3 DEF TornHeld
<1>3. CASE Replacing /\ (torn' = Tear \/ UNCHANGED torn)
  <2>1. UNCHANGED <<archives, taken>> /\ \A f \in Fiber : Quiet(f) \/ Same(f)
    BY <1>3, Uncut, StoreIdles DEF StoreIdle, Sync
  <2>2. torn'.since = torn.since
    BY <1>3 DEF Tear
  <2>3. ~torn'.cut => torn'.since = 0
    BY <1>3, <2>2 DEF Kept, Tear
  <2>4. ASSUME torn'.cut, KeepLast = 0 \/ torn'.since < KeepLast
        PROVE  Covered(torn.before, taken - torn.since)'
    <3> PICK B : B = torn'.before
      OBVIOUS
    <3> PICK t \in Int : t = taken - torn.since
      BY <1>1
    <3>1. B = torn'.before /\ t = taken - torn.since
      OBVIOUS
    <3>2. Covered(B, t)
      <4>1. CASE torn.cut
        <5>1. torn'.before = torn.before
          BY <1>3, <4>1 DEF Tear
        <5> QED BY <2>2, <2>4, <3>1, <4>1, <5>1 DEF Kept, TornHeld
      <4>2. CASE ~torn.cut
        <5>1. torn'.before = (IF server = "up" THEN critical.by ELSE {})
          BY <1>3, <2>4, <4>2 DEF Tear
        <5>2. t = taken
          BY <1>1, <3>1, <4>2 DEF Kept
        <5> QED BY <1>3, <3>1, <5>1, <5>2 DEF Kept, OldHeld
      <4> QED BY <4>1, <4>2
    <3>3. Covered(B, t)'
      BY <2>1, <3>2, CoveredIdle
    <3>4. taken' - torn'.since = t
      BY <2>1, <2>2, <3>1
    <3> QED BY <3>1, <3>3, <3>4
  <2> QED BY <2>3, <2>4 DEF TornHeld
<1>4. CASE Replacing /\ torn' = Whole
  BY <1>4 DEF TornHeld, Whole
<1>5. Replacing => torn' = Tear \/ torn' = Whole \/ UNCHANGED torn
  BY Uncut, Advances DEF Crash, Replacing
<1> QED BY <1>2, <1>3, <1>4, <1>5

LEMMA KeptInit == ASSUME InstanceInit PROVE Kept
BY Places DEF InstanceInit, Kept, SnapshotsHold, OldHeld, TornHeld, Restoring, Replacing, Idle, Free,
   Whole

\* When a stop cuts a restore off, what it was to overwrite can be had back from
\* the store, through the boot's retention pass, until as many archives have been
\* taken of the torn directory as retention keeps (restore.ts:57, backup.ts:112).
THEOREM TornAlwaysRecoverable == InstanceSpec => []TornIsRecoverable
<1>1. InstanceInit => Fresh /\ Kept
  BY FreshInit, KeptInit
<1>2. InstanceTypeOK /\ Keys /\ Stopped /\ Fresh /\ Kept /\ [InstanceNext]_instanceVars
        => (Fresh /\ Kept)'
  <2>1. ASSUME Fresh, UNCHANGED instanceVars PROVE Fresh'
    BY <2>1 DEF Fresh, Unrecorded, instanceVars
  <2>2. ASSUME Kept, UNCHANGED instanceVars PROVE Kept'
    BY <2>2 DEF Kept, SnapshotsHold, OldHeld, TornHeld, Outlasts, Covered, CoveredBy, Pending,
       Restoring, Replacing, instanceVars
  <2>3. ASSUME InstanceTypeOK, Keys, Stopped, Fresh, Kept, InstanceNext PROVE (Fresh /\ Kept)'
    BY <2>3, FreshNext, SnapshotsHoldNext, OldHeldNext, TornHeldNext DEF Kept
  <2> QED BY <2>1, <2>2, <2>3
<1>3. Kept => TornIsRecoverable
  BY DEF Kept, TornHeld, TornIsRecoverable, Covered, CoveredBy
<1> QED BY <1>1, <1>2, <1>3, ReachedPlaced, PTL DEF InstanceSpec
=============================================================================
