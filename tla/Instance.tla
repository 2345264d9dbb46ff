------------------------------ MODULE Instance ------------------------------
(***************************************************************************)
(* One installation of the server: the files it keeps, the demos it        *)
(* reclaims, the archives it takes of itself and the restore that puts one *)
(* in the files' place (packages/server/src/handlers/backup.ts,            *)
(* restore.ts, upload.ts, demo.ts, backup/store.ts, backup-scheduler.ts).  *)
(*                                                                         *)
(* The server is one thread.  A job gives way where it awaits the archive  *)
(* store or a disk; between two awaits nothing interleaves, but the        *)
(* process may stop between any two statements.                            *)
(***************************************************************************)
EXTENDS Naturals, FiniteSets, FiniteSetsExt, Functions

CONSTANTS
  Workspace, User,
  Anonymous,   \* users of the hosted demo
  Upload,      \* attachments that may be uploaded
  Fiber,       \* jobs at one time
  KeepLast,    \* archives retention keeps; 0 keeps all
  MaxEvents    \* bound: what users, the clock, admins and failures do, together

ASSUME AnonymousAssumption == Anonymous \subseteq User
ASSUME KeepLastAssumption == KeepLast \in Nat

VARIABLES
  data,      \* the data directory
  archives,  \* the archive store: by key, which is the order of taking
  taken,     \* keys given out so far
  server,    \* "up", "closing" (platform.db closed, about to exit), "down"
  critical,  \* the statement sequence under way, which only a stop can cut
  job,       \* what each fiber awaits
  torn,      \* history: the directory is a mixture of two times; what the restore
             \* that made it so was to overwrite, archives taken since
  unused,    \* ids of workspaces and uploads still to be drawn
  events     \* how much has happened from outside

instanceVars == <<data, archives, taken, server, critical, job, torn, unused, events>>

Nothing == [x \in {} |-> 0]
With(f, x, y) == [z \in DOMAIN f \union {x} |-> IF z = x THEN y ELSE f[z]]
Less(f, X) == Restrict(f, DOMAIN f \ X)

-----------------------------------------------------------------------------
\* platform.db (users, workspaces), workspaces/*.db (the uploads each
\* workspace records), attachments/.
Empty == [users |-> {}, rows |-> Nothing, dbs |-> Nothing, attach |-> {}]
Row == [owner : User, demo : BOOLEAN, old : BOOLEAN]
Recorded(d) == UNION Range(d.dbs)

Idle == [at |-> "idle", key |-> 0, made |-> Empty, whole |-> TRUE, target |-> 0,
         before |-> {}, keys |-> {}, into |-> {}, file |-> {}]
Free == [at |-> "free", from |-> Empty, whole |-> TRUE, by |-> {}]
Whole == [cut |-> FALSE, before |-> {}, since |-> 0]

Event == events < MaxEvents /\ events' = events + 1
Running == server = "up" /\ critical = Free
At(f, place) == server # "down" /\ critical = Free /\ job[f].at = place
Go(f, j) == job' = [job EXCEPT ![f] = j]

-----------------------------------------------------------------------------
(* Workspaces and demos.                                                   *)

\* The session is checked, the rows are written and the file is made.
NewWorkspace(u, w, demo) ==
  /\ Event
  /\ Running /\ w \in unused /\ unused' = unused \ {w}
  /\ data' = [data EXCEPT !.users = @ \union {u},
                          !.rows = With(@, w, [owner |-> u, demo |-> demo, old |-> FALSE]),
                          !.dbs = With(@, w, {})]
  /\ UNCHANGED <<archives, taken, server, critical, job, torn>>

CreateWorkspace(u, w) ==
  u \in data.users \union (User \ Anonymous) /\ NewWorkspace(u, w, FALSE)

\* One demo a user: a second call returns the first.
OwnsDemo(u) == \E w \in DOMAIN data.rows : data.rows[w].owner = u /\ data.rows[w].demo
StartDemo(u, w) == u \in Anonymous /\ ~OwnsDemo(u) /\ NewWorkspace(u, w, TRUE)

TtlPasses(w) ==
  /\ Event
  /\ server # "down" /\ critical = Free
  /\ w \in DOMAIN data.rows /\ data.rows[w].demo /\ ~data.rows[w].old
  /\ data' = [data EXCEPT !.rows[w].old = TRUE]
  /\ UNCHANGED <<archives, taken, server, critical, job, torn, unused>>

\* A connection to a file that has gone writes to nowhere.
CutOff(W) == [f \in Fiber |-> [job[f] EXCEPT !.into = @ \ W]]

\* Mutant: an owner of something else keeps the demo.
PurgeDemoAlone(w) ==
  /\ Running
  /\ w \in DOMAIN data.rows /\ data.rows[w].demo /\ data.rows[w].old
  /\ \A v \in DOMAIN data.rows : data.rows[v].owner = data.rows[w].owner => v = w
  /\ data' = [data EXCEPT !.rows = Less(@, {w})]
  /\ critical' = [Free EXCEPT !.at = "file", !.by = {w, data.rows[w].owner}]
  /\ UNCHANGED <<archives, taken, server, job, torn, unused, events>>

\* purgeExpiredDemos, one workspace: the rows, the file, then the owner.
PurgeDemo(w) ==
  /\ Running
  /\ w \in DOMAIN data.rows /\ data.rows[w].demo /\ data.rows[w].old
  /\ data' = [data EXCEPT !.rows = Less(@, {w})]
  /\ critical' = [Free EXCEPT !.at = "file", !.by = {w, data.rows[w].owner}]
  /\ UNCHANGED <<archives, taken, server, job, torn, unused, events>>

PurgeFile(w) ==
  /\ critical.at = "file" /\ w \in critical.by
  /\ data' = [data EXCEPT !.dbs = Less(@, {w})]
  /\ critical' = [critical EXCEPT !.at = "owner"]
  /\ job' = CutOff({w})
  /\ UNCHANGED <<archives, taken, server, torn, unused, events>>

\* Mutant: only the demos count.
OwnsNoDemo(u) == ~OwnsDemo(u)
\* The anonymous owner goes too, once nothing is theirs.
OwnsNothing(u) == \A w \in DOMAIN data.rows : data.rows[w].owner # u
PurgeOwner(u) ==
  /\ critical.at = "owner" /\ u \in critical.by
  /\ data' = IF u \in Anonymous /\ OwnsNothing(u)
             THEN [data EXCEPT !.users = @ \ {u}] ELSE data
  /\ critical' = Free
  /\ UNCHANGED <<archives, taken, server, job, torn, unused, events>>

-----------------------------------------------------------------------------
(* uploadFile: the session and the workspace's connection, the file, its   *)
(* row.                                                                    *)

StartUpload(f, w, a) ==
  /\ Event
  /\ Running /\ job[f] = Idle
  /\ w \in DOMAIN data.rows /\ w \in DOMAIN data.dbs /\ a \in unused
  /\ Go(f, [Idle EXCEPT !.at = "file", !.into = {w}, !.file = {a}])
  /\ unused' = unused \ {a}
  /\ UNCHANGED <<data, archives, taken, server, critical, torn>>

Written(f, place) ==
  IF place = "file" THEN [data EXCEPT !.attach = @ \union job[f].file]
  ELSE [data EXCEPT !.dbs = [w \in DOMAIN @ |->
          IF w \in job[f].into THEN @[w] \union job[f].file ELSE @[w]]]
\* Mutant: the row before the file.
WrittenRowFirst(f, place) == Written(f, IF place = "file" THEN "row" ELSE "file")
UploadStep(f, place) == Written(f, place)

UploadFile(f) ==
  /\ At(f, "file")
  /\ data' = UploadStep(f, "file")
  /\ Go(f, [job[f] EXCEPT !.at = "row"])
  /\ UNCHANGED <<archives, taken, server, critical, torn, unused, events>>

UploadRow(f) ==
  /\ At(f, "row")
  /\ data' = UploadStep(f, "row")
  /\ Go(f, Idle)
  /\ UNCHANGED <<archives, taken, server, critical, torn, unused, events>>

-----------------------------------------------------------------------------
(* Archives.                                                               *)

\* buildArchive and archiveKey, with no await in between.
Archive(place) ==
  [Idle EXCEPT !.at = place, !.key = taken', !.made = data, !.whole = ~torn.cut]
Aged == torn' = [torn EXCEPT !.since = IF torn.cut THEN @ + 1 ELSE 0]
\* Mutant: two archives under one name.
BuildAgain == UNCHANGED taken /\ Aged
Build == taken' = taken + 1 /\ Aged

\* By hand or by the schedule.
TriggerBackup(f) ==
  /\ Event
  /\ Running /\ job[f] = Idle
  /\ Build /\ Go(f, Archive("put"))
  /\ UNCHANGED <<data, archives, server, critical, unused>>

Put(f) == archives' = With(archives, job[f].key,
                           [data |-> job[f].made, whole |-> job[f].whole])
BackupStored(f) ==
  /\ At(f, "put")
  /\ Put(f) /\ Go(f, [Idle EXCEPT !.at = "list"])
  /\ UNCHANGED <<data, taken, server, critical, torn, unused, events>>

\* Newest first, by key; what is past the last one kept.
Newer(k) == {n \in DOMAIN archives : n > k}
SelectOneTooMany ==
  {k \in DOMAIN archives : KeepLast > 0 /\ Cardinality(Newer(k)) >= KeepLast - 1}
SelectExpired ==
  {k \in DOMAIN archives : KeepLast > 0 /\ Cardinality(Newer(k)) >= KeepLast}

PruneListed(f) ==
  /\ At(f, "list")
  /\ Go(f, [Idle EXCEPT !.at = "delete", !.keys = SelectExpired])
  /\ UNCHANGED <<data, archives, taken, server, critical, torn, unused, events>>

Pruned(f) ==
  /\ At(f, "delete")
  /\ archives' = Less(archives, job[f].keys)
  /\ Go(f, Idle)
  /\ UNCHANGED <<data, taken, server, critical, torn, unused, events>>

\* The store or the disk refuses: nothing after it happens.
Fails(f) ==
  /\ Event
  /\ server # "down" /\ critical = Free /\ job[f] # Idle
  /\ Go(f, Idle)
  /\ UNCHANGED <<data, archives, taken, server, critical, torn, unused>>

-----------------------------------------------------------------------------
(* restoreBackup: the snapshot, the archive's bytes, then each part of the *)
(* directory removed and replaced.                                         *)

RestoreBackup(f, k) ==
  /\ Event
  /\ Running /\ job[f] = Idle /\ k \in DOMAIN archives
  /\ Build
  /\ Go(f, [Archive("snapshot") EXCEPT !.target = k, !.before = Recorded(data)])
  /\ UNCHANGED <<data, archives, server, critical, unused>>

\* Mutant: a snapshot that could not be stored is no reason to stop.
SnapshotForgotten(f) ==
  /\ At(f, "snapshot")
  /\ Go(f, [job[f] EXCEPT !.at = "get"])
  /\ UNCHANGED <<data, archives, taken, server, critical, torn, unused, events>>

\* The snapshot is stored, without pruning.
SnapshotStored(f) ==
  /\ At(f, "snapshot")
  /\ Put(f) /\ Go(f, [job[f] EXCEPT !.at = "get"])
  /\ UNCHANGED <<data, taken, server, critical, torn, unused, events>>

BytesRead(f) ==
  /\ At(f, "get") /\ job[f].target \in DOMAIN archives
  /\ LET archive == archives[job[f].target] IN
     critical' = [at |-> "no platform", from |-> archive.data, whole |-> archive.whole,
                  by |-> job[f].before \intersect Recorded(data)]
  /\ Go(f, Idle)
  /\ UNCHANGED <<data, archives, taken, server, torn, unused, events>>

\* Each part is removed, then the staged one renamed into its place.
After == [place \in {"no platform", "platform", "no workspaces", "workspaces",
                     "no attachments", "attachments"} |->
  CASE place = "no platform" -> "platform" [] place = "platform" -> "no workspaces"
    [] place = "no workspaces" -> "workspaces" [] place = "workspaces" -> "no attachments"
    [] place = "no attachments" -> "attachments" [] place = "attachments" -> "free"]

Part(place, d, from) ==
  CASE place = "no platform"    -> [d EXCEPT !.users = {}, !.rows = Nothing]
    [] place = "platform"       -> [d EXCEPT !.users = from.users, !.rows = from.rows]
    [] place = "no workspaces"  -> [d EXCEPT !.dbs = Nothing]
    [] place = "workspaces"     -> [d EXCEPT !.dbs = from.dbs]
    [] place = "no attachments" -> [d EXCEPT !.attach = {}]
    [] place = "attachments"    -> [d EXCEPT !.attach = from.attach]
PartKeepingFiles(place, d, from) ==
  IF place \in {"no attachments", "attachments"} THEN d ELSE Part(place, d, from)
Replaced(place, d, from) == Part(place, d, from)

\* The directory is of two times now, or of an archive that was.  What a first
\* restore has put there, a second may overwrite for good.
Tear == [cut |-> TRUE, since |-> torn.since,
         before |-> IF torn.cut THEN torn.before
                    ELSE IF server = "up" THEN critical.by ELSE {}]

Replace ==
  /\ critical.at \in DOMAIN After
  /\ data' = Replaced(critical.at, data, critical.from)
  /\ LET next == After[critical.at] IN
     IF next = "free"
     THEN /\ critical' = Free /\ server' = "closing"
          /\ torn' = IF critical.whole THEN Whole ELSE Tear
     ELSE critical' = [critical EXCEPT !.at = next] /\ UNCHANGED <<server, torn>>
  /\ job' = IF critical.at = "no workspaces" THEN CutOff(Workspace) ELSE job
  /\ UNCHANGED <<archives, taken, unused, events>>

-----------------------------------------------------------------------------
(* The process.                                                            *)

Down == server' = "down" /\ job' = [f \in Fiber |-> Idle] /\ critical' = Free

\* The response is flushed, then the process exits.
Exit ==
  /\ server = "closing" /\ critical = Free
  /\ Down
  /\ UNCHANGED <<data, archives, taken, torn, unused, events>>

Crash ==
  /\ Event /\ server # "down"
  /\ Down
  /\ torn' = IF critical.at \in DOMAIN After THEN Tear ELSE torn
  /\ UNCHANGED <<data, archives, taken, unused>>

\* A missing database is made afresh; retention runs on boot.
Boot ==
  /\ server = "down" /\ server' = "up"
  /\ \E f \in Fiber : Go(f, [Idle EXCEPT !.at = "list"])
  /\ UNCHANGED <<data, archives, taken, critical, torn, unused, events>>

-----------------------------------------------------------------------------
InstanceInit ==
  /\ data = [Empty EXCEPT !.users = User \ Anonymous]
  /\ archives = Nothing /\ taken = 0
  /\ server = "up" /\ critical = Free
  /\ job = [f \in Fiber |-> Idle]
  /\ torn = Whole /\ unused = Workspace \union Upload /\ events = 0

Awaited(f) ==
  \/ UploadFile(f) \/ UploadRow(f)
  \/ BackupStored(f) \/ PruneListed(f) \/ Pruned(f)
  \/ SnapshotStored(f) \/ BytesRead(f)
Sync ==
  \/ \E w \in Workspace : PurgeFile(w)
  \/ \E u \in User : PurgeOwner(u)
  \/ Replace

InstanceNext ==
  \/ \E u \in User, w \in Workspace : CreateWorkspace(u, w) \/ StartDemo(u, w)
  \/ \E w \in Workspace : TtlPasses(w) \/ PurgeDemo(w)
  \/ \E f \in Fiber :
       \/ \E w \in Workspace, a \in Upload : StartUpload(f, w, a)
       \/ TriggerBackup(f)
       \/ \E k \in DOMAIN archives : RestoreBackup(f, k)
       \/ Awaited(f) \/ Fails(f)
  \/ Sync \/ Exit \/ Crash \/ Boot

InstanceSpec == InstanceInit /\ [][InstanceNext]_instanceVars

\* Statements go on, the process is started again, and the demo purge ticks.
FairInstanceSpec ==
  /\ InstanceSpec
  /\ WF_instanceVars(Sync) /\ WF_instanceVars(Boot) /\ WF_instanceVars(Exit)
  /\ \A w \in Workspace : SF_instanceVars(PurgeDemo(w))

-----------------------------------------------------------------------------
\* The directory, the archives and what jobs hold are well formed, and every
\* archive has one of the keys given out.
Partial(S, T) == UNION {[D -> T] : D \in SUBSET S}
Data == [users : SUBSET User, rows : Partial(Workspace, Row),
         dbs : Partial(Workspace, SUBSET Upload), attach : SUBSET Upload]
Stored == [data : Data, whole : BOOLEAN]
Job == [at : {"idle", "file", "row", "put", "list", "delete", "snapshot", "get"},
        key : Nat, made : Data, whole : BOOLEAN, target : Nat,
        before : SUBSET Upload, keys : SUBSET Nat,
        into : SUBSET Workspace, file : SUBSET Upload]
Section == [at : {"free", "file", "owner"} \union DOMAIN After, from : Data,
            whole : BOOLEAN, by : SUBSET (Workspace \union User \union Upload)]
InstanceTypeOK ==
  /\ data \in Data /\ taken \in Nat
  /\ archives \in Partial(1..taken, Stored)
  /\ server \in {"up", "closing", "down"}
  /\ critical \in Section /\ (critical.at \in DOMAIN After => critical.by \subseteq Upload)
  /\ job \in [Fiber -> Job]
  /\ torn \in [cut : BOOLEAN, before : SUBSET Upload, since : Nat]
  /\ unused \subseteq Workspace \union Upload

\* A recorded attachment has its file, in the directory and in every archive,
\* whenever a backup, a stop or a failure came in between; short of a restore
\* cut off half-way, and of one that brings back what such a restore left.
RowsHaveFiles ==
  /\ ~torn.cut /\ critical.at \notin DOMAIN After => Recorded(data) \subseteq data.attach
  /\ \A k \in DOMAIN archives : archives[k].whole =>
       Recorded(archives[k].data) \subseteq archives[k].data.attach

\* The purge leaves no workspace without its owner's account, in no archive
\* either, wherever a stop cut it or a restore mixed two times.
OwnersExist ==
  \A d \in {data} \union {archives[k].data : k \in DOMAIN archives} :
    \A w \in DOMAIN d.rows : d.rows[w].owner \in d.users

\* What a restore overwrites can be had back: as it starts to replace files,
\* some archive in the store holds all that was recorded when it was asked for
\* and still is, whatever other backups and their pruning did meanwhile.
RestoreKeepsTheOld ==
  [][critical = Free /\ critical'.at \in DOMAIN After =>
       \E k \in DOMAIN archives : critical'.by \subseteq Recorded(archives[k].data)]_instanceVars

\* ... and when a stop cuts it off, through the boot's retention pass, until as
\* many archives have been taken of the torn directory as retention keeps.  (Not
\* so for what another restore brought in just before, which a backup taken
\* between the two, and kept, may lack.)
TornIsRecoverable ==
  torn.cut /\ (KeepLast = 0 \/ torn.since < KeepLast) =>
    \E k \in DOMAIN archives : torn.before \subseteq Recorded(archives[k].data)

\* A restore that runs to its end leaves the archive and nothing else, in all
\* its parts, whatever uploads and purges were under way as it began.
RestoresTheArchive ==
  [][critical.at = "attachments" /\ critical' = Free /\ server' = "closing" =>
       data' = critical.from]_instanceVars

\* Every expired demo is reclaimed in the end.
DemosReclaimed ==
  \A w \in Workspace :
    (w \in DOMAIN data.rows /\ data.rows[w].demo /\ data.rows[w].old)
      ~> (w \notin DOMAIN data.rows)
=============================================================================
