---------------------------- MODULE RecordPages -----------------------------
(***************************************************************************)
(* Databases and records on top of the page table                          *)
(* (packages/server/src/handlers/databases.ts).  A database hangs off a    *)
(* host page; a record may have a page of its own, made the first time it  *)
(* is opened as one.  Rows and pages have separate trash flags, and purges *)
(* follow page, database, record and backing page in turn.                 *)
(*                                                                         *)
(* Handlers run to completion.                                             *)
(***************************************************************************)
EXTENDS PageTree

CONSTANTS Database, Record,
          NoRow     \* no database, no record

ASSUME NoRowAssumption == NoRow \notin Database \union Record

VARIABLES
  db,       \* rows of databases: "new" before they exist, "gone" after a purge
  host,     \* page_id of a database
  row,      \* rows of database_records
  home,     \* database_id of a record
  pageOf,   \* page_id of a record
  madeFor   \* history: the record a page was made for

rowVars == <<db, host, row, home, pageOf, madeFor>>
recordVars == <<vars, rowVars>>

InTrash  == {"recent", "expired"}
RowState == {"new", "live", "gone"} \union InTrash

Databases == {d \in Database : db[d] \in {"live"} \union InTrash}
Records   == {r \in Record : row[r] \in {"live"} \union InTrash}

RecordTypeOK ==
  /\ TypeOK
  /\ db \in [Database -> RowState]
  /\ row \in [Record -> RowState]
  /\ host \in [Database -> OptPage]
  /\ home \in [Record -> Database \union {NoRow}]
  /\ pageOf \in [Record -> OptPage]
  /\ madeFor \in [Page -> Record \union {NoRow}]
  /\ \A r \in Records : home[r] \in Database
  /\ \A r \in Record \ Records : pageOf[r] = NoPage

RecordInit ==
  /\ Init
  /\ db = [d \in Database |-> "new"]
  /\ host = [d \in Database |-> NoPage]
  /\ row = [r \in Record |-> "new"]
  /\ home = [r \in Record |-> NoRow]
  /\ pageOf = [r \in Record |-> NoPage]
  /\ madeFor = [p \in Page |-> NoRow]

\* What a database view shows: live rows of live databases of visible pages.
OnScreen(d) == db[d] = "live" /\ host[d] \in Visible
RowOnScreen(r) == row[r] = "live" /\ OnScreen(home[r])

-----------------------------------------------------------------------------
(* Databases and records.                                                  *)

CreateDatabase(d, p) ==
  /\ db[d] = "new"
  /\ db' = [db EXCEPT ![d] = "live"]
  /\ host' = [host EXCEPT ![d] = p]
  /\ UNCHANGED <<vars, row, home, pageOf, madeFor>>

CreateRecord(r, d) ==
  /\ row[r] = "new"
  /\ row' = [row EXCEPT ![r] = "live"]
  /\ home' = [home EXCEPT ![r] = d]
  /\ UNCHANGED <<vars, db, host, pageOf, madeFor>>

\* The row and its page are marked; the page's trashed_with and the pages
\* below it stay as they are.
DeleteRecord(r) ==
  LET pages == {pageOf[r]} \intersect stored IN
  /\ r \in Records
  /\ row' = [row EXCEPT ![r] = "recent"]
  /\ trashed' = trashed \union pages
  /\ deletedAt' = [p \in Page |-> IF p \in pages THEN "recent" ELSE deletedAt[p]]
  /\ UNCHANGED <<unused, stored, parent, trashedWith, carried,
                 db, host, home, pageOf, madeFor>>

RestoreRecord(r) ==
  LET pages == {pageOf[r]} \intersect stored IN
  /\ row[r] \in InTrash
  /\ row' = [row EXCEPT ![r] = "live"]
  /\ trashed' = trashed \ pages
  /\ deletedAt' = [p \in Page |-> IF p \in pages THEN "none" ELSE deletedAt[p]]
  /\ UNCHANGED <<unused, stored, parent, trashedWith, carried,
                 db, host, home, pageOf, madeFor>>

DeleteDatabase(d) ==
  /\ db[d] = "live"
  /\ db' = [db EXCEPT ![d] = "recent"]
  /\ UNCHANGED <<vars, host, row, home, pageOf, madeFor>>

RestoreDatabase(d) ==
  /\ db[d] \in InTrash
  /\ db' = [db EXCEPT ![d] = "live"]
  /\ UNCHANGED <<vars, host, row, home, pageOf, madeFor>>

\* A row that was never opened gets a page under its database's host.
MakePage(r) ==
  /\ home[r] \in Databases
  /\ \E p \in unused :
       /\ CreatePage(p, host[home[r]])
       /\ pageOf' = [pageOf EXCEPT ![r] = p]
       /\ madeFor' = [madeFor EXCEPT ![p] = r]

\* Mutant: a page is made whether or not the row has one.
OpenAlways(r) ==
  /\ row[r] = "live"
  /\ MakePage(r)
  /\ UNCHANGED <<db, host, row, home>>

OpenRecordAsPage(r) ==
  /\ row[r] = "live"
  /\ pageOf[r] = NoPage
  /\ MakePage(r)
  /\ UNCHANGED <<db, host, row, home>>

-----------------------------------------------------------------------------
(* Purges.  Starting from pages ps, databases ds and records rs, what goes *)
(* is found by parent_id, databases.page_id, database_records.database_id  *)
(* and database_records.page_id.                                           *)

RowsOf(ds) == {r \in Records : home[r] \in ds}
HostedBy(ps) == {d \in Databases : host[d] \in ps}
PagesOf(rs) == {pageOf[r] : r \in rs} \ {NoPage}

Follows(C) ==
  /\ \A q \in stored : parent[q] \in C => q \in C
  /\ PagesOf(RowsOf(HostedBy(C))) \subseteq C

PagesGone(ps) ==
  {q \in Page : \A C \in SUBSET Page : (ps \subseteq C /\ Follows(C)) => q \in C}

\* Mutant: purging a page leaves its databases and their rows.
PurgeAllPagesOnly(ps, ds, rs) ==
  /\ Remove(PagesGone(ps \union PagesOf(rs \union RowsOf(ds))))
  /\ db' = [d \in Database |-> IF d \in ds THEN "gone" ELSE db[d]]
  /\ host' = [d \in Database |-> IF d \in ds THEN NoPage ELSE host[d]]
  /\ row' = [r \in Record |-> IF r \in rs \union RowsOf(ds) THEN "gone" ELSE row[r]]
  /\ pageOf' = [r \in Record |-> IF r \in rs \union RowsOf(ds) THEN NoPage ELSE pageOf[r]]
  /\ UNCHANGED <<home, madeFor>>

\* Mutant: the pages of the rows are left.
PurgeAllButBacking(ps, ds, rs) ==
  LET pages == PagesGone(ps)
      dbs   == ds \union HostedBy(pages)
      rows  == rs \union RowsOf(dbs)
  IN
  /\ Remove(pages)
  /\ db' = [d \in Database |-> IF d \in dbs THEN "gone" ELSE db[d]]
  /\ host' = [d \in Database |-> IF d \in dbs THEN NoPage ELSE host[d]]
  /\ row' = [r \in Record |-> IF r \in rows THEN "gone" ELSE row[r]]
  /\ pageOf' = [r \in Record |-> IF r \in rows THEN NoPage ELSE pageOf[r]]
  /\ UNCHANGED <<home, madeFor>>

PurgeAll(ps, ds, rs) ==
  LET pages == PagesGone(ps \union PagesOf(rs \union RowsOf(ds)))
      dbs   == ds \union HostedBy(pages)
      rows  == rs \union RowsOf(dbs)
  IN
  /\ Remove(pages)
  /\ db' = [d \in Database |-> IF d \in dbs THEN "gone" ELSE db[d]]
  /\ host' = [d \in Database |-> IF d \in dbs THEN NoPage ELSE host[d]]
  /\ row' = [r \in Record |-> IF r \in rows THEN "gone" ELSE row[r]]
  /\ pageOf' = [r \in Record |-> IF r \in rows THEN NoPage ELSE pageOf[r]]
  /\ UNCHANGED <<home, madeFor>>

PurgePageDeep(p)  == p \in stored /\ PurgeAll({p}, {}, {})
PurgeDatabase(d)  == d \in Databases /\ PurgeAll({}, {d}, {})
PurgeRecord(r)    == r \in Records /\ PurgeAll({}, {}, {r})

ExpiredDbs  == {d \in Database : db[d] = "expired"}

\* Mutant: is_deleted is not asked for.
ExpiredOrLiveRows == {r \in Record : row[r] \in {"expired", "live"}}

ExpiredRows == {r \in Record : row[r] = "expired"}

SweepAll ==
  /\ Expired # {} \/ ExpiredDbs # {} \/ ExpiredRows # {}
  /\ PurgeAll(Expired, ExpiredDbs, ExpiredRows)

AllRetentionPasses ==
  /\ \/ \E p \in trashed : deletedAt[p] = "recent"
     \/ \E d \in Database : db[d] = "recent"
     \/ \E r \in Record : row[r] = "recent"
  /\ deletedAt' = [p \in Page |-> IF deletedAt[p] = "recent" THEN "expired" ELSE deletedAt[p]]
  /\ db' = [d \in Database |-> IF db[d] = "recent" THEN "expired" ELSE db[d]]
  /\ row' = [r \in Record |-> IF row[r] = "recent" THEN "expired" ELSE row[r]]
  /\ UNCHANGED <<unused, stored, parent, trashed, trashedWith, carried,
                 host, home, pageOf, madeFor>>

-----------------------------------------------------------------------------
\* The sidebar, the database views and the trash, as they stand.
PageRequest ==
  /\ \/ \E p \in Page, t \in Visible \union {NoPage} : CreatePage(p, t)
     \/ \E p \in Page, t \in Visible \union {NoPage} : MovePage(p, t)
     \/ \E p \in Visible : DeletePage(p)
     \/ \E p \in Listed : RestorePage(p)
  /\ UNCHANGED rowVars

RowRequest ==
  \/ \E d \in Database, p \in Visible : CreateDatabase(d, p)
  \/ \E r \in Record : \E d \in {e \in Databases : OnScreen(e)} : CreateRecord(r, d)
  \/ \E r \in {s \in Records : RowOnScreen(s)} : DeleteRecord(r)
  \/ \E r \in Records : RestoreRecord(r)
  \/ \E d \in {e \in Databases : OnScreen(e)} : DeleteDatabase(d)
  \/ \E d \in Databases : RestoreDatabase(d)

PurgeRequest ==
  \/ \E p \in Listed : PurgePageDeep(p)
  \/ \E d \in {e \in Databases : db[e] \in InTrash} : PurgeDatabase(d)
  \/ \E r \in {s \in Records : row[s] \in InTrash} : PurgeRecord(r)

RecordNext ==
  \/ PageRequest
  \/ RowRequest
  \/ PurgeRequest
  \/ \E r \in {s \in Records : RowOnScreen(s)} : OpenRecordAsPage(r)
  \/ SweepAll
  \/ AllRetentionPasses

RecordSpec == RecordInit /\ [][RecordNext]_recordVars

-----------------------------------------------------------------------------
(* No row outlives what it hangs off: a database's host page and a         *)
(* record's database are there, in the trash or not.  The foreign keys are *)
(* not enforced; only the purges' own deletions keep this.                 *)
NoOrphanRows ==
  /\ \A d \in Databases : host[d] \in stored
  /\ \A r \in Records : home[r] \in Databases

(* A page made for a row does not outlive it: no purge of the row, of its  *)
(* database or of a page above leaves the backing page behind.             *)
NoGhostPage == \A p \in stored : madeFor[p] # NoRow => madeFor[p] \in Records

(* A row has one page: however often it is opened, moved, trashed and      *)
(* restored, only one page was made for it, and it is the one it names.    *)
OneBackingPage ==
  \A p \in stored : madeFor[p] # NoRow => pageOf[madeFor[p]] = p

(* A purge reaches a page the sidebar shows only through the rows: what it *)
(* takes from the sidebar is at or below the page of a row that goes with  *)
(* it, and the chain starts at a row that no screen shows.                 *)
PurgeSparesVisible ==
  [][LET lost == Records \ Records' IN
     Visible \ stored' # {} =>
       /\ \E r \in lost : ~RowOnScreen(r) /\ pageOf[r] \in stored \ stored'
       /\ \A q \in Visible \ stored' : \E r \in lost : q \in Subtree(pageOf[r])]_recordVars
=============================================================================
