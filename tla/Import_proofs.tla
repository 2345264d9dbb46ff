---------------------------- MODULE Import_proofs ----------------------------
(***************************************************************************)
(* What the hand-written cascade of the purges keeps, for any pages,       *)
(* databases and records.  All of it rests on one fact: what a purge takes *)
(* is closed, so that nothing it leaves hangs off anything it took.        *)
(*                                                                         *)
(* Then what the import's ledger keeps, for any exports.                   *)
(***************************************************************************)
EXTENDS Import, PageTree_proofs, FiniteSetTheorems

-----------------------------------------------------------------------------
(* The walk of the purges.                                                 *)

LEMMA PagesOfPages ==
  ASSUME RecordTypeOK, NEW rs \in SUBSET Record
  PROVE  PagesOf(rs) \subseteq Page
  BY DEF PagesOf, RecordTypeOK, OptPage

LEMMA GoneLeast ==
  ASSUME NEW ps, NEW C \in SUBSET Page, ps \subseteq C, Follows(C)
  PROVE  PagesGone(ps) \subseteq C
  BY DEF PagesGone

LEMMA GoneClosed ==
  ASSUME RecordTypeOK, NEW ps \in SUBSET Page
  PROVE  ps \subseteq PagesGone(ps) /\ Follows(PagesGone(ps))
<1> DEFINE G == PagesGone(ps)
<1>1. ps \subseteq G
  BY DEF PagesGone
<1>2. ASSUME NEW q \in stored, parent[q] \in G PROVE q \in G
  <2>1. q \in Page
    BY DEF RecordTypeOK, TypeOK
  <2>2. ASSUME NEW C \in SUBSET Page, ps \subseteq C, Follows(C) PROVE q \in C
    <3>1. parent[q] \in C
      BY <1>2, <2>2, GoneLeast
    <3> QED
      BY <2>2, <3>1 DEF Follows
  <2> QED
    BY <2>1, <2>2 DEF PagesGone
<1>3. PagesOf(RowsOf(HostedBy(G))) \subseteq G
  <2>1. SUFFICES ASSUME NEW q \in PagesOf(RowsOf(HostedBy(G))) PROVE q \in G
    OBVIOUS
  <2>2. q \in Page
    BY PagesOfPages DEF RowsOf, Records
  <2>3. ASSUME NEW C \in SUBSET Page, ps \subseteq C, Follows(C) PROVE q \in C
    <3>1. G \subseteq C
      BY <2>3, GoneLeast
    <3>2. PagesOf(RowsOf(HostedBy(G))) \subseteq PagesOf(RowsOf(HostedBy(C)))
      BY <3>1 DEF PagesOf, RowsOf, HostedBy
    <3> QED
      BY <2>3, <3>2 DEF Follows
  <2> QED
    BY <2>2, <2>3 DEF PagesGone
<1> QED
  BY <1>1, <1>2, <1>3 DEF Follows

(* A purge in terms of what it takes: the pages, databases and rows that   *)
(* go are closed under all four columns.                                   *)
TakesRows(pages, dbs, rows) ==
  /\ Follows(pages)
  /\ HostedBy(pages) \subseteq dbs
  /\ RowsOf(dbs) \subseteq rows
  /\ PagesOf(rows) \subseteq pages
  /\ Remove(pages)
  /\ Databases' = Databases \ dbs
  /\ Records' = Records \ rows
  /\ \A d \in Database \ dbs : host'[d] = host[d]
  /\ \A r \in Record : pageOf'[r] = IF r \in rows THEN NoPage ELSE pageOf[r]
  /\ home' = home /\ madeFor' = madeFor

LEMMA PurgeTakes ==
  ASSUME RecordTypeOK, NEW ps \in SUBSET Page, NEW ds \in SUBSET Database,
         NEW rs \in SUBSET Record, PurgeAll(ps, ds, rs)
  PROVE  \E pages \in SUBSET Page, dbs \in SUBSET Database, rows \in SUBSET Record :
           /\ pages = PagesGone(ps \union PagesOf(rs \union RowsOf(ds)))
           /\ dbs = ds \union HostedBy(pages)
           /\ rows = rs \union RowsOf(dbs)
           /\ TakesRows(pages, dbs, rows)
<1> DEFINE start == ps \union PagesOf(rs \union RowsOf(ds))
           pages == PagesGone(start)
           dbs   == ds \union HostedBy(pages)
           rows  == rs \union RowsOf(dbs)
<1>1. start \in SUBSET Page
  <2>1. rs \union RowsOf(ds) \in SUBSET Record
    BY DEF RowsOf, Records
  <2> QED
    BY <2>1, PagesOfPages
<1>2. start \subseteq pages /\ Follows(pages)
  BY <1>1, GoneClosed
<1>3. pages \in SUBSET Page /\ dbs \in SUBSET Database /\ rows \in SUBSET Record
  BY DEF PagesGone, HostedBy, Databases, RowsOf, Records
<1>4. PagesOf(rows) \subseteq pages
  <2>1. rows = (rs \union RowsOf(ds)) \union RowsOf(HostedBy(pages))
    BY DEF RowsOf
  <2>2. PagesOf(rows) = PagesOf(rs \union RowsOf(ds)) \union PagesOf(RowsOf(HostedBy(pages)))
    BY <2>1 DEF PagesOf
  <2> QED
    BY <1>2, <2>2 DEF Follows
<1>5. /\ Remove(pages)
      /\ db' = [d \in Database |-> IF d \in dbs THEN "gone" ELSE db[d]]
      /\ host' = [d \in Database |-> IF d \in dbs THEN NoPage ELSE host[d]]
      /\ row' = [r \in Record |-> IF r \in rows THEN "gone" ELSE row[r]]
      /\ pageOf' = [r \in Record |-> IF r \in rows THEN NoPage ELSE pageOf[r]]
      /\ home' = home /\ madeFor' = madeFor
  BY DEF PurgeAll
<1> HIDE DEF pages, dbs, rows
<1>6. Databases' = Databases \ dbs
  BY <1>5 DEF Databases, InTrash
<1>7. Records' = Records \ rows
  BY <1>5 DEF Records, InTrash
<1>8. HostedBy(pages) \subseteq dbs /\ RowsOf(dbs) \subseteq rows
  BY DEF dbs, rows
<1>9. TakesRows(pages, dbs, rows)
  BY <1>2, <1>4, <1>5, <1>6, <1>7, <1>8 DEF TakesRows
<1> QED
  BY <1>3, <1>9 DEF pages, dbs, rows

-----------------------------------------------------------------------------
(* Types.                                                                  *)

(* A client's page request is one of the page tree's steps.                *)
LEMMA PageRequestIsNext == RecordTypeOK /\ PageRequest => Next /\ UNCHANGED rowVars
<1>1. Visible \subseteq Live
  BY BelowClosed DEF Visible, LiveBelow
<1> QED
  BY <1>1 DEF PageRequest, Next

LEMMA CreateType ==
  ASSUME TypeOK, NEW p, NEW t \in OptPage, CreatePage(p, t)
  PROVE  TypeOK'
  BY DEF CreatePage, TypeOK

LEMMA PurgeType ==
  ASSUME RecordTypeOK, NEW ps \in SUBSET Page, NEW ds \in SUBSET Database,
         NEW rs \in SUBSET Record, PurgeAll(ps, ds, rs)
  PROVE  RecordTypeOK'
<1>1. TypeOK'
  BY RemoveType DEF PurgeAll, RecordTypeOK
<1>2. /\ host' \in [Database -> OptPage] /\ db' \in [Database -> RowState]
      /\ row' \in [Record -> RowState] /\ pageOf' \in [Record -> OptPage]
      /\ home' = home /\ madeFor' = madeFor
  BY DEF PurgeAll, RecordTypeOK, RowState, OptPage
<1>3. /\ Records' \subseteq Records
      /\ \A r \in Record : r \notin Records => r \notin Records'
      /\ \A r \in Record \ Records' : pageOf'[r] = NoPage
  <2>1. PICK pages \in SUBSET Page, dbs \in SUBSET Database, rows \in SUBSET Record :
           TakesRows(pages, dbs, rows)
    BY PurgeTakes
  <2> QED
    BY <2>1 DEF TakesRows, RecordTypeOK
<1> QED
  BY <1>1, <1>2, <1>3 DEF RecordTypeOK

(* What the purges start from: trashed pages, databases and rows.          *)
LEMMA PurgeStarts ==
  ASSUME RecordTypeOK, PurgeRequest \/ SweepAll
  PROVE  \E ps \in SUBSET trashed, ds \in SUBSET {d \in Databases : db[d] # "live"},
            rs \in SUBSET {r \in Records : row[r] # "live"} : PurgeAll(ps, ds, rs)
<1>1. ASSUME NEW p \in Listed, PurgePageDeep(p) PROVE PurgeAll({p}, {}, {}) /\ p \in trashed
  BY <1>1 DEF PurgePageDeep, Listed
<1>2. ASSUME NEW d \in {e \in Databases : db[e] \in InTrash}, PurgeDatabase(d)
      PROVE  PurgeAll({}, {d}, {}) /\ d \in {e \in Databases : db[e] # "live"}
  BY <1>2 DEF PurgeDatabase, InTrash
<1>3. ASSUME NEW r \in {s \in Records : row[s] \in InTrash}, PurgeRecord(r)
      PROVE  PurgeAll({}, {}, {r}) /\ r \in {s \in Records : row[s] # "live"}
  BY <1>3 DEF PurgeRecord, InTrash
<1>4. ASSUME SweepAll
      PROVE  /\ PurgeAll(Expired, ExpiredDbs, ExpiredRows)
             /\ Expired \subseteq trashed
             /\ ExpiredDbs \subseteq {d \in Databases : db[d] # "live"}
             /\ ExpiredRows \subseteq {r \in Records : row[r] # "live"}
  BY <1>4 DEF SweepAll, Expired, ExpiredDbs, ExpiredRows, Databases, Records, InTrash
<1> QED
  BY <1>1, <1>2, <1>3, <1>4 DEF PurgeRequest

LEMMA RecordTypeInit == RecordInit => RecordTypeOK
<1> SUFFICES ASSUME RecordInit PROVE RecordTypeOK
  OBVIOUS
<1>1. TypeOK
  BY TypeInit DEF RecordInit
<1> QED
  BY <1>1 DEF RecordInit, RecordTypeOK, RowState, InTrash, OptPage, Records

LEMMA RecordTypeNext == RecordTypeOK /\ [RecordNext]_recordVars => RecordTypeOK'
<1> SUFFICES ASSUME RecordTypeOK, [RecordNext]_recordVars PROVE RecordTypeOK'
  OBVIOUS
<1> USE DEF RowState, InTrash
<1>1. CASE PageRequest
  <2>1. TypeOK' /\ UNCHANGED rowVars
    BY <1>1, PageRequestIsNext, ScreensAreKnown, TypeNext DEF RecordTypeOK
  <2> QED
    BY <2>1 DEF RecordTypeOK, rowVars, Records
<1>2. ASSUME NEW d \in Database, NEW p \in Visible, CreateDatabase(d, p) PROVE RecordTypeOK'
  <2>1. p \in Page
    BY BelowClosed DEF Visible, LiveBelow, Live, RecordTypeOK, TypeOK
  <2> QED
    BY <1>2, <2>1 DEF CreateDatabase, RecordTypeOK, TypeOK, vars, Records, OptPage
<1>3. ASSUME NEW r \in Record, NEW d \in Databases, CreateRecord(r, d) PROVE RecordTypeOK'
  BY <1>3 DEF CreateRecord, RecordTypeOK, TypeOK, vars, Records, Databases
<1>4. ASSUME NEW r \in Records, DeleteRecord(r) \/ RestoreRecord(r) PROVE RecordTypeOK'
  <2>1. TypeOK'
    BY <1>4 DEF DeleteRecord, RestoreRecord, RecordTypeOK, TypeOK, Age
  <2>2. Records' = Records /\ row' \in [Record -> RowState]
    BY <1>4 DEF DeleteRecord, RestoreRecord, RecordTypeOK, Records
  <2> QED
    BY <1>4, <2>1, <2>2 DEF DeleteRecord, RestoreRecord, RecordTypeOK
<1>5. ASSUME NEW d \in Databases, DeleteDatabase(d) \/ RestoreDatabase(d) PROVE RecordTypeOK'
  BY <1>5 DEF DeleteDatabase, RestoreDatabase, RecordTypeOK, TypeOK, vars, Records, Databases
<1>6. ASSUME NEW r \in Records, OpenRecordAsPage(r) PROVE RecordTypeOK'
  <2>1. PICK p \in unused : /\ CreatePage(p, host[home[r]])
                            /\ pageOf' = [pageOf EXCEPT ![r] = p]
                            /\ madeFor' = [madeFor EXCEPT ![p] = r]
    BY <1>6 DEF OpenRecordAsPage, MakePage
  <2>2. TypeOK'
    BY <1>6, <2>1, CreateType DEF RecordTypeOK
  <2> QED
    BY <1>6, <2>1, <2>2 DEF OpenRecordAsPage, RecordTypeOK, TypeOK, OptPage, Records
<1>7. CASE PurgeRequest \/ SweepAll
  <2>1. trashed \subseteq Page /\ Databases \subseteq Database /\ Records \subseteq Record
    BY DEF RecordTypeOK, TypeOK, Databases, Records
  <2> QED
    BY <1>7, <2>1, PurgeStarts, PurgeType
<1>8. CASE AllRetentionPasses
  <2>1. TypeOK'
    BY <1>8 DEF AllRetentionPasses, RecordTypeOK, TypeOK, Age
  <2>2. /\ db' \in [Database -> RowState] /\ row' \in [Record -> RowState]
        /\ Records' = Records
    BY <1>8 DEF AllRetentionPasses, RecordTypeOK, Records
  <2> QED
    BY <1>8, <2>1, <2>2 DEF AllRetentionPasses, RecordTypeOK
<1>9. CASE UNCHANGED recordVars
  BY <1>9 DEF recordVars, rowVars, vars, RecordTypeOK, TypeOK, Records
<1> QED
  BY <1>1, <1>2, <1>3, <1>4, <1>5, <1>6, <1>7, <1>8, <1>9 DEF RecordNext, RowRequest

(* The columns hold what they are declared to hold, a record is in a       *)
(* database from the moment it exists, and only existing records name a    *)
(* page.                                                                   *)
THEOREM RecordTypeCorrect == RecordSpec => []RecordTypeOK
  BY RecordTypeInit, RecordTypeNext, PTL DEF RecordSpec

-----------------------------------------------------------------------------
(* What hangs off what.  A page is made for a row only while it is fresh,  *)
(* so no purged page's id comes back with an old row's mark.               *)
FreshIsUnmarked == \A p \in unused : madeFor[p] = NoRow

RecordInv == NoOrphanRows /\ NoGhostPage /\ OneBackingPage /\ FreshIsUnmarked

LEMMA RecordInvInit == RecordInit => RecordInv
  BY DEF RecordInit, Init, RecordInv, NoOrphanRows, NoGhostPage, OneBackingPage,
         FreshIsUnmarked, Databases, Records, InTrash

(* What is left hangs off nothing that went: a database whose host goes    *)
(* goes, so does a row of it, and so does the page made for the row.       *)
LEMMA PurgeKeeps ==
  ASSUME RecordTypeOK, RecordInv, NEW ps \in SUBSET Page, NEW ds \in SUBSET Database,
         NEW rs \in SUBSET Record, PurgeAll(ps, ds, rs)
  PROVE  RecordInv'
<1>1. PICK pages \in SUBSET Page, dbs \in SUBSET Database, rows \in SUBSET Record :
        TakesRows(pages, dbs, rows)
  BY PurgeTakes
<1>2. /\ stored' = stored \ pages /\ unused' = unused
      /\ Databases' = Databases \ dbs /\ Records' = Records \ rows
      /\ home' = home /\ madeFor' = madeFor
  BY <1>1 DEF TakesRows, Remove
<1>3. Databases \subseteq Database /\ Records \subseteq Record
  BY DEF Databases, Records
<1>4. NoOrphanRows'
  <2>1. ASSUME NEW d \in Databases' PROVE host'[d] \in stored'
    <3>1. d \in Databases /\ d \notin dbs /\ host'[d] = host[d] /\ host[d] \in stored
      BY <1>1, <1>2, <1>3, <2>1 DEF TakesRows, RecordInv, NoOrphanRows
    <3>2. host[d] \notin pages
      BY <1>1, <3>1 DEF TakesRows, HostedBy
    <3> QED
      BY <1>2, <3>1, <3>2
  <2>2. ASSUME NEW r \in Records' PROVE home'[r] \in Databases'
    <3>1. r \in Records /\ r \notin rows /\ home[r] \in Databases
      BY <1>2, <2>2 DEF RecordInv, NoOrphanRows
    <3>2. home[r] \notin dbs
      BY <1>1, <3>1 DEF TakesRows, RowsOf
    <3> QED
      BY <1>2, <3>1, <3>2
  <2> QED
    BY <2>1, <2>2 DEF NoOrphanRows
<1>5. ASSUME NEW p \in stored', madeFor[p] # NoRow
      PROVE  madeFor[p] \in Records' /\ pageOf'[madeFor[p]] = p
  <2>1. /\ p \in stored /\ p \notin pages /\ p # NoPage
        /\ madeFor[p] \in Records /\ pageOf[madeFor[p]] = p
    BY <1>2, <1>5, NoPageAssumption
       DEF RecordInv, NoGhostPage, OneBackingPage, RecordTypeOK, TypeOK
  <2>2. madeFor[p] \notin rows
    BY <1>1, <2>1 DEF TakesRows, PagesOf
  <2> QED
    BY <1>1, <1>2, <1>3, <2>1, <2>2 DEF TakesRows
<1> QED
  BY <1>2, <1>4, <1>5 DEF RecordInv, NoGhostPage, OneBackingPage, FreshIsUnmarked

(* Opening a row that has no page: no stored page was made for it yet.     *)
LEMMA OpenKeeps ==
  ASSUME RecordTypeOK, RecordInv, NEW r \in Records, OpenRecordAsPage(r)
  PROVE  RecordInv'
<1>1. PICK p \in unused : /\ CreatePage(p, host[home[r]])
                          /\ pageOf' = [pageOf EXCEPT ![r] = p]
                          /\ madeFor' = [madeFor EXCEPT ![p] = r]
  BY DEF OpenRecordAsPage, MakePage
<1>2. /\ unused' = unused \ {p} /\ stored' = stored \union {p}
      /\ Databases' = Databases /\ Records' = Records
      /\ host' = host /\ home' = home
      /\ pageOf[r] = NoPage /\ r \in Record
  BY <1>1 DEF CreatePage, OpenRecordAsPage, Databases, Records
<1>3. p \in Page /\ p \notin stored /\ unused \subseteq Page /\ stored \subseteq Page
  BY DEF RecordTypeOK, TypeOK
<1>4. ASSUME NEW q \in stored, madeFor[q] # NoRow
      PROVE  madeFor'[q] = madeFor[q] /\ madeFor[q] # r /\ madeFor[q] \in Records
  BY <1>1, <1>2, <1>3, <1>4, NoPageAssumption
     DEF RecordInv, NoGhostPage, OneBackingPage, RecordTypeOK
<1>5. madeFor'[p] = r /\ pageOf'[r] = p
  BY <1>1, <1>2, <1>3 DEF RecordTypeOK
<1>6. \A q \in Page : q # p => madeFor'[q] = madeFor[q]
  BY <1>1 DEF RecordTypeOK
<1>7. \A s \in Record : s # r => pageOf'[s] = pageOf[s]
  BY <1>1 DEF RecordTypeOK
<1>8. NoOrphanRows'
  BY <1>2 DEF RecordInv, NoOrphanRows
<1>9. NoGhostPage'
  BY <1>2, <1>3, <1>4, <1>5, <1>6 DEF NoGhostPage
<1>10. OneBackingPage'
  <2>1. Records \subseteq Record
    BY DEF Records
  <2> QED
    BY <1>2, <1>3, <1>4, <1>5, <1>6, <1>7, <2>1 DEF RecordInv, OneBackingPage
<1>11. FreshIsUnmarked'
  BY <1>2, <1>3, <1>6 DEF RecordInv, FreshIsUnmarked
<1> QED
  BY <1>8, <1>9, <1>10, <1>11 DEF RecordInv

LEMMA RecordInvNext == RecordTypeOK /\ RecordInv /\ [RecordNext]_recordVars => RecordInv'
<1> SUFFICES ASSUME RecordTypeOK, RecordInv, [RecordNext]_recordVars PROVE RecordInv'
  OBVIOUS
<1> USE DEF RecordInv, NoOrphanRows, NoGhostPage, OneBackingPage, FreshIsUnmarked
<1>1. CASE PageRequest
  <2>1. /\ UNCHANGED rowVars
        /\ unused' \subseteq unused /\ stored \subseteq stored'
        /\ stored' \subseteq stored \union unused
    BY <1>1 DEF PageRequest, CreatePage, MovePage, DeletePage, RestorePage
  <2>2. Databases' = Databases /\ Records' = Records
    BY <2>1 DEF rowVars, Databases, Records
  <2> QED
    BY <2>1, <2>2 DEF rowVars
<1>2. ASSUME NEW d \in Database, NEW p \in Visible, CreateDatabase(d, p) PROVE RecordInv'
  <2>1. p \in stored
    BY BelowClosed DEF Visible, LiveBelow, Live
  <2>2. Databases' = Databases \union {d} /\ Records' = Records
    BY <1>2 DEF CreateDatabase, Databases, Records, RecordTypeOK
  <2>3. \A e \in Databases : e # d => host'[e] = host[e]
    BY <1>2 DEF CreateDatabase, Databases, RecordTypeOK
  <2> QED
    BY <1>2, <2>1, <2>2, <2>3 DEF CreateDatabase, RecordTypeOK, vars
<1>3. ASSUME NEW r \in Record, NEW d \in Databases, CreateRecord(r, d) PROVE RecordInv'
  <2>1. Databases' = Databases /\ Records' = Records \union {r}
    BY <1>3 DEF CreateRecord, Databases, Records, RecordTypeOK
  <2>2. \A s \in Records : s # r => home'[s] = home[s]
    BY <1>3 DEF CreateRecord, Records, RecordTypeOK
  <2> QED
    BY <1>3, <2>1, <2>2 DEF CreateRecord, RecordTypeOK, vars
<1>4. ASSUME NEW r \in Records, DeleteRecord(r) \/ RestoreRecord(r) PROVE RecordInv'
  <2>1. Databases' = Databases /\ Records' = Records
    BY <1>4 DEF DeleteRecord, RestoreRecord, Databases, Records, RecordTypeOK, InTrash
  <2> QED
    BY <1>4, <2>1 DEF DeleteRecord, RestoreRecord
<1>5. ASSUME NEW d \in Databases, DeleteDatabase(d) \/ RestoreDatabase(d) PROVE RecordInv'
  <2>1. Databases' = Databases /\ Records' = Records
    BY <1>5 DEF DeleteDatabase, RestoreDatabase, Databases, Records, RecordTypeOK, InTrash
  <2> QED
    BY <1>5, <2>1 DEF DeleteDatabase, RestoreDatabase, vars
<1>6. ASSUME NEW r \in Records, OpenRecordAsPage(r) PROVE RecordInv'
  BY <1>6, OpenKeeps
<1>7. CASE PurgeRequest \/ SweepAll
  <2>1. trashed \subseteq Page /\ Databases \subseteq Database /\ Records \subseteq Record
    BY DEF RecordTypeOK, TypeOK, Databases, Records
  <2> QED
    BY <1>7, <2>1, PurgeStarts, PurgeKeeps
<1>8. CASE AllRetentionPasses
  <2>1. Databases' = Databases /\ Records' = Records
    BY <1>8 DEF AllRetentionPasses, Databases, Records, RecordTypeOK, InTrash
  <2> QED
    BY <1>8, <2>1 DEF AllRetentionPasses
<1>9. CASE UNCHANGED recordVars
  BY <1>9 DEF recordVars, rowVars, vars, Databases, Records
<1> QED
  BY <1>1, <1>2, <1>3, <1>4, <1>5, <1>6, <1>7, <1>8, <1>9 DEF RecordNext, RowRequest

(* No purge leaves a database without its host page or a record without    *)
(* its database, whatever else shares their tree.                          *)
THEOREM NoOrphans == RecordSpec => []NoOrphanRows
<1>1. RecordInv => NoOrphanRows
  BY DEF RecordInv
<1> QED
  BY <1>1, RecordInvInit, RecordInvNext, RecordTypeCorrect, PTL DEF RecordSpec

(* The page made for a row goes when the row goes.                         *)
THEOREM NoGhosts == RecordSpec => []NoGhostPage
<1>1. RecordInv => NoGhostPage
  BY DEF RecordInv
<1> QED
  BY <1>1, RecordInvInit, RecordInvNext, RecordTypeCorrect, PTL DEF RecordSpec

(* A row that has a page is never given another.                           *)
THEOREM OnePageEach == RecordSpec => []OneBackingPage
<1>1. RecordInv => OneBackingPage
  BY DEF RecordInv
<1> QED
  BY <1>1, RecordInvInit, RecordInvNext, RecordTypeCorrect, PTL DEF RecordSpec

-----------------------------------------------------------------------------
(* What a purge may take from the sidebar.                                 *)

LEMMA VisibleHangs ==
  ASSUME NEW q \in Visible
  PROVE  q \in stored /\ q \notin trashed /\ parent[q] \in Visible \union {NoPage}
  BY BelowClosed, BelowHangs DEF Visible, LiveBelow, Live

(* The lost page is reached from what was purged by a chain of parents,    *)
(* databases and rows.  Whatever set the chain cannot leave holds all of   *)
(* it: the pages below lost rows' pages and those not shown, for the       *)
(* second part; the pages not shown alone, if no row off every screen lost *)
(* a page, for the first.                                                  *)
LEMMA PurgeSpares ==
  ASSUME RecordTypeOK, NEW ps \in SUBSET trashed,
         NEW ds \in SUBSET {d \in Databases : db[d] # "live"},
         NEW rs \in SUBSET {r \in Records : row[r] # "live"},
         PurgeAll(ps, ds, rs), Visible \ stored' # {}
  PROVE  LET lost == Records \ Records' IN
         /\ \E r \in lost : ~RowOnScreen(r) /\ pageOf[r] \in stored \ stored'
         /\ \A q \in Visible \ stored' : \E r \in lost : q \in Subtree(pageOf[r])
<1> DEFINE lost  == Records \ Records'
           start == ps \union PagesOf(rs \union RowsOf(ds))
<1>1. /\ ps \in SUBSET Page /\ ds \in SUBSET Database /\ rs \in SUBSET Record
      /\ stored \subseteq Page
  BY DEF RecordTypeOK, TypeOK, Databases, Records
<1>2. PICK pages \in SUBSET Page, dbs \in SUBSET Database, rows \in SUBSET Record :
           /\ pages = PagesGone(start)
           /\ dbs = ds \union HostedBy(pages)
           /\ rows = rs \union RowsOf(dbs)
           /\ TakesRows(pages, dbs, rows)
  BY <1>1, PurgeTakes
<1>3. rows = lost /\ rs \subseteq lost /\ RowsOf(ds) \subseteq lost
  BY <1>2 DEF TakesRows, RowsOf
<1>4. Visible \ stored' = Visible \intersect pages
  BY <1>2, VisibleHangs DEF TakesRows, Remove
<1>5. start \subseteq pages
  <2>1. start \in SUBSET Page
    BY <1>1, PagesOfPages DEF RowsOf, Records
  <2> QED
    BY <1>2, <2>1, GoneClosed
<1>6. /\ \A q \in stored : parent[q] \in pages => q \in pages
      /\ \A C \in SUBSET pages : RowsOf(HostedBy(C)) \subseteq lost
      /\ \A C \in SUBSET pages : PagesOf(RowsOf(HostedBy(C))) \subseteq pages
  BY <1>2, <1>3 DEF TakesRows, Follows, RowsOf, HostedBy, PagesOf
<1>7. ASSUME NEW q \in stored, parent[q] \in pages \ Visible PROVE q \in pages \ Visible
  BY <1>2, <1>6, <1>7, VisibleHangs, NoPageAssumption
<1>8. ps \intersect Visible = {}
  BY VisibleHangs
<1> HIDE DEF lost
<1>9. ASSUME NEW q \in Visible \intersect pages PROVE \E r \in lost : q \in Subtree(pageOf[r])
  <2> DEFINE D == {c \in pages : c \notin Visible \/ \E r \in lost : c \in Subtree(pageOf[r])}
  <2>1. \A R \in SUBSET lost : PagesOf(R) \subseteq pages => PagesOf(R) \subseteq D
    BY DEF PagesOf, Subtree
  <2>2. start \subseteq D
    <3>1. rs \union RowsOf(ds) \in SUBSET lost
      BY <1>3
    <3> QED
      BY <1>5, <1>8, <2>1, <3>1
  <2>3. ASSUME NEW c \in stored, parent[c] \in D PROVE c \in D
    <3>1. c \in pages
      BY <1>6, <2>3
    <3>2. CASE parent[c] \notin Visible
      BY <1>7, <2>3, <3>2
    <3>3. ASSUME NEW r \in lost, parent[c] \in Subtree(pageOf[r]) PROVE c \in Subtree(pageOf[r])
      BY <3>3, SubtreeClosedDown DEF ClosedDown
    <3> QED
      BY <2>3, <3>1, <3>2, <3>3
  <2>4. D \in SUBSET pages /\ D \in SUBSET Page
    BY <1>2
  <2>5. Follows(D)
    BY <1>6, <2>1, <2>3, <2>4 DEF Follows
  <2>6. q \in D
    BY <1>2, <2>2, <2>4, <2>5, GoneLeast
  <2> QED
    BY <2>6
<1>10. \E r \in lost : ~RowOnScreen(r) /\ pageOf[r] \in stored \ stored'
  <2>1. SUFFICES ASSUME \A r \in lost : RowOnScreen(r) \/ pageOf[r] \notin stored \ stored'
                 PROVE  FALSE
    OBVIOUS
  <2> DEFINE C == pages \ Visible
  <2>2. ASSUME NEW R \in SUBSET lost, \A r \in R : ~RowOnScreen(r), PagesOf(R) \subseteq pages
        PROVE  PagesOf(R) \subseteq C
    <3>1. stored \ stored' = stored \intersect pages
      BY <1>2 DEF TakesRows, Remove
    <3> QED
      BY <2>1, <2>2, <3>1, VisibleHangs DEF PagesOf
  <2>3. start \subseteq C
    <3>1. \A r \in rs \union RowsOf(ds) : ~RowOnScreen(r)
      BY DEF RowOnScreen, OnScreen, RowsOf
    <3>2. rs \union RowsOf(ds) \in SUBSET lost
      BY <1>3
    <3> QED
      BY <1>5, <1>8, <2>2, <3>1, <3>2
  <2>4. PagesOf(RowsOf(HostedBy(C))) \subseteq C
    <3>1. \A r \in RowsOf(HostedBy(C)) : ~RowOnScreen(r)
      BY DEF RowOnScreen, OnScreen, RowsOf, HostedBy
    <3>2. C \in SUBSET pages
      OBVIOUS
    <3>3. RowsOf(HostedBy(C)) \in SUBSET lost /\ PagesOf(RowsOf(HostedBy(C))) \subseteq pages
      BY <1>6, <3>2
    <3> QED
      BY <2>2, <3>1, <3>3
  <2>5. Follows(C)
    BY <1>7, <2>4 DEF Follows
  <2>6. pages \subseteq C
    BY <1>2, <2>3, <2>5, GoneLeast
  <2> QED
    BY <1>4, <2>6
<1> QED
  BY <1>4, <1>9, <1>10 DEF lost

LEMMA StepSpares ==
  ASSUME RecordTypeOK, RecordNext, Visible \ stored' # {}
  PROVE  PurgeRequest \/ SweepAll
<1> SUFFICES ASSUME ~(PurgeRequest \/ SweepAll) PROVE stored \subseteq stored'
  BY VisibleHangs
<1> QED
  BY DEF RecordNext, PageRequest, RowRequest, CreatePage, MovePage, DeletePage, RestorePage,
         CreateDatabase, CreateRecord, DeleteRecord, RestoreRecord, DeleteDatabase,
         RestoreDatabase, OpenRecordAsPage, MakePage, AllRetentionPasses, vars

(* A purge takes a page from the sidebar only below the page of a row that *)
(* goes with it, and the chain to it starts at a row on no screen.         *)
THEOREM VisibleSpared == RecordSpec => PurgeSparesVisible
<1> DEFINE Spared == LET lost == Records \ Records' IN
              Visible \ stored' # {} =>
                /\ \E r \in lost : ~RowOnScreen(r) /\ pageOf[r] \in stored \ stored'
                /\ \A q \in Visible \ stored' : \E r \in lost : q \in Subtree(pageOf[r])
<1>1. RecordTypeOK /\ [RecordNext]_recordVars => [Spared]_recordVars
  <2> SUFFICES ASSUME RecordTypeOK, RecordNext, Visible \ stored' # {} PROVE Spared
    OBVIOUS
  <2>1. PurgeRequest \/ SweepAll
    BY StepSpares
  <2>2. PICK ps \in SUBSET trashed, ds \in SUBSET {d \in Databases : db[d] # "live"},
             rs \in SUBSET {r \in Records : row[r] # "live"} : PurgeAll(ps, ds, rs)
    BY <2>1, PurgeStarts
  <2> QED
    BY <2>2, PurgeSpares
<1> QED
  BY <1>1, RecordTypeCorrect, PTL DEF RecordSpec, PurgeSparesVisible

-----------------------------------------------------------------------------
(* What an export is read as, as far as it matters here: finitely many     *)
(* things become pages, each under a key of the ledger.                    *)
KeysOf(x) == {x.key[i] : i \in DOMAIN x.above}

LEMMA PagesAreItems ==
  ASSUME NEW e \in Exports
  PROVE  Pages(e) \subseteq Item /\ IsFiniteSet(Pages(e))
<1>1. /\ Sources(e) \subseteq Item /\ e.dbs \subseteq Item
  BY ExportsAssumption DEF Sources
<1>2. Regular(e) \subseteq Sources(e) /\ BelowRows(e) \subseteq Sources(e)
  BY DEF Regular, BelowRows
<1>3. RowFiles(e) \subseteq Sources(e) /\ RowFolders(e) \subseteq Item
  BY DEF RowFiles, RowFolders
<1>6. FileRows(e) \subseteq RowFiles(e) /\ FolderRows(e) \subseteq RowFolders(e)
  BY DEF FileRows, FolderRows
<1>4. Wrapped(e) \subseteq Item
  BY <1>1 DEF Wrapped, Tables
<1>5. Pages(e) \subseteq Item
  BY <1>1, <1>2, <1>3, <1>4, <1>6 DEF Pages
<1> QED
  BY <1>5, FS_Subset, FiniteAssumption

LEMMA KeysRead ==
  ASSUME NEW e \in Exports
  PROVE  /\ DOMAIN Reading[e].above = Pages(e)
         /\ KeysOf(Reading[e]) \subseteq PageKey
         /\ IsFiniteSet(KeysOf(Reading[e]))
<1> DEFINE x == Reading[e]
<1>1. x.above = Above(e) /\ x.key = KeyOf(e)
  BY DEF Reading
<1>2. DOMAIN Above(e) = Pages(e)
  BY DEF Above
<1>3. DOMAIN KeyOf(e) = Pages(e)
  BY DEF KeyOf
<1>4. KeysOf(x) = Range(x.key)
  BY <1>1, <1>2, <1>3 DEF KeysOf, Range
<1>5. [i \in Pages(e) |-> x.key[i]] \in Surjection(Pages(e), KeysOf(x))
  BY <1>1, <1>2 DEF KeysOf, Surjection
<1>6. IsFiniteSet(KeysOf(x))
  BY <1>5, PagesAreItems, FS_Surjection
<1> QED
  BY <1>1, <1>2, <1>4, <1>6 DEF PageKey

\* Of a run: the ids the ledger has, and new ones, no two alike.
LEMMA SmallerFits ==
  ASSUME NEW S, NEW T, IsFiniteSet(S), IsFiniteSet(T), Cardinality(S) <= Cardinality(T)
  PROVE  Injection(S, T) # {}
<1> DEFINE m == Cardinality(S)
           n == Cardinality(T)
<1>1. m \in Nat /\ n \in Nat
  BY FS_CardinalityType
<1>2. PICK f : f \in Bijection(1..m, S)
  BY FS_CardinalityType DEF ExistsBijection
<1>3. PICK g : g \in Bijection(1..n, T)
  BY FS_CardinalityType DEF ExistsBijection
<1>4. /\ f \in [1..m -> S] /\ \A s \in S : \E i \in 1..m : f[i] = s
      /\ g \in [1..n -> T] /\ \A i, j \in 1..n : g[i] = g[j] => i = j
  BY <1>2, <1>3 DEF Bijection, Injection, Surjection, IsInjective
<1> DEFINE at(s) == CHOOSE i \in 1..m : f[i] = s
           into == [s \in S |-> g[at(s)]]
<1>5. \A s \in S : at(s) \in 1..m /\ f[at(s)] = s
  BY <1>4
<1> HIDE DEF at
<1>6. \A s \in S : at(s) \in 1..n
  BY <1>1, <1>5
<1>7. into \in [S -> T]
  BY <1>4, <1>6
<1>8. \A s, t \in S : into[s] = into[t] => s = t
  BY <1>4, <1>5, <1>6
<1>9. into \in Injection(S, T)
  BY <1>7, <1>8 DEF Injection, IsInjective
<1> QED
  BY <1>9

Resolves(known, ids, keys, none, free) ==
  /\ DOMAIN ids = DOMAIN known
  /\ \A k \in DOMAIN known : known[k] # none \/ k \notin keys => ids[k] = known[k]
  /\ \A k \in keys : known[k] = none => ids[k] \in free
  /\ \A k, l \in keys : known[k] = none /\ known[l] = none /\ ids[k] = ids[l] => k = l

LEMMA ResolvedResolves ==
  ASSUME NEW known, NEW keys, NEW none, NEW free,
         keys \subseteq DOMAIN known, IsFiniteSet(keys), IsFiniteSet(free),
         NEW ids \in Resolved(known, keys, none, free)
  PROVE  Resolves(known, ids, keys, none, free)
<1> DEFINE lacking == {k \in keys : known[k] = none}
           new == CHOOSE f \in Injection(lacking, free) : TRUE
<1>1. IsFiniteSet(lacking)
  BY FS_Subset
<1>2. Cardinality(lacking) \in Nat /\ Cardinality(free) \in Nat
  BY <1>1, FS_CardinalityType
<1>3. ~(Cardinality(lacking) > Cardinality(free))
  BY DEF Resolved
<1>4. Injection(lacking, free) # {}
  BY <1>1, <1>2, <1>3, SmallerFits
<1>5. new \in Injection(lacking, free)
  BY <1>4
<1>6. ids = [k \in DOMAIN known |-> IF k \in lacking THEN new[k] ELSE known[k]]
  BY <1>3 DEF Resolved
<1> HIDE DEF new
<1>7. new \in [lacking -> free] /\ \A k, l \in lacking : new[k] = new[l] => k = l
  BY <1>5 DEF Injection, IsInjective
<1> QED
  BY <1>6, <1>7 DEF Resolves

-----------------------------------------------------------------------------
(* A run, as far as the ledger goes: it stores pages for its ids, leaves   *)
(* the others alone, and forgets the ids of the pages it prunes.           *)
RunWrites(keys, pageId, ids, gone) ==
  /\ gone \subseteq ids
  /\ unused' = unused \ ids
  /\ stored' = (stored \union (ids \intersect unused)) \ gone
  /\ trashed' = trashed \ ids
  /\ ledger' = [k \in PageKey |-> IF pageId[k] \in gone THEN NoPage ELSE pageId[k]]
  /\ claimed' = {k \in keys : pageId[k] \notin gone}
  /\ cameFrom' = [p \in Page |-> cameFrom'[p]]
  /\ \A p \in Page \ ids : /\ parent'[p] = parent[p] /\ text'[p] = text[p]
                           /\ cameFrom'[p] = cameFrom[p]
  /\ \A p \in (Page \intersect ids) \ gone : \E k \in keys : pageId[k] = p /\ cameFrom'[p] = k

LEMMA PrunedIsOfTheRun ==
  ASSUME NEW ids, NEW known, NEW up, NEW held, NEW hosts, NEW backs
  PROVE  Pruned(ids, known, up, held, hosts, backs) \subseteq ids
  BY DEF Pruned

LEMMA RunsWrite ==
  ASSUME NEW x, NEW pageId, NEW dbId, NEW rowId, ImportAs(x, pageId, dbId, rowId)
  PROVE  \E gone : RunWrites(KeysOf(x), pageId, {pageId[k] : k \in KeysOf(x)}, gone)
<1> DEFINE
      keys == {x.key[i] : i \in DOMAIN x.above}
      ids == {pageId[k] : k \in keys}
      item(p) == CHOOSE i \in DOMAIN x.above : pageId[x.key[i]] = p
      known == stored \union (ids \intersect unused)
      page(i)  == IF i = Root THEN NoPage ELSE pageId[x.key[i]]
      csv(d)   == {t \in DOMAIN x.host : dbId[x.path[t]] = d}
      title(r) == {t \in DOMAIN x.table : rowId[x.path[t]] = r}
      up    == [p \in Page |-> IF p \in ids \intersect known
                               THEN Placed(parent[p], page(x.above[item(p)])) ELSE parent[p]]
      held  == [p \in Page |-> IF p \in ids /\ item(p) \in x.replaced
                               THEN IF item(p) \in x.kept THEN "export" ELSE "none"
                               ELSE text[p]]
      hosts == [d \in Database |-> IF csv(d) # {} /\ db[d] # "gone"
                               THEN page(x.host[CHOOSE t \in csv(d) : TRUE]) ELSE host[d]]
      backs == [r \in Record |-> IF title(r) \intersect x.backed # {} /\ row[r] # "gone"
                               THEN page(CHOOSE t \in title(r) : TRUE) ELSE pageOf[r]]
      gone  == Pruned(ids, known, up, held, hosts, backs)
<1>1. \A p \in ids : item(p) \in DOMAIN x.above /\ pageId[x.key[item(p)]] = p
  OBVIOUS
<1>2. /\ unused' = unused \ ids
      /\ stored' = known \ gone
      /\ parent' = [p \in Page |-> IF p \in gone THEN NoPage ELSE up[p]]
      /\ text' = held
      /\ trashed' = Untrashed(ids)
      /\ ledger' = Remembered(pageId, keys, gone)
      /\ claimed' = {k \in keys : pageId[k] \notin gone}
      /\ cameFrom' = [p \in Page |-> IF p \in ids \ gone THEN x.key[item(p)]
                                     ELSE IF p \in gone THEN NoKey ELSE cameFrom[p]]
  <2>1. \E g \in {gone} :
          /\ unused' = unused \ ids
          /\ stored' = known \ g
          /\ parent' = [p \in Page |-> IF p \in g THEN NoPage ELSE up[p]]
          /\ text' = held
          /\ trashed' = Untrashed(ids)
          /\ ledger' = Remembered(pageId, keys, g)
          /\ claimed' = {k \in keys : pageId[k] \notin g}
          /\ cameFrom' = [p \in Page |-> IF p \in ids \ g THEN x.key[item(p)]
                                         ELSE IF p \in g THEN NoKey ELSE cameFrom[p]]
    BY Zenon DEF ImportAs
  <2> HIDE DEF gone, up, held, item, ids, keys, known
  <2> QED
    BY <2>1
<1>5. \A p \in Page \ ids : up[p] = parent[p] /\ held[p] = text[p]
  <2> HIDE DEF ids, item, known
  <2> QED
    OBVIOUS
<1>6. gone \subseteq ids
  BY PrunedIsOfTheRun, Zenon
<1> HIDE DEF item, ids, keys, up, held, gone
<1>3. \A p \in (Page \intersect ids) \ gone :
        x.key[item(p)] \in KeysOf(x) /\ pageId[x.key[item(p)]] = p /\ cameFrom'[p] = x.key[item(p)]
  BY <1>1, <1>2, <1>6 DEF KeysOf, keys
<1>4. \A p \in Page \ ids : /\ parent'[p] = parent[p] /\ text'[p] = text[p]
                          /\ cameFrom'[p] = cameFrom[p]
  BY <1>2, <1>5, <1>6
<1>7. RunWrites(KeysOf(x), pageId, ids, gone)
  BY <1>2, <1>3, <1>4, <1>6 DEF RunWrites, Remembered, Untrashed, KeysOf, keys
<1> QED
  BY <1>7 DEF KeysOf, ids, keys

-----------------------------------------------------------------------------
(* Every page made for a key is the one the ledger has for it, as long as  *)
(* it is stored; no two keys share an id; ids not drawn yet are nobody's.  *)
LedgerInv ==
  /\ unused \subseteq Page
  /\ stored \subseteq Page \ unused
  /\ ledger \in [PageKey -> OptPage]
  /\ \A k \in PageKey : ledger[k] \notin unused
  /\ \A k, l \in PageKey : ledger[k] = ledger[l] /\ ledger[k] # NoPage => k = l
  /\ DOMAIN cameFrom = Page
  /\ \A p \in unused : cameFrom[p] = NoKey
  /\ \A p \in stored : cameFrom[p] # NoKey =>
       cameFrom[p] \in PageKey /\ ledger[cameFrom[p]] = p

LEMMA LedgerInit == ImportInit => LedgerInv
  BY NoPageAssumption DEF ImportInit, RecordInit, Init, LedgerInv, OptPage

\* What users do draws new ids at most.
LEMMA UsersDraw ==
  ASSUME UserRequest \/ \E p \in Visible : Write(p)
  PROVE  unused' \subseteq unused /\ stored' \subseteq stored \union (unused \ unused')
<1>1. ASSUME PageRequest PROVE unused' \subseteq unused /\ stored' \subseteq stored \union (unused \ unused')
  BY <1>1 DEF PageRequest, CreatePage, MovePage, DeletePage, RestorePage
<1>2. ASSUME NEW r, OpenRecordAsPage(r)
      PROVE  unused' \subseteq unused /\ stored' \subseteq stored \union (unused \ unused')
  BY <1>2 DEF OpenRecordAsPage, MakePage, CreatePage
<1>3. ASSUME NEW r, DeleteRecord(r) \/ RestoreRecord(r)
      PROVE  unused' \subseteq unused /\ stored' \subseteq stored \union (unused \ unused')
  BY <1>3 DEF DeleteRecord, RestoreRecord
<1>4. ASSUME PurgeRequest PROVE unused' \subseteq unused /\ stored' \subseteq stored \union (unused \ unused')
  BY <1>4 DEF PurgeRequest, PurgePageDeep, PurgeDatabase, PurgeRecord, PurgeAll, Remove
<1>5. ASSUME NEW p, Write(p) PROVE unused' \subseteq unused /\ stored' \subseteq stored \union (unused \ unused')
  BY <1>5 DEF Write, recordVars, vars
<1> QED
  BY <1>1, <1>2, <1>3, <1>4, <1>5 DEF UserRequest

LEMMA UsersKeepTheLedger ==
  ASSUME UserRequest \/ \E p \in Visible : Write(p)
  PROVE  UNCHANGED ledgerVars
  BY DEF UserRequest, Write

\* The ids of a run: those the ledger knows are old, the others are new.
RunIds(keys, pageId) ==
  /\ keys \subseteq PageKey
  /\ Resolves(ledger, pageId, keys, NoPage, unused)

LEMMA ImportsRun ==
  ASSUME LedgerInv, NEW e \in Exports, Import(e)
  PROVE  \E pageId, gone :
           /\ RunIds(KeysOf(Reading[e]), pageId)
           /\ RunWrites(KeysOf(Reading[e]), pageId, {pageId[k] : k \in KeysOf(Reading[e])}, gone)
<1> DEFINE x == Reading[e]
<1>1. PICK pageId \in Resolved(ledger, KeysOf(x), NoPage, unused) :
        \E dbId, rowId : ImportAs(x, pageId, dbId, rowId)
  BY Zenon DEF Import, KeysOf
<1>2. KeysOf(x) \subseteq PageKey /\ IsFiniteSet(KeysOf(x))
  BY KeysRead
<1>3. DOMAIN ledger = PageKey /\ IsFiniteSet(unused)
  BY FS_Subset, FiniteAssumption DEF LedgerInv
<1>4. Resolves(ledger, pageId, KeysOf(x), NoPage, unused)
  <2> HIDE DEF x
  <2> QED
    BY <1>2, <1>3, ResolvedResolves
<1>5. PICK gone : RunWrites(KeysOf(x), pageId, {pageId[k] : k \in KeysOf(x)}, gone)
  BY <1>1, RunsWrite, Zenon
<1> QED
  BY <1>2, <1>4, <1>5, Zenon DEF RunIds

\* The ids of a run are no two keys' own.
LEMMA IdsApart ==
  ASSUME LedgerInv, NEW keys, NEW pageId, RunIds(keys, pageId)
  PROVE  /\ DOMAIN pageId = PageKey
         /\ \A k \in PageKey : /\ pageId[k] \in OptPage
                               /\ ledger[k] # NoPage => pageId[k] = ledger[k]
                               /\ k \notin keys => pageId[k] = ledger[k]
         /\ \A k \in keys : pageId[k] \in Page
         /\ \A k \in keys : pageId[k] \in unused \/ pageId[k] = ledger[k]
         /\ \A k, l \in PageKey : pageId[k] = pageId[l] /\ pageId[k] # NoPage => k = l
<1>1. /\ DOMAIN ledger = PageKey /\ keys \subseteq PageKey /\ unused \subseteq Page
      /\ \A k \in PageKey : ledger[k] \in OptPage /\ ledger[k] \notin unused
  BY DEF LedgerInv, RunIds
<1>2. \A k \in PageKey : ledger[k] # NoPage \/ k \notin keys => pageId[k] = ledger[k]
  BY <1>1 DEF RunIds, Resolves
<1>3. \A k \in keys : ledger[k] = NoPage => pageId[k] \in unused
  BY DEF RunIds, Resolves
<1>4. \A k \in keys : pageId[k] \in Page
  BY <1>1, <1>2, <1>3, NoPageAssumption DEF OptPage
<1>5. ASSUME NEW k \in PageKey, NEW l \in PageKey, pageId[k] = pageId[l], pageId[k] # NoPage
      PROVE  k = l
  <2>1. CASE ledger[k] = NoPage
    <3>1. k \in keys /\ pageId[k] \in unused
      BY <2>1, <1>2, <1>3, <1>5
    <3>2. l \in keys /\ ledger[l] = NoPage
      BY <3>1, <1>1, <1>2, <1>5
    <3> QED
      BY <3>1, <3>2, <2>1, <1>5 DEF RunIds, Resolves
  <2>2. CASE ledger[k] # NoPage
    <3>1. pageId[k] = ledger[k]
      BY <2>2, <1>2
    <3>2. pageId[l] = ledger[l]
      BY <3>1, <1>1, <1>2, <1>3, <1>5
    <3> QED
      BY <3>1, <3>2, <1>5 DEF LedgerInv
  <2> QED
    BY <2>1, <2>2
<1>6. DOMAIN pageId = PageKey
  BY <1>1 DEF RunIds, Resolves
<1> QED
  BY <1>1, <1>2, <1>3, <1>4, <1>5, <1>6 DEF OptPage

LEMMA RunKeepsLedger ==
  ASSUME LedgerInv, NEW keys, NEW pageId, NEW gone, RunIds(keys, pageId),
         RunWrites(keys, pageId, {pageId[k] : k \in keys}, gone)
  PROVE  LedgerInv'
<1> DEFINE ids == {pageId[k] : k \in keys}
<1>1. /\ ids \subseteq Page /\ gone \subseteq ids /\ keys \subseteq PageKey
      /\ \A k \in keys : pageId[k] \in ids
      /\ \A q \in ids : \E k \in keys : pageId[k] = q
  BY IdsApart DEF RunWrites, RunIds
<1> HIDE DEF ids
<1>2. /\ unused' = unused \ ids
      /\ stored' = (stored \union (ids \intersect unused)) \ gone
      /\ ledger' = [k \in PageKey |-> IF pageId[k] \in gone THEN NoPage ELSE pageId[k]]
      /\ DOMAIN cameFrom' = Page
      /\ \A p \in Page \ ids : cameFrom'[p] = cameFrom[p]
      /\ \A p \in ids \ gone : \E k \in keys : pageId[k] = p /\ cameFrom'[p] = k
  BY <1>1 DEF RunWrites, ids
<1>3. unused' \subseteq Page /\ stored' \subseteq Page \ unused'
  BY <1>1, <1>2 DEF LedgerInv
<1>4. ledger' \in [PageKey -> OptPage]
  BY <1>2, IdsApart DEF OptPage
<1>5. ASSUME NEW k \in PageKey PROVE ledger'[k] \notin unused'
  BY <1>1, <1>2, IdsApart, NoPageAssumption DEF LedgerInv
<1>6. ASSUME NEW k \in PageKey, NEW l \in PageKey, ledger'[k] = ledger'[l], ledger'[k] # NoPage
      PROVE  k = l
  <2>1. ledger'[k] = pageId[k] /\ ledger'[l] = pageId[l]
    BY <1>2, <1>6
  <2>2. pageId[k] = pageId[l] /\ pageId[k] # NoPage
    BY <2>1, <1>6
  <2>3. \A i, j \in PageKey : pageId[i] = pageId[j] /\ pageId[i] # NoPage => i = j
    BY IdsApart
  <2> QED
    BY <2>2, <2>3
<1>7. \A p \in unused' : cameFrom'[p] = NoKey
  BY <1>2 DEF LedgerInv
<1>8. ASSUME NEW p \in stored', cameFrom'[p] # NoKey
      PROVE  cameFrom'[p] \in PageKey /\ ledger'[cameFrom'[p]] = p
  <2>1. p \in Page /\ p \notin gone /\ p # NoPage
    BY <1>2, <1>3, NoPageAssumption
  <2>2. CASE p \in ids
    BY <2>1, <2>2, <1>1, <1>2
  <2>3. CASE p \notin ids
    <3>1. p \in stored /\ cameFrom'[p] = cameFrom[p]
      BY <2>1, <2>3, <1>2
    <3>2. cameFrom[p] \in PageKey /\ ledger[cameFrom[p]] = p
      BY <3>1, <1>8 DEF LedgerInv
    <3>3. pageId[cameFrom[p]] = p
      BY <3>2, <2>1, IdsApart
    <3> QED
      BY <3>1, <3>2, <3>3, <2>1, <1>2
  <2> QED
    BY <2>2, <2>3
<1> QED
  BY <1>2, <1>3, <1>4, <1>5, <1>6, <1>7, <1>8 DEF LedgerInv

LEMMA LedgerNext == LedgerInv /\ [ImportNext]_importVars => LedgerInv'
<1> SUFFICES ASSUME LedgerInv, [ImportNext]_importVars PROVE LedgerInv'
  OBVIOUS
<1>1. ASSUME NEW e \in Exports, Import(e) PROVE LedgerInv'
  <2>1. PICK pageId, gone :
           /\ RunIds(KeysOf(Reading[e]), pageId)
           /\ RunWrites(KeysOf(Reading[e]), pageId, {pageId[k] : k \in KeysOf(Reading[e])}, gone)
    BY <1>1, ImportsRun, Zenon
  <2> QED
    BY <2>1, RunKeepsLedger, Zenon
<1>2. CASE UserRequest \/ \E p \in Visible : Write(p)
  <2>1. unused' \subseteq unused /\ stored' \subseteq stored \union (unused \ unused')
    BY <1>2, UsersDraw
  <2>2. ledger' = ledger /\ cameFrom' = cameFrom
    BY <1>2, UsersKeepTheLedger DEF ledgerVars
  <2> QED
    BY <2>1, <2>2 DEF LedgerInv
<1>3. CASE UNCHANGED importVars
  <2>1. unused' = unused /\ stored' = stored /\ ledger' = ledger /\ cameFrom' = cameFrom
    BY <1>3 DEF importVars, recordVars, vars, ledgerVars
  <2> QED
    BY <2>1 DEF LedgerInv
<1> QED
  BY <1>1, <1>2, <1>3 DEF ImportNext

(* However often exports are imported, and whatever users move, trash,     *)
(* restore, purge and write in between, there is one page for each thing   *)
(* of the exports (ledger.ts).                                             *)
THEOREM OneCopyEach == ImportSpec => []OneCopy
<1>1. LedgerInv => OneCopy
  BY DEF LedgerInv, OneCopy
<1> QED
  BY <1>1, LedgerInit, LedgerNext, PTL DEF ImportSpec

\* What a run updates is what it claims or forgets.
LEMMA RunSpares ==
  ASSUME LedgerInv, NEW keys, NEW pageId, NEW gone, RunIds(keys, pageId),
         RunWrites(keys, pageId, {pageId[k] : k \in keys}, gone),
         NEW p \in stored \ Targets
  PROVE  /\ p \in stored'
         /\ parent'[p] = parent[p] /\ text'[p] = text[p]
         /\ p \in trashed' <=> p \in trashed
<1> DEFINE ids == {pageId[k] : k \in keys}
<1>1. p \in Page /\ p \notin unused /\ p # NoPage
  BY NoPageAssumption DEF LedgerInv
<1>2. ASSUME p \in ids PROVE FALSE
  <2>1. PICK k \in keys : pageId[k] = p
    BY <1>2
  <2>2. k \in PageKey /\ ledger[k] = p
    BY <2>1, <1>1, IdsApart DEF RunIds
  <2>3. CASE p \in gone
    BY <2>1, <2>2, <2>3, <1>1 DEF RunWrites, Targets
  <2>4. CASE p \notin gone
    BY <2>1, <2>2, <2>4 DEF RunWrites, Targets
  <2> QED
    BY <2>3, <2>4
<1> QED
  BY <1>1, <1>2 DEF RunWrites

(* An import leaves alone what is not in its export: pages of users and    *)
(* pages of other exports keep their place, their text and their trash     *)
(* (the run in notion.ts writes through the ledger's ids alone).           *)
THEOREM OthersAreSpared == ImportSpec => ImportSparesOthers
<1> DEFINE Spared == Ran => \A p \in stored \ Targets :
             /\ p \in stored'
             /\ <<parent[p], text[p], p \in trashed>>' = <<parent[p], text[p], p \in trashed>>
<1>1. LedgerInv /\ [ImportNext]_importVars => [Spared]_importVars
  <2> SUFFICES ASSUME LedgerInv, ImportNext, Ran PROVE Spared
    OBVIOUS
  <2>1. PICK e \in Exports : Import(e)
    <3>1. ASSUME UserRequest \/ \E p \in Visible : Write(p) PROVE FALSE
      BY <3>1, UsersKeepTheLedger DEF ledgerVars, Ran
    <3> QED
      BY <3>1 DEF ImportNext
  <2>2. PICK pageId, gone :
           /\ RunIds(KeysOf(Reading[e]), pageId)
           /\ RunWrites(KeysOf(Reading[e]), pageId, {pageId[k] : k \in KeysOf(Reading[e])}, gone)
    BY <2>1, ImportsRun, Zenon
  <2>3. ASSUME NEW p \in stored \ Targets
        PROVE  /\ p \in stored'
               /\ parent'[p] = parent[p] /\ text'[p] = text[p]
               /\ p \in trashed' <=> p \in trashed
    BY <2>2, <2>3, RunSpares, Zenon
  <2> QED
    BY <2>3
<1> QED
  BY <1>1, LedgerInit, LedgerNext, PTL DEF ImportSpec, ImportSparesOthers

=============================================================================
