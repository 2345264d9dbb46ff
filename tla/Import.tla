-------------------------------- MODULE Import --------------------------------
(***************************************************************************)
(* Reading a Notion export into a workspace, again and again               *)
(* (packages/server/src/import/notion.ts and ledger.ts).                   *)
(*                                                                         *)
(* An export is a tree of page files, CSV files and folders.  A ledger     *)
(* remembers what each of its things became here, so that the next import  *)
(* updates rows where the first one made them.  In between, users move,    *)
(* trash, restore, purge and rewrite what was imported.                    *)
(*                                                                         *)
(* A run is one transaction.  A path is an item and the item whose folder  *)
(* it lies in; blocks are what a page holds, if anything.                  *)
(***************************************************************************)
EXTENDS RecordPages, Sequences, Functions

CONSTANTS Item,       \* page files, CSV files and row titles of the exports
          Root,       \* the top folder of an export
          NoKey,      \* no key of the ledger
          Exports,    \* the exports users have
          MaxImports, \* bounds on runs, and on what users do around them
          MaxRequests

\* An export: page files, CSV files and their row titles, the item whose
\* folder a thing lies in, files with text, and the tables a file shows.
ASSUME ExportsAssumption ==
  /\ Root \notin Item
  /\ \A e \in Exports :
       /\ e.pages \subseteq Item /\ e.dbs \subseteq Item /\ e.body \subseteq Item
       /\ e.rows \in [e.dbs -> SUBSET Item]
       /\ e.within \in [Item -> Item \union {Root}]
       /\ e.refs \subseteq e.pages \X Item

\* Exports are finite, and so is what there is of ids.
ASSUME FiniteAssumption == IsFiniteSet(Item) /\ IsFiniteSet(Page)

VARIABLES
  ledger,    \* import_ledger, kind "page": local_id of a key
  dbLedger,  \* kind "database": by CSV path
  rowLedger, \* kind "record": by the table's path and the title
  claimed,   \* page keys whose last_run_id is the last run's
  text,      \* blocks of a page
  cameFrom,  \* history: the key a page was made for
  imports,   \* runs so far
  requests   \* what users have done so far

ledgerVars == <<ledger, dbLedger, rowLedger, claimed, cameFrom, imports>>
importVars == <<recordVars, ledgerVars, text, requests>>

-----------------------------------------------------------------------------
(* What an export is read as.                                              *)

Inside(e, i) == Below(e.within, Item, i)

\* A page file that stands in for a CSV file is no page.
Sources(e) == e.pages \ e.dbs

\* A CSV file without a row below its header is skipped.
Tables(e) == {d \in e.dbs : e.rows[d] # {}}

\* Files in a table's folder, folders there with a file somewhere below, and
\* the files below those.
RowFiles(e)   == {f \in Sources(e) : e.within[f] \in e.dbs}
RowFolders(e) == {i \in Item : e.within[i] \in e.dbs /\ Inside(e, i) \intersect Sources(e) # {}}
BelowRows(e)  == (Sources(e) \intersect UNION {Inside(e, i) : i \in RowFolders(e)}) \ RowFiles(e)
Regular(e)    == Sources(e) \ (RowFiles(e) \union BelowRows(e))

\* Files that show one of the tables ds, and the blocks a file has.
Showing(e, ds) == {f \in Sources(e) : \E d \in ds : <<f, d>> \in e.refs}
Written(e)     == e.body \union Showing(e, Item)

\* Rows that get a page: those with a file that has blocks or a folder, and
\* those with a folder only.
Rows(e)       == UNION {e.rows[d] : d \in Tables(e)}
FileRows(e)   == Rows(e) \intersect RowFiles(e) \intersect (Written(e) \union RowFolders(e))
FolderRows(e) == (Rows(e) \intersect RowFolders(e)) \ FileRows(e)

\* The things whose folders lead to a page when the CSV files are read, which
\* is before the pages below rows.  A table gets a page of its own when no
\* file shows it and its folder leads nowhere.
Anchored(e) ==
  LET at[i \in Item \union {Root}] ==
        CASE i \in Regular(e) \union FileRows(e) \union FolderRows(e) -> TRUE
          [] i \in Tables(e) -> Showing(e, {i}) = {} /\ ~at[e.within[i]]
          [] OTHER -> FALSE
  IN {i \in Item : at[i]}

Wrapped(e) == Tables(e) \intersect Anchored(e)

HostItem(e, d) ==
  CASE d \in Wrapped(e) -> d
    [] d \notin Wrapped(e) /\ e.within[d] \in Anchored(e) -> e.within[d]
    [] OTHER -> Root

Pages(e) == UNION {Regular(e), Wrapped(e), FileRows(e), FolderRows(e), BelowRows(e)}

\* The page above each page: a regular file looks at its own folder only, a
\* file below a row at the nearest folder that leads to a page.
Above(e) ==
  LET nearest[i \in Item \union {Root}] ==
        IF i \in Pages(e) \union {Root} THEN i ELSE nearest[e.within[i]]
  IN [i \in Pages(e) |->
        CASE i \in Regular(e) /\ e.within[i] \in Regular(e) -> e.within[i]
          [] i \in BelowRows(e) -> nearest[e.within[i]]
          [] i \in FileRows(e) \union FolderRows(e) -> HostItem(e, e.within[i])
          [] OTHER -> Root]

\* Page files go by the id Notion gave them, all else by its path.
PathIn(e) ==
  LET path[i \in Item \union {Root}] ==
        IF i = Root THEN <<>> ELSE Append(path[e.within[i]], i)
  IN [i \in Item |-> path[i]]

KeyOf(e) ==
  [i \in Pages(e) |->
     CASE i \in Wrapped(e) -> <<"wrapper", PathIn(e)[i]>>
       [] i \in FileRows(e) -> <<"record", PathIn(e)[i]>>
       [] i \in FolderRows(e) -> <<"recordFolder", PathIn(e)[i]>>
       [] OTHER -> <<"page", <<i>>>>]

\* Every export as it is read: where its pages go and under which keys, the
\* tables, the page each is put on, the rows and those that have a page, the
\* pages whose blocks are replaced and those left with any, once references
\* to tables that were skipped are taken out.
Reading ==
  [e \in Exports |->
     [above    |-> Above(e),
      key      |-> KeyOf(e),
      path     |-> PathIn(e),
      host     |-> [d \in Tables(e) |-> HostItem(e, d)],
      table    |-> [r \in Rows(e) |-> e.within[r]],
      backed   |-> FileRows(e) \union FolderRows(e),
      replaced |-> UNION {Regular(e), FileRows(e), BelowRows(e)},
      kept     |-> e.body \union Showing(e, Tables(e))]]

PageKey  == UNION {Range(Reading[e].key) : e \in Exports}
TableKey == UNION {{Reading[e].path[d] : d \in DOMAIN Reading[e].host} : e \in Exports}
RowKey   == UNION {{Reading[e].path[r] : r \in DOMAIN Reading[e].table} : e \in Exports}

ImportTypeOK ==
  /\ RecordTypeOK
  /\ ledger \in [PageKey -> OptPage]
  /\ dbLedger \in [TableKey -> Database \union {NoRow}]
  /\ rowLedger \in [RowKey -> Record \union {NoRow}]
  /\ claimed \subseteq PageKey
  /\ text \in [Page -> {"none", "export", "user"}]
  /\ cameFrom \in [Page -> PageKey \union {NoKey}]
  /\ imports \in 0..MaxImports
  /\ requests \in 0..MaxRequests

ImportInit ==
  /\ RecordInit
  /\ ledger = [k \in PageKey |-> NoPage]
  /\ dbLedger = [d \in TableKey |-> NoRow]
  /\ rowLedger = [r \in RowKey |-> NoRow]
  /\ claimed = {}
  /\ text = [p \in Page |-> "none"]
  /\ cameFrom = [p \in Page |-> NoKey]
  /\ imports = 0
  /\ requests = 0

-----------------------------------------------------------------------------
(* The run.                                                                *)

\* resolve, for all keys of a run: the ids they have, and new ones for those
\* the ledger lacks, as long as there are any (none stands for no id).
Resolved(known, keys, none, free) ==
  LET lacking == {k \in keys : known[k] = none} IN
  IF Cardinality(lacking) > Cardinality(free) THEN {}
  ELSE LET new == CHOOSE f \in Injection(lacking, free) : TRUE IN
       {[k \in DOMAIN known |-> IF k \in lacking THEN new[k] ELSE known[k]]}

\* Mutant: every empty page of the workspace is looked at.
PrunedAnywhere(ids, table, up, held, hosts, backs) ==
  {p \in table : \A q \in {p} \union Below(up, table, p) :
     held[q] = "none" /\ \A d \in Database : hosts[d] # q /\ \A r \in Record : backs[r] # q}

\* The pages of this run that are empty, hold no table and belong to no row,
\* and have only such pages below them.
Pruned(ids, table, up, held, hosts, backs) ==
  {p \in ids \intersect table : \A q \in {p} \union Below(up, table, p) :
     /\ q \in ids
     /\ held[q] = "none"
     /\ \A d \in Database : hosts[d] # q
     /\ \A r \in Record : backs[r] # q}

\* Mutants: a page keeps its place when the export puts it at the top; what
\* is in the trash stays there; keys of earlier runs are forgotten.
PlacedUnlessTop(old, new) == IF new = NoPage THEN old ELSE new
LeftInTrash(ids) == trashed
RememberedOfThisRun(pageId, keys, gone) ==
  [k \in PageKey |-> IF k \notin keys \/ pageId[k] \in gone THEN NoPage ELSE pageId[k]]

\* What an UPDATE does to the row of a known page, and what the ledger keeps.
Placed(old, new) == new
Untrashed(ids)   == trashed \ ids
Remembered(pageId, keys, gone) ==
  [k \in PageKey |-> IF pageId[k] \in gone THEN NoPage ELSE pageId[k]]

ImportAs(x, pageId, dbId, rowId) ==
  LET
    items == DOMAIN x.above
    keys  == {x.key[i] : i \in items}
    ids   == {pageId[k] : k \in keys}
    table == stored \union (ids \intersect unused)
    \* An id in none of the tables is updated in vain.
    item(p)   == CHOOSE i \in items : pageId[x.key[i]] = p
    page(i)   == IF i = Root THEN NoPage ELSE pageId[x.key[i]]
    csv(d)    == {t \in DOMAIN x.host : dbId[x.path[t]] = d}
    title(r)  == {t \in DOMAIN x.table : rowId[x.path[t]] = r}
    up    == [p \in Page |-> IF p \in ids \intersect table THEN Placed(parent[p], page(x.above[item(p)])) ELSE parent[p]]
    held  == [p \in Page |-> IF p \in ids /\ item(p) \in x.replaced
                             THEN IF item(p) \in x.kept THEN "export" ELSE "none"
                             ELSE text[p]]
    dbs   == [d \in Database |-> IF csv(d) # {} /\ db[d] # "gone" THEN "live" ELSE db[d]]
    hosts == [d \in Database |-> IF csv(d) # {} /\ db[d] # "gone"
                                 THEN page(x.host[CHOOSE t \in csv(d) : TRUE]) ELSE host[d]]
    rows  == [r \in Record |-> IF title(r) # {} /\ row[r] # "gone" THEN "live" ELSE row[r]]
    backs == [r \in Record |-> IF title(r) \intersect x.backed # {} /\ row[r] # "gone"
                               THEN page(CHOOSE t \in title(r) : TRUE) ELSE pageOf[r]]
  IN
  \E gone \in {Pruned(ids, table, up, held, hosts, backs)} :
    /\ unused' = unused \ ids
    /\ stored' = table \ gone
    /\ parent' = [p \in Page |-> IF p \in gone THEN NoPage ELSE up[p]]
    /\ trashed' = Untrashed(ids)
    /\ trashedWith' = [p \in Page |-> IF p \in gone THEN NoPage ELSE trashedWith[p]]
    /\ deletedAt' = [p \in Page |-> IF p \in ids THEN "none" ELSE deletedAt[p]]
    /\ carried' = [p \in Page |-> IF p \in ids THEN {} ELSE carried[p]]
    /\ text' = held
    /\ db' = dbs /\ host' = hosts
    /\ row' = rows /\ pageOf' = backs
    /\ home' = [r \in Record |-> IF row[r] = "new" /\ title(r) # {}
                                 THEN dbId[x.path[x.table[CHOOSE t \in title(r) : TRUE]]] ELSE home[r]]
    /\ madeFor' = [p \in Page |-> IF p \in unused /\ \E r \in Record : backs[r] = p
                                  THEN CHOOSE r \in Record : backs[r] = p ELSE madeFor[p]]
    /\ ledger' = Remembered(pageId, keys, gone)
    /\ dbLedger' = dbId /\ rowLedger' = rowId
    /\ claimed' = {k \in keys : pageId[k] \notin gone}
    /\ cameFrom' = [p \in Page |-> IF p \in ids \ gone THEN x.key[item(p)]
                                   ELSE IF p \in gone THEN NoKey ELSE cameFrom[p]]
    /\ imports' = imports + 1
    /\ UNCHANGED requests

Import(e) ==
  LET x == Reading[e] IN
  /\ imports < MaxImports
  /\ \E pageId \in Resolved(ledger, {x.key[i] : i \in DOMAIN x.above}, NoPage, unused),
        dbId \in Resolved(dbLedger, {x.path[d] : d \in DOMAIN x.host}, NoRow, {d \in Database : db[d] = "new"}),
        rowId \in Resolved(rowLedger, {x.path[r] : r \in DOMAIN x.table}, NoRow, {r \in Record : row[r] = "new"}) :
       ImportAs(x, pageId, dbId, rowId)

-----------------------------------------------------------------------------
(* Users, in between.                                                      *)

\* A user types into a page.
Write(p) ==
  /\ text[p] # "user"
  /\ text' = [text EXCEPT ![p] = "user"]
  /\ UNCHANGED <<recordVars, ledgerVars>>

UserRequest ==
  /\ \/ /\ PageRequest \/ \E r \in {s \in Records : RowOnScreen(s)} : OpenRecordAsPage(r)
        /\ \A p \in unused \ unused' : p = CHOOSE q \in unused : TRUE
     \/ \E r \in {s \in Records : RowOnScreen(s)} : DeleteRecord(r)
     \/ \E r \in Records : RestoreRecord(r)
     \/ PurgeRequest
  /\ text' = [p \in Page |-> IF p \in stored \ stored' THEN "none" ELSE text[p]]
  /\ UNCHANGED ledgerVars

ImportNext ==
  \/ \E e \in Exports : Import(e)
  \/ /\ requests < MaxRequests
     /\ requests' = requests + 1
     /\ UserRequest \/ \E p \in Visible : Write(p)

ImportSpec == ImportInit /\ [][ImportNext]_importVars

-----------------------------------------------------------------------------
Ran == imports' # imports
Targets == {ledger[k] : k \in {l \in PageKey : l \in claimed' \/ ledger'[l] # ledger[l]}}

(* However often exports are imported, and whatever users do to the pages  *)
(* in between, there is one page for each thing of the exports.            *)
OneCopy ==
  \A p, q \in stored : (cameFrom[p] # NoKey /\ cameFrom[p] = cameFrom[q]) => p = q

(* An import leaves alone what is not in its export: pages users made, and *)
(* pages of other exports, keep their place, their text and their trash.   *)
ImportSparesOthers ==
  [][Ran => \A p \in stored \ Targets :
       /\ p \in stored'
       /\ <<parent[p], text[p], p \in trashed>>' = <<parent[p], text[p], p \in trashed>>]_importVars

(* What an import claims is on the sidebar afterwards, wherever users had  *)
(* moved it and whichever part of it was in the trash, provided no page of *)
(* the export has been purged.                                             *)
ImportShows ==
  [][(Ran /\ Targets \subseteq stored \union {NoPage}) =>
       \A k \in claimed' : ledger'[k] \in Visible']_importVars
=============================================================================
