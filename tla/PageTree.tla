------------------------------ MODULE PageTree ------------------------------
(***************************************************************************)
(* The page table of one workspace and its trash, with every handler run   *)
(* to completion (packages/server/src/handlers/pages.ts, and purgePage,    *)
(* listTrash and purgeExpired of handlers/databases.ts).                   *)
(*                                                                         *)
(* A page's place in the tree is its parent_id column.  Deleting marks the *)
(* page and every live page below it, and stamps the latter with the       *)
(* page's id (trashed_with); restoring brings the page and its stamped     *)
(* pages back; purging removes the page and everything below it.           *)
(*                                                                         *)
(* PageTreeSteps has the same handlers one SQL statement at a time.        *)
(***************************************************************************)
EXTENDS Naturals, FiniteSets

CONSTANTS Page,    \* the ulids the workspace will ever draw (bounds creation)
          NoPage   \* SQL NULL in parent_id and trashed_with

ASSUME NoPageAssumption == NoPage \notin Page

VARIABLES
  unused,       \* ids no createPage has drawn yet
  stored,       \* ids that have a row in pages
  parent,       \* parent_id
  trashed,      \* rows with is_deleted = 1
  trashedWith,  \* trashed_with
  deletedAt,    \* deleted_at, as the retention sweep sees it
  carried       \* history: what each page's deletion was seen to take along

vars == <<unused, stored, parent, trashed, trashedWith, deletedAt, carried>>

OptPage == Page \union {NoPage}
Age     == {"none", "recent", "expired"}

TypeOK ==
  /\ unused \subseteq Page
  /\ stored \subseteq Page \ unused
  /\ parent \in [Page -> OptPage]
  /\ trashed \subseteq stored
  /\ trashedWith \in [Page -> OptPage]
  /\ deletedAt \in [Page -> Age]
  /\ carried \in [Page -> SUBSET Page]

Init ==
  /\ unused = Page
  /\ stored = {}
  /\ parent = [p \in Page |-> NoPage]
  /\ trashed = {}
  /\ trashedWith = [p \in Page |-> NoPage]
  /\ deletedAt = [p \in Page |-> "none"]
  /\ carried = [p \in Page |-> {}]

-----------------------------------------------------------------------------
(* Walks over parent_id.                                                   *)

\* The pages of S reached from p by following up backwards through pages of
\* S: the least set that has every page of S whose parent is p or already in.
Closed(up, S, p, C) == \A r \in S : up[r] \in C \union {p} => r \in C
Below(up, S, p) == {q \in S : \A C \in SUBSET S : Closed(up, S, p, C) => q \in C}

Live         == stored \ trashed
LiveBelow(p) == Below(parent, Live, p)
Subtree(p)   == {p} \union Below(parent, stored, p)

\* What the sidebar draws: live pages joined to the top by live pages.
Visible == LiveBelow(NoPage)

\* The subtree walks stop: neither the frontier loop nor the recursive CTE
\* keeps track of the pages it has met.
WalkEnds(p) == p \notin LiveBelow(p)

\* The trash screen: swept-up pages are left out.
Listed == {p \in trashed : trashedWith[p] = NoPage}

-----------------------------------------------------------------------------
(* Handlers.                                                               *)

CreatePage(p, t) ==
  /\ p \in unused
  /\ unused' = unused \ {p}
  /\ stored' = stored \union {p}
  /\ parent' = [parent EXCEPT ![p] = t]
  /\ UNCHANGED <<trashed, trashedWith, deletedAt, carried>>

\* Mutant: the target is not compared with the descendants.
MoveUnchecked(p, t) ==
  /\ p \in Live
  /\ t # p
  /\ parent' = [parent EXCEPT ![p] = t]
  /\ UNCHANGED <<unused, stored, trashed, trashedWith, deletedAt, carried>>

\* Refused onto itself and onto a live descendant; a trashed page stays put.
MovePage(p, t) ==
  /\ p \in Live
  /\ t # p
  /\ t # NoPage => WalkEnds(p) /\ t \notin LiveBelow(p)
  /\ parent' = [parent EXCEPT ![p] = t]
  /\ UNCHANGED <<unused, stored, trashed, trashedWith, deletedAt, carried>>

\* Mutants: nothing is swept; pages already trashed are swept again.
SweptNone(p)       == {}
SweptTrashedToo(p) == Subtree(p) \ {p}

\* The descendants a deletion takes along.
Swept(p) == LiveBelow(p)

DeletePage(p) ==
  /\ p \in stored
  /\ WalkEnds(p)
  /\ trashed' = trashed \union {p} \union Swept(p)
  /\ trashedWith' = [q \in Page |-> IF q \in Swept(p) THEN p
                                    ELSE IF q = p THEN NoPage
                                    ELSE trashedWith[q]]
  /\ deletedAt' = [q \in Page |-> IF q \in Swept(p) \union {p} THEN "recent"
                                  ELSE deletedAt[q]]
  /\ carried' = [carried EXCEPT ![p] = LiveBelow(p) \union (IF p \in trashed THEN @ ELSE {})]
  /\ UNCHANGED <<unused, stored, parent>>

\* Mutant: what was swept up is not brought back.
RestoreRowOnly(p) ==
  /\ p \in trashed
  /\ trashed' = trashed \ {p}
  /\ deletedAt' = [deletedAt EXCEPT ![p] = "none"]
  /\ carried' = [carried EXCEPT ![p] = {}]
  /\ UNCHANGED <<unused, stored, parent, trashedWith>>

\* The page's own trashed_with is left as it was.
RestorePage(p) ==
  LET stamped == {q \in stored : trashedWith[q] = p} IN
  /\ p \in trashed
  /\ trashed' = trashed \ ({p} \union stamped)
  /\ trashedWith' = [q \in Page |-> IF q \in stamped THEN NoPage ELSE trashedWith[q]]
  /\ deletedAt' = [q \in Page |-> IF q \in stamped \union {p} THEN "none" ELSE deletedAt[q]]
  /\ carried' = [carried EXCEPT ![p] = {}]
  /\ UNCHANGED <<unused, stored, parent>>

\* The rows of gone leave the table.
Remove(gone) ==
  /\ stored' = stored \ gone
  /\ trashed' = trashed \ gone
  /\ parent' = [q \in Page |-> IF q \in gone THEN NoPage ELSE parent[q]]
  /\ trashedWith' = [q \in Page |-> IF q \in gone THEN NoPage ELSE trashedWith[q]]
  /\ deletedAt' = [q \in Page |-> IF q \in gone THEN "none" ELSE deletedAt[q]]
  /\ carried' = [q \in Page |-> IF q \in gone THEN {} ELSE carried[q]]
  /\ UNCHANGED unused

\* Mutants: the children stay; only live children are found.
PurgeRowOnly(p)   == p \in stored /\ Remove({p})
PurgeLiveBelow(p) == p \in stored /\ Remove({p} \union LiveBelow(p))

\* Children are found by parent_id alone, whether or not they are trashed.
PurgePage(p) == p \in stored /\ Remove(Subtree(p))

\* Mutant: the sweep looks at the entries of the trash, as the screen does.
ExpiredEntries == {p \in Listed : deletedAt[p] = "expired"}

Expired == {p \in trashed : deletedAt[p] = "expired"}

PurgeExpired ==
  /\ Expired # {}
  /\ Remove(UNION {Subtree(p) : p \in Expired})

\* The retention window passes for all that is in the trash.
RetentionPasses ==
  /\ \E p \in trashed : deletedAt[p] = "recent"
  /\ deletedAt' = [p \in Page |-> IF deletedAt[p] = "recent" THEN "expired" ELSE deletedAt[p]]
  /\ UNCHANGED <<unused, stored, parent, trashed, trashedWith, carried>>

-----------------------------------------------------------------------------
(* Clients that act on what their screens show: pages are put under pages  *)
(* of the sidebar, live pages are deleted and moved, entries of the trash  *)
(* are restored and purged.                                                *)
Next ==
  \/ \E p \in Page, t \in Visible \union {NoPage} : CreatePage(p, t)
  \/ \E p \in Page, t \in Visible \union {NoPage} : MovePage(p, t)
  \/ \E p \in Live : DeletePage(p)
  \/ \E p \in Listed : RestorePage(p)
  \/ \E p \in Listed : PurgePage(p)
  \/ PurgeExpired
  \/ RetentionPasses

\* Clients whose screens are out of date, and API callers: any id ever drawn.
Known == Page \ unused
AnyNext ==
  \/ \E p \in Page, t \in Known \union {NoPage} : CreatePage(p, t)
  \/ \E p \in Page, t \in Known \union {NoPage} : MovePage(p, t)
  \/ \E p \in Known : DeletePage(p)
  \/ \E p \in Known : RestorePage(p)
  \/ \E p \in Known : PurgePage(p)
  \/ PurgeExpired
  \/ RetentionPasses

Spec    == Init /\ [][Next]_vars
AnySpec == Init /\ [][AnyNext]_vars
-----------------------------------------------------------------------------
(* Properties under Spec.                                                  *)

(* The pages never form a ring: every set of stored pages has a member     *)
(* whose parent is outside it.  movePage tests the new parent against the  *)
(* live descendants only, so this also says that no ring can be closed     *)
(* through the trash and come alive when something is restored.            *)
TreeStaysATree ==
  \A C \in SUBSET stored : C # {} => \E q \in C : parent[q] \notin C

(* No stored page points at a row that is gone: purging a page takes along *)
(* everything that was found through it (the foreign keys are off, so      *)
(* nothing else would).                                                    *)
NoDanglingParent == \A q \in stored : parent[q] \in stored \union {NoPage}

(* Nothing is lost in the trash: a page that is trashed but not listed     *)
(* belongs to a listed entry that brings it back when restored and takes   *)
(* it along when purged.                                                   *)
TrashAccounted ==
  \A q \in trashed : \E p \in Listed :
    /\ q \in Subtree(p)
    /\ trashedWith[q] \in {p, NoPage}
    /\ trashedWith[q] = NoPage => q = p

(* Restoring an entry of the trash undoes its deletion: the pages that     *)
(* come alive are the page and exactly those its deletion took along,      *)
(* whatever was deleted, moved, restored or purged in between.             *)
RestoreUndoesDelete ==
  [][LET revived == trashed \ trashed' IN
     (revived # {} /\ stored' = stored) =>
       \E p \in revived : revived = {p} \union carried[p]]_vars

(* A page on the sidebar leaves it only by being trashed: no handler       *)
(* leaves a live page with a trashed or missing ancestor that it did not   *)
(* have before.                                                            *)
NothingHidden == [][(Visible \intersect Live') \subseteq Visible']_vars

(* Nothing stays in the trash for good: a deleted page is restored, or its *)
(* retention passes and the sweep removes it, whatever users do meanwhile  *)
(* and whatever the sweep finds half done (FairStepsSpec).                 *)
NothingTrashedForGood == \A p \in Page : p \in trashed ~> p \notin trashed

-----------------------------------------------------------------------------
(* Properties under AnySpec, where the clients' screens may be stale.      *)

(* A swept-up page names a page that is in the trash in its own right, or  *)
(* that is gone: it never waits for a live page, nor for one that is       *)
(* itself unlisted.                                                        *)
CarrierInTrash ==
  \A q \in trashed : trashedWith[q] # NoPage => trashedWith[q] \in Listed \union (Page \ stored)

(* Restoring a page revives nothing its own deletion did not take: a page  *)
(* trashed on its own stays trashed when its parent comes back.            *)
RestoreBringsNoMore ==
  [][LET revived == trashed \ trashed' IN
     (revived # {} /\ stored' = stored) =>
       \E p \in revived : revived \subseteq {p} \union carried[p]]_vars

(* A page that stays where it is keeps its parent's row: no handler        *)
(* removes a page from under its children.                                 *)
PurgeTakesTheSubtree ==
  [][\A q \in stored \intersect stored' :
       (parent[q] \in stored /\ parent'[q] = parent[q]) => parent'[q] \in stored']_vars
=============================================================================
