---------------------------- MODULE PageTreeSteps ---------------------------
(***************************************************************************)
(* The page handlers one SQL statement at a time.  None of them opens a    *)
(* transaction, so every statement commits on its own and another          *)
(* request's fiber may come between any two of them.                       *)
(*                                                                         *)
(* With Serial a request starts only when no other is in flight, and the   *)
(* handlers then implement PageTree (Atomic below); without it requests    *)
(* interleave.  The process may stop between any two statements.           *)
(***************************************************************************)
EXTENDS PageTree, Sequences

CONSTANTS Fiber,   \* request fibers, the retention sweep's among them
          Serial,  \* whether requests run one after the other
          MaxStops \* stops of the process (bounds)

ASSUME StepsAssumption == Serial \in BOOLEAN /\ MaxStops \in Nat

VARIABLES
  h,      \* where each fiber stands, and the rows it has read so far
  base,   \* history: the table when the request in flight started (Serial)
  stops   \* how often the process has stopped

table == <<unused, stored, parent, trashed, trashedWith, deletedAt, carried>>
allVars == <<table, h, base, stops>>

Idle == [at |-> "idle", page |-> NoPage, target |-> NoPage,
         frontier |-> {}, found |-> {}, todo |-> << >>]

Labels == {"idle", "delWalk", "delMark", "delSweep", "restoreSwept",
           "moveWrite", "purgeKids", "purgeRow"}

StepsTypeOK ==
  /\ TypeOK
  /\ h \in [Fiber -> [at : Labels, page : OptPage, target : OptPage,
                      frontier : SUBSET Page, found : SUBSET Page, todo : Seq(Page)]]
  /\ stops \in 0 .. MaxStops

Quiet == \A f \in Fiber : h[f] = Idle

Go(f, where) ==
  /\ h' = [h EXCEPT ![f] = where]
  /\ base' = IF where = Idle THEN << >> ELSE base
  /\ UNCHANGED stops

Start(f, where) ==
  /\ h[f] = Idle
  /\ Serial => Quiet
  /\ h' = [h EXCEPT ![f] = where]
  /\ base' = IF Serial /\ where # Idle THEN table ELSE base
  /\ UNCHANGED stops

StepsInit == Init /\ h = [f \in Fiber |-> Idle] /\ base = << >> /\ stops = 0

\* The orders in which a SELECT without ORDER BY may return the rows of S.
RowOrders(S) == {s \in [1..Cardinality(S) -> S] : \A r \in S : \E i \in DOMAIN s : s[i] = r}

-----------------------------------------------------------------------------
\* createPage writes with its single INSERT.
Create(f, p, t) ==
  /\ Start(f, Idle)
  /\ CreatePage(p, t)

\* movePage: the descendants are read and the target compared, then written.
MoveCheck(f, p, t) ==
  /\ t # p
  /\ t # NoPage => WalkEnds(p) /\ t \notin LiveBelow(p)
  /\ Start(f, [Idle EXCEPT !.at = "moveWrite", !.page = p, !.target = t])
  /\ UNCHANGED table

MoveWrite(f) ==
  LET p == h[f].page IN
  /\ h[f].at = "moveWrite"
  /\ parent' = IF p \in Live THEN [parent EXCEPT ![p] = h[f].target] ELSE parent
  /\ Go(f, Idle)
  /\ UNCHANGED <<unused, stored, trashed, trashedWith, deletedAt, carried>>

\* deletePage: one SELECT per level of the subtree, then two UPDATEs.
DeleteStart(f, p) ==
  /\ p \in stored
  /\ Start(f, [Idle EXCEPT !.at = "delWalk", !.page = p, !.frontier = {p}])
  /\ UNCHANGED table

\* Mutants: the walk stops after one level; the frontier keeps what it found.
DeleteWalkOnce(f) ==
  LET rows == {q \in Live : parent[q] \in h[f].frontier} IN
  /\ h[f].at = "delWalk"
  /\ Go(f, [h[f] EXCEPT !.at = "delMark", !.frontier = {}, !.found = rows])
  /\ UNCHANGED table

DeleteWalkAgain(f) ==
  LET rows == {q \in Live : parent[q] \in h[f].frontier \union h[f].found} IN
  /\ h[f].at = "delWalk"
  /\ Go(f, IF rows = {} THEN [h[f] EXCEPT !.at = "delMark", !.frontier = {}]
           ELSE [h[f] EXCEPT !.frontier = rows, !.found = @ \union rows])
  /\ UNCHANGED table

DeleteWalk(f) ==
  LET rows == {q \in Live : parent[q] \in h[f].frontier} IN
  /\ h[f].at = "delWalk"
  /\ Go(f, IF rows = {} THEN [h[f] EXCEPT !.at = "delMark", !.frontier = {}]
           ELSE [h[f] EXCEPT !.frontier = rows, !.found = @ \union rows])
  /\ UNCHANGED table

\* UPDATE ... SET is_deleted = 1, trashed_with = w WHERE id IN S
Mark(S, w) ==
  LET hit == S \intersect stored IN
  /\ trashed' = trashed \union hit
  /\ trashedWith' = [q \in Page |-> IF q \in hit THEN w ELSE trashedWith[q]]
  /\ deletedAt' = [q \in Page |-> IF q \in hit THEN "recent" ELSE deletedAt[q]]
  /\ UNCHANGED <<unused, stored, parent>>

DeleteMark(f) ==
  LET p == h[f].page IN
  /\ h[f].at = "delMark"
  /\ Mark({p}, NoPage)
  /\ carried' = [carried EXCEPT ![p] = h[f].found \union (IF p \in trashed THEN @ ELSE {})]
  /\ Go(f, IF h[f].found = {} THEN Idle ELSE [h[f] EXCEPT !.at = "delSweep"])

DeleteSweep(f) ==
  /\ h[f].at = "delSweep"
  /\ Mark(h[f].found, h[f].page)
  /\ Go(f, Idle)
  /\ UNCHANGED carried

\* restorePage: the page, then whatever carries its stamp.
RestoreStart(f, p) ==
  /\ p \in trashed
  /\ Start(f, [Idle EXCEPT !.at = "restoreSwept", !.page = p])
  /\ trashed' = trashed \ {p}
  /\ deletedAt' = [deletedAt EXCEPT ![p] = "none"]
  /\ carried' = [carried EXCEPT ![p] = {}]
  /\ UNCHANGED <<unused, stored, parent, trashedWith>>

RestoreSwept(f) ==
  LET stamped == {q \in stored : trashedWith[q] = h[f].page} IN
  /\ h[f].at = "restoreSwept"
  /\ trashed' = trashed \ stamped
  /\ trashedWith' = [q \in Page |-> IF q \in stamped THEN NoPage ELSE trashedWith[q]]
  /\ deletedAt' = [q \in Page |-> IF q \in stamped THEN "none" ELSE deletedAt[q]]
  /\ Go(f, Idle)
  /\ UNCHANGED <<unused, stored, parent, carried>>

\* purgePage and purgeExpired: a stack of pages to purge.  Each is read for
\* its children, loses its row, and has its children purged before the rest.
\* The ids a purge has read are purged whatever has become of them since.
PurgeStart(f, p) ==
  /\ p \in stored
  /\ Start(f, [Idle EXCEPT !.at = "purgeKids", !.todo = <<p>>])
  /\ UNCHANGED table

SweepStart(f) ==
  /\ Expired # {}
  /\ \E s \in RowOrders(Expired) :
       Start(f, [Idle EXCEPT !.at = "purgeKids", !.todo = s])
  /\ UNCHANGED table

PurgeKids(f) ==
  /\ h[f].at = "purgeKids"
  /\ Go(f, [h[f] EXCEPT !.at = "purgeRow",
                        !.found = {q \in stored : parent[q] = Head(h[f].todo)}])
  /\ UNCHANGED table

PurgeRow(f) ==
  /\ h[f].at = "purgeRow"
  /\ Remove({Head(h[f].todo)})
  /\ \E s \in RowOrders(h[f].found) :
       LET rest == s \o Tail(h[f].todo) IN
       Go(f, IF rest = << >> THEN Idle
             ELSE [Idle EXCEPT !.at = "purgeKids", !.todo = rest])

-----------------------------------------------------------------------------
\* As in PageTree: requests for what screens show.
Request(f) ==
  \/ \E p \in Page, t \in Visible \union {NoPage} : Create(f, p, t)
  \/ \E p \in Live, t \in Visible \union {NoPage} : MoveCheck(f, p, t)
  \/ \E p \in Live : DeleteStart(f, p)
  \/ \E p \in Listed : RestoreStart(f, p)
  \/ \E p \in Listed : PurgeStart(f, p)
  \/ SweepStart(f)

Statement(f) ==
  \/ MoveWrite(f)
  \/ DeleteWalk(f)
  \/ DeleteMark(f)
  \/ DeleteSweep(f)
  \/ RestoreSwept(f)
  \/ PurgeKids(f)
  \/ PurgeRow(f)

ClockMoves == RetentionPasses /\ (Serial => Quiet) /\ UNCHANGED <<h, base, stops>>

\* What is written is written; what the fibers had read is lost with them.
Stop ==
  /\ ~Quiet /\ stops < MaxStops
  /\ stops' = stops + 1
  /\ h' = [f \in Fiber |-> Idle]
  /\ base' = << >>
  /\ UNCHANGED table

StepsNext ==
  \/ \E f \in Fiber : Request(f) \/ Statement(f)
  \/ ClockMoves
  \/ Stop

StepsSpec == StepsInit /\ [][StepsNext]_allVars

\* The runtime resumes every fiber that has a statement to run.  The clock
\* and the interval go on, only that here (Serial) they wait for the request
\* in flight, hence strong fairness; nothing a user does is fair.
FairStepsSpec ==
  /\ StepsSpec
  /\ \A f \in Fiber : WF_allVars(Statement(f)) /\ SF_allVars(SweepStart(f))
  /\ SF_allVars(ClockMoves)

-----------------------------------------------------------------------------
(* One request at a time, every handler is a single step of PageTree: the  *)
(* statements of a handler in flight show nothing to anyone else, and all  *)
(* of them together do what the handler promises.  While a request is in   *)
(* flight PageTree still sees the table it started from.  A stop in        *)
(* between is the one step that PageTree does not know; from whatever it   *)
(* leaves, the requests after it are PageTree's steps again.               *)
Seen(i) == IF Quiet THEN table[i] ELSE base[i]

Atomic == INSTANCE PageTree WITH
  unused <- Seen(1), stored <- Seen(2), parent <- Seen(3), trashed <- Seen(4),
  trashedWith <- Seen(5), deletedAt <- Seen(6), carried <- Seen(7)

ImplementsPageTree == Atomic!Init /\ [][Atomic!Next \/ Stop]_<<Seen(1), Seen(2), Seen(3), Seen(4), Seen(5), Seen(6), Seen(7)>>

(* With Serial: every request a screen can send comes to its end, the      *)
(* subtree walks and the purge's stack included.                           *)
RequestsEnd == \A f \in Fiber : h[f] # Idle ~> h[f] = Idle
=============================================================================
