--------------------------- MODULE PageTree_proofs --------------------------
(***************************************************************************)
(* Proofs about PageTree for every set of pages.  And: one request at a    *)
(* time, the page handlers, statement by statement (PageTreeSteps), do     *)
(* what PageTree says they do: StepsSpec implements PageTree, for any      *)
(* number of fibers and stops.                                             *)
(***************************************************************************)
EXTENDS PageTreeSteps, SequenceTheorems, FiniteSetTheorems, TLAPS

-----------------------------------------------------------------------------
(* Lemmas about Below, the least closed set.                               *)

(* Below(up, S, p) is itself closed, and it is inside every closed set.    *)
LEMMA BelowClosed ==
  ASSUME NEW up, NEW S, NEW p
  PROVE  /\ Below(up, S, p) \subseteq S
         /\ Closed(up, S, p, Below(up, S, p))
  BY DEF Below, Closed

LEMMA BelowLeast ==
  ASSUME NEW up, NEW S, NEW p, NEW C \in SUBSET S, Closed(up, S, p, C)
  PROVE  Below(up, S, p) \subseteq C
  BY DEF Below

(* Every page below p hangs from p or from another page below p.           *)
LEMMA BelowHangs ==
  ASSUME NEW up, NEW S, NEW p, NEW q \in Below(up, S, p)
  PROVE  up[q] \in Below(up, S, p) \union {p}
<1> DEFINE B == Below(up, S, p)
           C == {r \in B : up[r] \in B \union {p}}
<1>1. B \subseteq S /\ Closed(up, S, p, B)
  BY BelowClosed
<1>2. C \in SUBSET S /\ Closed(up, S, p, C)
  BY <1>1 DEF Closed
<1> QED
  BY <1>2, BelowLeast

(* Below depends on up only at the pages of S, and grows with S.           *)
LEMMA BelowAgree ==
  ASSUME NEW up, NEW up2, NEW S, NEW p, \A r \in S : up[r] = up2[r]
  PROVE  Below(up, S, p) = Below(up2, S, p)
  BY DEF Below, Closed

LEMMA BelowMonotone ==
  ASSUME NEW up, NEW S, NEW T, S \subseteq T, NEW p
  PROVE  Below(up, S, p) \subseteq Below(up, T, p)
<1> DEFINE C == Below(up, T, p) \intersect S
<1>1. Closed(up, S, p, C)
  BY BelowClosed DEF Closed
<1> QED
  BY <1>1, BelowLeast

(* The chain from p to a page below it stays below p.                      *)
LEMMA BelowSelf ==
  ASSUME NEW up, NEW S, NEW p
  PROVE  Below(up, S, p) \subseteq Below(up, Below(up, S, p), p)
<1> DEFINE B == Below(up, S, p)
           C == Below(up, B, p)
<1>1. C \in SUBSET S /\ Closed(up, S, p, C)
  <2>1. B \subseteq S /\ C \subseteq B /\ Closed(up, S, p, B) /\ Closed(up, B, p, C)
    BY BelowClosed
  <2> QED
    BY <2>1 DEF Closed
<1> QED
  BY <1>1, BelowLeast

-----------------------------------------------------------------------------
(* Every variable keeps its type: rows exist only for drawn ids, and only  *)
(* rows are trashed.                                                       *)
LEMMA TypeInit == Init => TypeOK
  BY DEF Init, TypeOK, OptPage, Age

LEMMA RemoveType ==
  ASSUME TypeOK, NEW gone, Remove(gone)
  PROVE  TypeOK'
  BY DEF Remove, TypeOK, OptPage, Age

LEMMA TypeNext == TypeOK /\ [AnyNext]_vars => TypeOK'
<1> SUFFICES ASSUME TypeOK, [AnyNext]_vars PROVE TypeOK'
  OBVIOUS
<1> USE DEF TypeOK, OptPage, Age
<1>1. ASSUME NEW p \in Page, NEW t \in Known \union {NoPage}, CreatePage(p, t) PROVE TypeOK'
  BY <1>1 DEF CreatePage, Known
<1>2. ASSUME NEW p \in Page, NEW t \in Known \union {NoPage}, MovePage(p, t) PROVE TypeOK'
  BY <1>2 DEF MovePage, Known
<1>3. ASSUME NEW p \in Known, DeletePage(p) PROVE TypeOK'
  <2>1. LiveBelow(p) \subseteq stored
    BY BelowClosed DEF LiveBelow, Live
  <2> QED
    BY <1>3, <2>1 DEF DeletePage, Swept, Known
<1>4. ASSUME NEW p \in Known, RestorePage(p) PROVE TypeOK'
  BY <1>4 DEF RestorePage, Known
<1>5. ASSUME NEW p \in Known, PurgePage(p) PROVE TypeOK'
  BY <1>5, RemoveType DEF PurgePage
<1>6. CASE PurgeExpired
  BY <1>6, RemoveType DEF PurgeExpired
<1>7. CASE RetentionPasses
  BY <1>7 DEF RetentionPasses
<1>8. CASE UNCHANGED vars
  BY <1>8 DEF vars
<1> QED
  BY <1>1, <1>2, <1>3, <1>4, <1>5, <1>6, <1>7, <1>8 DEF AnyNext

(* What a screen offers is an id that was drawn: Spec's steps are AnySpec's. *)
LEMMA ScreensAreKnown == TypeOK /\ Next => AnyNext
<1> SUFFICES ASSUME TypeOK, Next PROVE AnyNext
  OBVIOUS
<1>1. Visible \subseteq Known /\ Live \subseteq Known /\ Listed \subseteq Known
  BY BelowClosed DEF Visible, LiveBelow, Live, Listed, Known, TypeOK
<1> QED
  BY <1>1 DEF Next, AnyNext

THEOREM AnyTypeCorrect == AnySpec => []TypeOK
  BY TypeInit, TypeNext, PTL DEF AnySpec

THEOREM TypeCorrect == Spec => []TypeOK
<1>1. TypeOK /\ [Next]_vars => TypeOK'
  BY TypeNext, ScreensAreKnown
<1> QED
  BY TypeInit, <1>1, PTL DEF Spec

-----------------------------------------------------------------------------
(* What a purge removes is closed under children, so it leaves no child.   *)
ClosedDown(gone) == \A q \in stored : parent[q] \in gone => q \in gone

LEMMA SubtreeClosedDown ==
  ASSUME NEW p
  PROVE  ClosedDown(Subtree(p))
  BY BelowClosed DEF ClosedDown, Subtree, Closed

LEMMA ExpiredClosedDown == ClosedDown(UNION {Subtree(p) : p \in Expired})
  BY SubtreeClosedDown DEF ClosedDown

(* The steps of Spec, with the two that remove rows taken together.        *)
LEMMA StepCases ==
  ASSUME TypeOK, [Next]_vars
  PROVE  \/ \E p \in Page, t \in Visible \union {NoPage} : CreatePage(p, t)
         \/ \E p \in Page, t \in Visible \union {NoPage} : MovePage(p, t)
         \/ \E p \in Live : DeletePage(p)
         \/ \E p \in Listed : RestorePage(p)
         \/ \E gone : ClosedDown(gone) /\ Remove(gone)
         \/ RetentionPasses
         \/ UNCHANGED vars
<1>1. ASSUME NEW p \in Listed, PurgePage(p)
      PROVE  \E gone : ClosedDown(gone) /\ Remove(gone)
  BY <1>1, SubtreeClosedDown DEF PurgePage
<1>2. ASSUME PurgeExpired
      PROVE  \E gone : ClosedDown(gone) /\ Remove(gone)
  BY <1>2, ExpiredClosedDown DEF PurgeExpired
<1> QED
  BY <1>1, <1>2 DEF Next

LEMMA DanglingInit == Init => NoDanglingParent
  BY DEF Init, NoDanglingParent

LEMMA DanglingNext == TypeOK /\ NoDanglingParent /\ [Next]_vars => NoDanglingParent'
<1> SUFFICES ASSUME TypeOK, NoDanglingParent, [Next]_vars PROVE NoDanglingParent'
  OBVIOUS
<1> USE DEF NoDanglingParent, TypeOK
<1>0. Visible \subseteq stored
  BY BelowClosed DEF Visible, LiveBelow, Live
<1>1. ASSUME NEW p \in Page, NEW t \in Visible \union {NoPage}, CreatePage(p, t)
      PROVE  NoDanglingParent'
  BY <1>0, <1>1 DEF CreatePage
<1>2. ASSUME NEW p \in Page, NEW t \in Visible \union {NoPage}, MovePage(p, t)
      PROVE  NoDanglingParent'
  BY <1>0, <1>2 DEF MovePage
<1>3. ASSUME NEW p \in Live, DeletePage(p) PROVE NoDanglingParent'
  BY <1>3 DEF DeletePage, Swept
<1>4. ASSUME NEW p \in Listed, RestorePage(p) PROVE NoDanglingParent'
  BY <1>4 DEF RestorePage
<1>5. ASSUME NEW gone, ClosedDown(gone), Remove(gone) PROVE NoDanglingParent'
  BY <1>5 DEF Remove, ClosedDown
<1>6. ASSUME RetentionPasses PROVE NoDanglingParent'
  BY <1>6 DEF RetentionPasses
<1>7. ASSUME UNCHANGED vars PROVE NoDanglingParent'
  BY <1>7 DEF vars
<1> QED
  BY <1>1, <1>2, <1>3, <1>4, <1>5, <1>6, <1>7, StepCases

(* No purge, of an entry of the trash or by the sweep, leaves a page whose *)
(* parent row is gone.                                                     *)
THEOREM NothingDangles == Spec => []NoDanglingParent
<1>1. TypeOK /\ NoDanglingParent /\ [Next]_vars => NoDanglingParent'
  BY DanglingNext
<1> QED
  BY DanglingInit, <1>1, TypeCorrect, PTL DEF Spec

-----------------------------------------------------------------------------
LEMMA TreeInit == Init => TreeStaysATree
  BY DEF Init, TreeStaysATree

(* A move closes no ring.  Were C a ring afterwards, p would be in it and  *)
(* so would t; but every page on the way from the top of the sidebar to t  *)
(* is outside C until the way comes to p, and p is not above t.            *)
LEMMA MoveKeepsTree ==
  ASSUME TypeOK, NoDanglingParent, TreeStaysATree,
         NEW p \in Page, NEW t \in Visible \union {NoPage}, MovePage(p, t)
  PROVE  TreeStaysATree'
<1> SUFFICES ASSUME NEW C \in SUBSET stored', C # {}, \A q \in C : parent'[q] \in C
             PROVE  FALSE
  BY DEF TreeStaysATree
<1>1. /\ stored' = stored /\ t # p
      /\ \A q \in C : q # p => parent[q] \in C
      /\ p \in C => t \in C
      /\ p \in Live
  BY DEF MovePage, TypeOK
<1>2. p \in C
  BY <1>1 DEF TreeStaysATree
<1>3. NoPage \notin C
  BY NoPageAssumption DEF MovePage, TypeOK
<1>4. t \in C /\ t # NoPage /\ t \in Visible
  BY <1>1, <1>2, <1>3
<1> DEFINE V == {v \in Live : v \in C => v \in {p} \union LiveBelow(p)}
<1>5. Closed(parent, Live, NoPage, V)
  <2> SUFFICES ASSUME NEW w \in Live, parent[w] \in V \union {NoPage}, w \in C, w # p
               PROVE  w \in LiveBelow(p)
    BY DEF Closed
  <2>1. parent[w] \in C
    BY <1>1
  <2>2. parent[w] \in {p} \union LiveBelow(p)
    BY <1>3, <2>1
  <2> QED
    BY <2>2, BelowClosed DEF LiveBelow, Closed
<1>6. t \in V
  BY <1>4, <1>5, BelowLeast DEF Visible, LiveBelow
<1>7. t \in LiveBelow(p)
  BY <1>1, <1>4, <1>6
<1> QED
  BY <1>4, <1>7 DEF MovePage

LEMMA CreateKeepsTree ==
  ASSUME TypeOK, NoDanglingParent, TreeStaysATree,
         NEW p \in Page, NEW t \in Visible \union {NoPage}, CreatePage(p, t)
  PROVE  TreeStaysATree'
<1> SUFFICES ASSUME NEW C \in SUBSET stored', C # {}, \A q \in C : parent'[q] \in C
             PROVE  FALSE
  BY DEF TreeStaysATree
<1> DEFINE D == C \ {p}
<1>1. /\ p \notin stored /\ p # NoPage
      /\ stored' = stored \union {p}
      /\ parent'[p] = t
      /\ \A q \in stored : parent'[q] = parent[q]
  BY NoPageAssumption DEF CreatePage, TypeOK
<1>2. D \in SUBSET stored
  BY <1>1
<1>3. \A q \in D : parent[q] \in D
  BY <1>1, <1>2 DEF NoDanglingParent
<1>4. D # {}
  <2>1. t # p
    BY <1>1, BelowClosed DEF Visible, LiveBelow, Live
  <2> QED
    BY <1>1, <2>1
<1> QED
  BY <1>2, <1>3, <1>4 DEF TreeStaysATree

LEMMA TreeNext == TypeOK /\ NoDanglingParent /\ TreeStaysATree /\ [Next]_vars => TreeStaysATree'
<1> SUFFICES ASSUME TypeOK, NoDanglingParent, TreeStaysATree, [Next]_vars
             PROVE  TreeStaysATree'
  OBVIOUS
<1>3. ASSUME NEW p \in Live, DeletePage(p) PROVE TreeStaysATree'
  BY <1>3 DEF DeletePage, Swept, TreeStaysATree
<1>4. ASSUME NEW p \in Listed, RestorePage(p) PROVE TreeStaysATree'
  BY <1>4 DEF RestorePage, TreeStaysATree
<1>5. ASSUME NEW gone, ClosedDown(gone), Remove(gone) PROVE TreeStaysATree'
  <2>1. stored' \subseteq stored /\ \A q \in stored' : parent'[q] = parent[q]
    BY <1>5 DEF Remove, TypeOK
  <2> QED
    BY <2>1 DEF TreeStaysATree
<1>6. ASSUME RetentionPasses PROVE TreeStaysATree'
  BY <1>6 DEF RetentionPasses, TreeStaysATree
<1>7. ASSUME UNCHANGED vars PROVE TreeStaysATree'
  BY <1>7 DEF vars, TreeStaysATree
<1> QED
  BY CreateKeepsTree, MoveKeepsTree, <1>3, <1>4, <1>5, <1>6, <1>7, StepCases

(* While clients move pages under pages of the sidebar, the test against   *)
(* the live descendants is enough: no sequence of creations, moves,        *)
(* deletions, restores and purges makes a ring of pages.                   *)
THEOREM AlwaysATree == Spec => []TreeStaysATree
<1>1. TypeOK /\ NoDanglingParent /\ TreeStaysATree /\ [Next]_vars => TreeStaysATree'
  BY TreeNext
<1> QED
  BY TreeInit, <1>1, TypeCorrect, NothingDangles, PTL DEF Spec

-----------------------------------------------------------------------------
(* A live page that keeps its parent, and whose parent stays live if it    *)
(* was, is as visible after the step as before.                            *)
LEMMA StillVisible ==
  ASSUME \A r \in Live \intersect Live' :
           parent'[r] = parent[r] /\ (parent[r] \in Live => parent[r] \in Live')
  PROVE  (Visible \intersect Live') \subseteq Visible'
<1> DEFINE C == {v \in Live : v \in Live' => v \in Visible'}
<1>1. Closed(parent', Live', NoPage, Visible')
  BY BelowClosed DEF Visible, LiveBelow
<1>2. Closed(parent, Live, NoPage, C)
  BY <1>1 DEF Closed
<1> QED
  BY <1>2, BelowLeast DEF Visible, LiveBelow

LEMMA MoveHidesNothing ==
  ASSUME TypeOK, NEW p \in Page, NEW t \in Visible \union {NoPage}, MovePage(p, t)
  PROVE  (Visible \intersect Live') \subseteq Visible'
<1> DEFINE V == {v \in Live : v \in {p} \union LiveBelow(p) \union Visible'}
           C == Visible' \intersect Live
<1>1. /\ Live' = Live /\ parent'[p] = t /\ p \in Live
      /\ \A r \in Live : r # p => parent'[r] = parent[r]
      /\ t # p /\ (t # NoPage => t \notin LiveBelow(p))
  BY DEF MovePage, TypeOK, Live
<1>2. /\ Closed(parent', Live, NoPage, Visible')
      /\ Closed(parent, Live, p, LiveBelow(p))
      /\ Visible \subseteq Live /\ Visible' \subseteq Live
  BY <1>1, BelowClosed DEF Visible, LiveBelow
<1>3. Closed(parent, Live, NoPage, V)
  BY <1>1, <1>2 DEF Closed
<1>4. t \in Visible' \union {NoPage}
  BY <1>1, <1>3, BelowLeast DEF Visible, LiveBelow
<1>5. Closed(parent, Live, NoPage, C)
  BY <1>1, <1>2, <1>4 DEF Closed
<1> QED
  BY <1>5, BelowLeast DEF Visible, LiveBelow

LEMMA StepHidesNothing ==
  TypeOK /\ [Next]_vars => (Visible \intersect Live') \subseteq Visible'
<1> SUFFICES ASSUME TypeOK, [Next]_vars
             PROVE  (Visible \intersect Live') \subseteq Visible'
  OBVIOUS
<1> USE DEF TypeOK, Live
<1>1. ASSUME NEW p \in Page, NEW t \in Visible \union {NoPage}, CreatePage(p, t)
      PROVE  (Visible \intersect Live') \subseteq Visible'
  BY <1>1, StillVisible DEF CreatePage
<1>3. ASSUME NEW p \in Live, DeletePage(p)
      PROVE  (Visible \intersect Live') \subseteq Visible'
  <2>1. Closed(parent, Live, p, LiveBelow(p))
    BY BelowClosed DEF LiveBelow
  <2>2. Live' = Live \ ({p} \union LiveBelow(p)) /\ parent' = parent
    BY <1>3 DEF DeletePage, Swept
  <2> QED
    BY <2>1, <2>2, StillVisible DEF Closed
<1>4. ASSUME NEW p \in Listed, RestorePage(p)
      PROVE  (Visible \intersect Live') \subseteq Visible'
  BY <1>4, StillVisible DEF RestorePage
<1>5. ASSUME NEW gone, ClosedDown(gone), Remove(gone)
      PROVE  (Visible \intersect Live') \subseteq Visible'
  <2>1. Live' = Live \ gone /\ \A r \in Live' : parent'[r] = parent[r]
    BY <1>5 DEF Remove
  <2>2. \A r \in Live' : parent[r] \notin gone
    BY <1>5, <2>1 DEF ClosedDown
  <2> QED
    BY <2>1, <2>2, StillVisible
<1>6. ASSUME RetentionPasses
      PROVE  (Visible \intersect Live') \subseteq Visible'
  BY <1>6, StillVisible DEF RetentionPasses
<1>7. ASSUME UNCHANGED vars
      PROVE  (Visible \intersect Live') \subseteq Visible'
  BY <1>7, StillVisible DEF vars
<1> QED
  BY <1>1, MoveHidesNothing, <1>3, <1>4, <1>5, <1>6, <1>7, StepCases

(* No handler takes a page off the sidebar except by trashing or removing  *)
(* it: deleting a page never leaves one of its live pages behind.          *)
THEOREM NothingIsHidden == Spec => NothingHidden
<1>1. TypeOK /\ [Next]_vars => [(Visible \intersect Live') \subseteq Visible']_vars
  BY StepHidesNothing
<1> QED
  BY <1>1, TypeCorrect, PTL DEF Spec, NothingHidden

-----------------------------------------------------------------------------
(* The trash.  Stamped(p) is what restorePage(p) will bring back; the      *)
(* stamp alone does not say that these pages are still under p, which is   *)
(* what a purge of p needs to find them.  The invariant says both: they    *)
(* hang from p by a chain of pages with the same stamp, and p is listed.   *)
Stamped(p) == {q \in trashed : trashedWith[q] = p}
HangsTogether ==
  \A q \in trashed : trashedWith[q] # NoPage =>
    /\ trashedWith[q] \in Listed
    /\ q \in Below(parent, Stamped(trashedWith[q]), trashedWith[q])

LEMMA HangsInit == Init => HangsTogether
  BY DEF Init, HangsTogether

(* Steps that touch neither the trashed rows nor their parents.            *)
LEMMA HangsFrame ==
  ASSUME HangsTogether, trashed' = trashed, trashedWith' = trashedWith,
         \A q \in trashed : parent'[q] = parent[q]
  PROVE  HangsTogether'
<1> SUFFICES ASSUME NEW q \in trashed', trashedWith'[q] # NoPage
             PROVE  /\ trashedWith'[q] \in Listed'
                    /\ q \in Below(parent', Stamped(trashedWith[q])', trashedWith'[q])
  BY DEF HangsTogether
<1> DEFINE c == trashedWith[q]
<1>1. c \in Listed' /\ Stamped(c)' = Stamped(c)
  BY DEF HangsTogether, Listed, Stamped
<1>2. Below(parent', Stamped(c), c) = Below(parent, Stamped(c), c)
  BY BelowAgree DEF Stamped
<1> QED
  BY <1>1, <1>2 DEF HangsTogether

LEMMA DeleteHangs ==
  ASSUME TypeOK, HangsTogether, NEW p \in Live, DeletePage(p)
  PROVE  HangsTogether'
<1> DEFINE swept == LiveBelow(p)
<1>1. /\ swept \subseteq Live /\ p \notin swept /\ p \notin trashed /\ p # NoPage
      /\ trashed' = trashed \union {p} \union swept
      /\ trashedWith' = [r \in Page |-> IF r \in swept THEN p
                                        ELSE IF r = p THEN NoPage ELSE trashedWith[r]]
      /\ parent' = parent
  BY BelowClosed, NoPageAssumption DEF DeletePage, Swept, WalkEnds, LiveBelow, Live, TypeOK
<1> SUFFICES ASSUME NEW q \in trashed', NEW c, c = trashedWith'[q], c # NoPage
             PROVE  c \in Listed' /\ q \in Below(parent', Stamped(c)', c)
  BY DEF HangsTogether, Stamped
<1>2. CASE q \in swept
  <2>1. c = p /\ p \in Listed'
    BY <1>1, <1>2 DEF Listed, TypeOK, Live
  <2>2. swept \subseteq Stamped(p)'
    BY <1>1 DEF Stamped, TypeOK, Live
  <2>3. swept \subseteq Below(parent, swept, p)
    BY BelowSelf DEF LiveBelow
  <2>4. Below(parent, swept, p) \subseteq Below(parent, Stamped(p)', p)
    BY <2>2, BelowMonotone
  <2> QED
    BY <1>1, <1>2, <2>1, <2>3, <2>4
<1>3. CASE q \notin swept
  <2>0. q \in Page /\ q # p /\ q \in trashed /\ c = trashedWith[q]
    BY <1>1, <1>3 DEF TypeOK, Live
  <2>1. q \in trashed /\ c = trashedWith[q] /\ c \in Listed
    BY <2>0 DEF HangsTogether
  <2>2. c \in Listed' /\ Stamped(c)' = Stamped(c)
    BY <1>1, <2>1 DEF Listed, Stamped, TypeOK, Live
  <2> QED
    BY <1>1, <2>1, <2>2 DEF HangsTogether
<1> QED
  BY <1>2, <1>3

LEMMA RestoreHangs ==
  ASSUME TypeOK, HangsTogether, NEW p \in Listed, RestorePage(p)
  PROVE  HangsTogether'
<1> SUFFICES ASSUME NEW q \in trashed', NEW c, c = trashedWith'[q], c # NoPage
             PROVE  c \in Listed' /\ q \in Below(parent', Stamped(c)', c)
  BY DEF HangsTogether, Stamped
<1>1. /\ p \in Page /\ p # NoPage /\ trashedWith[p] = NoPage
      /\ q \in Page /\ q \in trashed /\ c = trashedWith[q] /\ c # p
  BY NoPageAssumption DEF RestorePage, Listed, TypeOK
<1>2. c \in Listed /\ q \in Below(parent, Stamped(c), c)
  BY <1>1 DEF HangsTogether
<1>3. c \in Listed' /\ Stamped(c)' = Stamped(c) /\ parent' = parent
  BY <1>1, <1>2 DEF RestorePage, Listed, Stamped, TypeOK
<1> QED
  BY <1>2, <1>3

(* What is removed takes along everything stamped with what is removed.    *)
LEMMA RemoveTakesStamped ==
  ASSUME TypeOK, HangsTogether, NEW gone, ClosedDown(gone),
         NEW q \in trashed, trashedWith[q] \in gone \intersect Page
  PROVE  q \in gone
<1> DEFINE c == trashedWith[q]
           C == Stamped(c) \intersect gone
<1>1. Closed(parent, Stamped(c), c, C)
  BY DEF Closed, ClosedDown, Stamped, TypeOK
<1>2. q \in Below(parent, Stamped(c), c)
  BY NoPageAssumption DEF HangsTogether
<1> QED
  BY <1>1, <1>2, BelowLeast

LEMMA RemoveHangs ==
  ASSUME TypeOK, HangsTogether, NEW gone, ClosedDown(gone), Remove(gone)
  PROVE  HangsTogether'
<1> SUFFICES ASSUME NEW q \in trashed', NEW c, c = trashedWith'[q], c # NoPage
             PROVE  c \in Listed' /\ q \in Below(parent', Stamped(c)', c)
  BY DEF HangsTogether, Stamped
<1>1. /\ q \in Page /\ q \in trashed /\ q \notin gone /\ c = trashedWith[q]
      /\ Stamped(c)' = Stamped(c) \ gone
      /\ \A r \in Stamped(c)' : parent'[r] = parent[r]
  BY DEF Remove, TypeOK, Stamped
<1>2. c \in Listed /\ c \in Page /\ q \in Below(parent, Stamped(c), c)
  BY <1>1 DEF HangsTogether, Listed, TypeOK
<1>3. c \notin gone
  BY <1>1, <1>2, RemoveTakesStamped
<1>4. c \in Listed'
  BY <1>2, <1>3 DEF Remove, Listed, TypeOK
<1> DEFINE B == Below(parent', Stamped(c)', c)
           D == B \union (Stamped(c) \intersect gone)
<1>5. Closed(parent, Stamped(c), c, D)
  <2> SUFFICES ASSUME NEW r \in Stamped(c), parent[r] \in D \union {c}, r \notin gone
               PROVE  r \in B
    BY DEF Closed
  <2>1. parent[r] \notin gone
    BY DEF ClosedDown, Stamped, TypeOK
  <2>2. r \in Stamped(c)' /\ parent'[r] \in B \union {c}
    BY <1>1, <2>1
  <2> QED
    BY <2>2, BelowClosed DEF Closed
<1>6. D \in SUBSET Stamped(c)
  BY <1>1, BelowClosed
<1>7. q \in D
  BY <1>2, <1>5, <1>6, BelowLeast
<1> QED
  BY <1>1, <1>4, <1>7

LEMMA HangsNext == TypeOK /\ HangsTogether /\ [Next]_vars => HangsTogether'
<1> SUFFICES ASSUME TypeOK, HangsTogether, [Next]_vars PROVE HangsTogether'
  OBVIOUS
<1>1. ASSUME NEW p \in Page, NEW t \in Visible \union {NoPage}, CreatePage(p, t)
      PROVE  HangsTogether'
  BY <1>1, HangsFrame DEF CreatePage, TypeOK
<1>2. ASSUME NEW p \in Page, NEW t \in Visible \union {NoPage}, MovePage(p, t)
      PROVE  HangsTogether'
  BY <1>2, HangsFrame DEF MovePage, TypeOK, Live
<1>3. ASSUME RetentionPasses PROVE HangsTogether'
  BY <1>3, HangsFrame DEF RetentionPasses
<1>4. ASSUME UNCHANGED vars PROVE HangsTogether'
  BY <1>4, HangsFrame DEF vars
<1> QED
  BY <1>1, <1>2, DeleteHangs, RestoreHangs, RemoveHangs, <1>3, <1>4, StepCases

LEMMA HangsTogetherImpliesAccounted == TypeOK /\ HangsTogether => TrashAccounted
<1> SUFFICES ASSUME TypeOK, HangsTogether, NEW q \in trashed
             PROVE  \E p \in Listed :
                      /\ q \in Subtree(p)
                      /\ trashedWith[q] \in {p, NoPage}
                      /\ trashedWith[q] = NoPage => q = p
  BY DEF TrashAccounted
<1>1. CASE trashedWith[q] = NoPage
  BY <1>1 DEF Listed, Subtree
<1>2. CASE trashedWith[q] # NoPage
  <2> DEFINE c == trashedWith[q]
  <2>1. c \in Listed /\ q \in Below(parent, Stamped(c), c)
    BY <1>2 DEF HangsTogether
  <2>2. Stamped(c) \subseteq stored
    BY DEF Stamped, TypeOK
  <2> QED
    BY <1>2, <2>1, <2>2, BelowMonotone DEF Subtree
<1> QED
  BY <1>1, <1>2

THEOREM TrashHangsTogether == Spec => []HangsTogether
<1>1. TypeOK /\ HangsTogether /\ [Next]_vars => HangsTogether'
  BY HangsNext
<1> QED
  BY HangsInit, <1>1, TypeCorrect, PTL DEF Spec

(* Nothing is lost in the trash: every trashed page that is not listed is  *)
(* brought back with, and purged with, an entry that is.                   *)
THEOREM NothingLostInTrash == Spec => []TrashAccounted
  BY TypeCorrect, TrashHangsTogether, HangsTogetherImpliesAccounted, PTL

-----------------------------------------------------------------------------
(* Restoring undoes deleting: what a listed page's deletion was seen to    *)
(* take along is what is stamped with it now.  A sweep cannot take some of *)
(* these pages and leave the entry, because all of them are equally old.   *)
SameAge == \A q \in trashed : trashedWith[q] # NoPage => deletedAt[q] = deletedAt[trashedWith[q]]
CarriedIsStamped == \A p \in Listed : carried[p] = Stamped(p)
UndoInv == SameAge /\ CarriedIsStamped

LEMMA UndoInit == Init => UndoInv
  BY DEF Init, UndoInv, SameAge, CarriedIsStamped, Listed

(* A subtree that does not hold c, and is not rooted in a page stamped     *)
(* with c, holds no page stamped with c.                                   *)
LEMMA SubtreeApart ==
  ASSUME TypeOK, HangsTogether, NEW c \in Listed, NEW g \in trashed,
         c \notin Subtree(g), g \notin Stamped(c)
  PROVE  Stamped(c) \intersect Subtree(g) = {}
<1> DEFINE E == Below(parent, stored, g) \ Stamped(c)
<1>1. c \in Page /\ c # NoPage
  BY NoPageAssumption DEF Listed, TypeOK
<1>2. ASSUME NEW r \in Stamped(c) PROVE parent[r] \in Stamped(c) \union {c}
  <2>1. r \in Below(parent, Stamped(c), c)
    BY <1>1 DEF HangsTogether, Stamped
  <2>2. parent[r] \in Below(parent, Stamped(c), c) \union {c}
    BY <2>1, BelowHangs
  <2> QED
    BY <2>2, BelowClosed
<1>3. Closed(parent, stored, g, E)
  BY <1>2, BelowClosed DEF Closed, Subtree
<1>4. Below(parent, stored, g) \subseteq E
  BY <1>3, BelowClosed, BelowLeast
<1> QED
  BY <1>4 DEF Subtree

LEMMA RemoveUndo ==
  ASSUME TypeOK, HangsTogether, UndoInv, NEW gone, ClosedDown(gone), Remove(gone),
         \A c \in Listed \ gone : Stamped(c) \intersect gone = {}
  PROVE  UndoInv'
<1>1. /\ trashed' = trashed \ gone
      /\ \A r \in trashed' : /\ trashedWith'[r] = trashedWith[r]
                             /\ deletedAt'[r] = deletedAt[r]
                             /\ carried'[r] = carried[r]
  BY DEF Remove, TypeOK
<1>2. SameAge'
  <2> SUFFICES ASSUME NEW q \in trashed', NEW c, c = trashedWith'[q], c # NoPage
               PROVE  deletedAt'[q] = deletedAt'[c]
    BY DEF SameAge
  <2>1. q \in trashed /\ q \notin gone /\ c = trashedWith[q] /\ c \in Listed
    BY <1>1 DEF HangsTogether
  <2>2. c \in trashed'
    BY <1>1, <2>1, RemoveTakesStamped DEF Listed, TypeOK
  <2> QED
    BY <1>1, <2>1, <2>2 DEF UndoInv, SameAge
<1>3. CarriedIsStamped'
  <2> SUFFICES ASSUME NEW p \in Listed' PROVE carried'[p] = Stamped(p)'
    BY DEF CarriedIsStamped
  <2>1. p \in Listed \ gone /\ carried'[p] = carried[p]
    BY <1>1 DEF Listed
  <2>2. Stamped(p)' = Stamped(p) \ gone
    BY <1>1 DEF Stamped
  <2> QED
    BY <2>1, <2>2 DEF UndoInv, CarriedIsStamped
<1> QED
  BY <1>2, <1>3 DEF UndoInv

LEMMA PurgeUndo ==
  ASSUME TypeOK, HangsTogether, UndoInv, NEW p \in Listed, PurgePage(p)
  PROVE  UndoInv'
<1>1. \A c \in Listed : p \notin Stamped(c)
  BY NoPageAssumption DEF Listed, Stamped, TypeOK
<1>2. \A c \in Listed \ Subtree(p) : Stamped(c) \intersect Subtree(p) = {}
  BY <1>1, SubtreeApart DEF Listed
<1> QED
  BY <1>2, SubtreeClosedDown, RemoveUndo DEF PurgePage

LEMMA SweepUndo ==
  ASSUME TypeOK, HangsTogether, UndoInv, PurgeExpired
  PROVE  UndoInv'
<1> DEFINE gone == UNION {Subtree(g) : g \in Expired}
<1>1. ASSUME NEW c \in Listed \ gone, NEW g \in Expired
      PROVE  Stamped(c) \intersect Subtree(g) = {}
  <2>1. g \in trashed /\ c \in trashed /\ c # NoPage /\ c \notin Expired /\ c \notin Subtree(g)
    BY NoPageAssumption DEF Expired, Listed, TypeOK, Subtree
  <2>2. g \notin Stamped(c)
    BY <2>1 DEF UndoInv, SameAge, Stamped, Expired
  <2> QED
    BY <2>1, <2>2, SubtreeApart
<1>2. \A c \in Listed \ gone : Stamped(c) \intersect gone = {}
  BY <1>1
<1>3. ClosedDown(gone) /\ Remove(gone)
  BY ExpiredClosedDown DEF PurgeExpired
<1> QED
  BY <1>2, <1>3, RemoveUndo

LEMMA DeleteUndo ==
  ASSUME TypeOK, HangsTogether, UndoInv, NEW p \in Live, DeletePage(p)
  PROVE  UndoInv'
<1> DEFINE swept == LiveBelow(p)
<1>1. /\ swept \subseteq Live /\ p \notin swept /\ p \notin trashed /\ p # NoPage
      /\ trashed' = trashed \union {p} \union swept
      /\ trashedWith' = [r \in Page |-> IF r \in swept THEN p
                                        ELSE IF r = p THEN NoPage ELSE trashedWith[r]]
      /\ deletedAt' = [r \in Page |-> IF r \in swept \union {p} THEN "recent" ELSE deletedAt[r]]
      /\ carried' = [carried EXCEPT ![p] = swept]
  BY BelowClosed, NoPageAssumption DEF DeletePage, Swept, WalkEnds, LiveBelow, Live, TypeOK
<1>2. \A r \in trashed : r \in Page /\ r # p /\ r \notin swept /\ trashedWith'[r] = trashedWith[r]
                         /\ deletedAt'[r] = deletedAt[r] /\ carried'[r] = carried[r]
  BY <1>1 DEF TypeOK, Live
<1>3. \A r \in trashed : trashedWith[r] # NoPage => trashedWith[r] \in trashed /\ trashedWith[r] # p
  BY <1>1 DEF HangsTogether, Listed
<1>4. SameAge'
  <2> SUFFICES ASSUME NEW q \in trashed', trashedWith'[q] # NoPage
               PROVE  deletedAt'[q] = deletedAt'[trashedWith'[q]]
    BY DEF SameAge
  <2>1. CASE q \in trashed
    BY <1>2, <1>3, <2>1 DEF UndoInv, SameAge
  <2>2. CASE q \notin trashed
    BY <1>1, <2>2 DEF TypeOK, Live
  <2> QED
    BY <2>1, <2>2
<1>5. CarriedIsStamped'
  <2> SUFFICES ASSUME NEW r \in Listed' PROVE carried'[r] = Stamped(r)'
    BY DEF CarriedIsStamped
  <2>1. CASE r = p
    BY <1>1, <1>2, <1>3, <2>1 DEF Stamped, TypeOK, Live
  <2>2. CASE r # p
    <3>1. r \in Listed /\ carried'[r] = carried[r]
      BY <1>1, <1>2, <2>2 DEF Listed, TypeOK, Live
    <3>2. Stamped(r)' = Stamped(r)
      BY <1>1, <1>2, <2>2, <3>1, NoPageAssumption DEF Stamped, Listed, TypeOK, Live
    <3> QED
      BY <3>1, <3>2 DEF UndoInv, CarriedIsStamped
  <2> QED
    BY <2>1, <2>2
<1> QED
  BY <1>4, <1>5 DEF UndoInv

LEMMA RestoreUndo ==
  ASSUME TypeOK, HangsTogether, UndoInv, NEW p \in Listed, RestorePage(p)
  PROVE  UndoInv'
<1>1. /\ p \in Page /\ p # NoPage /\ trashedWith[p] = NoPage
      /\ trashed' = trashed \ ({p} \union Stamped(p))
  BY NoPageAssumption DEF RestorePage, Listed, Stamped, TypeOK
<1>2. \A r \in trashed' : /\ r \in Page /\ r \in trashed /\ r # p /\ trashedWith[r] # p
                          /\ trashedWith'[r] = trashedWith[r] /\ deletedAt'[r] = deletedAt[r]
                          /\ carried'[r] = carried[r]
  BY <1>1 DEF RestorePage, Stamped, TypeOK
<1>3. SameAge'
  <2> SUFFICES ASSUME NEW q \in trashed', NEW c, c = trashedWith'[q], c # NoPage
               PROVE  deletedAt'[q] = deletedAt'[c]
    BY DEF SameAge
  <2>1. c = trashedWith[q] /\ c \in Listed /\ c # p
    BY <1>2 DEF HangsTogether
  <2>2. c \in trashed'
    BY <1>1, <2>1 DEF Listed, Stamped
  <2> QED
    BY <1>2, <2>1, <2>2 DEF UndoInv, SameAge
<1>4. CarriedIsStamped'
  <2> SUFFICES ASSUME NEW r \in Listed' PROVE carried'[r] = Stamped(r)'
    BY DEF CarriedIsStamped
  <2>1. r \in Listed /\ r # p /\ r # NoPage /\ carried'[r] = carried[r]
    BY <1>2, NoPageAssumption DEF Listed
  <2>2. Stamped(r)' = Stamped(r)
    BY <1>1, <1>2, <2>1 DEF Stamped
  <2> QED
    BY <2>1, <2>2 DEF UndoInv, CarriedIsStamped
<1> QED
  BY <1>3, <1>4 DEF UndoInv

LEMMA UndoNext == TypeOK /\ HangsTogether /\ UndoInv /\ [Next]_vars => UndoInv'
<1> SUFFICES ASSUME TypeOK, HangsTogether, UndoInv, [Next]_vars PROVE UndoInv'
  OBVIOUS
<1> USE DEF UndoInv, SameAge, CarriedIsStamped, Listed, Stamped
<1>1. ASSUME NEW p \in Page, NEW t \in Visible \union {NoPage}, CreatePage(p, t) PROVE UndoInv'
  BY <1>1 DEF CreatePage
<1>2. ASSUME NEW p \in Page, NEW t \in Visible \union {NoPage}, MovePage(p, t) PROVE UndoInv'
  BY <1>2 DEF MovePage
<1>3. ASSUME RetentionPasses PROVE UndoInv'
  <2>1. \A r \in Page : deletedAt'[r] = IF deletedAt[r] = "recent" THEN "expired" ELSE deletedAt[r]
    BY <1>3 DEF RetentionPasses
  <2>2. \A r \in trashed : trashedWith[r] # NoPage => trashedWith[r] \in trashed
    BY DEF HangsTogether
  <2> QED
    BY <1>3, <2>1, <2>2 DEF RetentionPasses, TypeOK
<1>4. ASSUME UNCHANGED vars PROVE UndoInv'
  BY <1>4 DEF vars
<1> QED
  BY <1>1, <1>2, <1>3, <1>4, DeleteUndo, RestoreUndo, PurgeUndo, SweepUndo DEF Next

Undone ==
  LET revived == trashed \ trashed' IN
  (revived # {} /\ stored' = stored) => \E p \in revived : revived = {p} \union carried[p]

LEMMA RestoreIsUndo ==
  ASSUME TypeOK, UndoInv, NEW p \in Listed, RestorePage(p)
  PROVE  Undone
<1>1. trashed \ trashed' = {p} \union Stamped(p)
  BY DEF RestorePage, Stamped, Listed, TypeOK
<1> QED
  BY <1>1 DEF Undone, UndoInv, CarriedIsStamped

(* Where something leaves the trash alive, it was a restore.               *)
LEMMA StepIsUndo == TypeOK /\ UndoInv /\ [Next]_vars => Undone
<1> SUFFICES ASSUME TypeOK, UndoInv, [Next]_vars PROVE Undone
  OBVIOUS
<1>1. ASSUME NEW p \in Page, NEW t \in Visible \union {NoPage}, CreatePage(p, t) PROVE Undone
  BY <1>1 DEF CreatePage, Undone
<1>2. ASSUME NEW p \in Page, NEW t \in Visible \union {NoPage}, MovePage(p, t) PROVE Undone
  BY <1>2 DEF MovePage, Undone
<1>3. ASSUME NEW p \in Live, DeletePage(p) PROVE Undone
  BY <1>3 DEF DeletePage, Swept, Undone
<1>4. ASSUME NEW gone, Remove(gone) PROVE Undone
  <2>1. stored' = stored => trashed' = trashed
    BY <1>4 DEF Remove, TypeOK
  <2> QED
    BY <2>1 DEF Undone
<1>5. ASSUME RetentionPasses PROVE Undone
  BY <1>5 DEF RetentionPasses, Undone
<1>6. ASSUME UNCHANGED vars PROVE Undone
  BY <1>6 DEF vars, Undone
<1> QED
  BY <1>1, <1>2, <1>3, RestoreIsUndo, <1>4, <1>5, <1>6, StepCases

(* Restoring a listed page brings back the page and exactly the pages its  *)
(* deletion took along, however much happened to the tree in between.      *)
THEOREM RestoreUndoes == Spec => RestoreUndoesDelete
<1>1. TypeOK /\ HangsTogether /\ UndoInv /\ [Next]_vars => UndoInv'
  BY UndoNext
<1>2. Spec => []UndoInv
  BY UndoInit, <1>1, TypeCorrect, TrashHangsTogether, PTL DEF Spec
<1>3. TypeOK /\ UndoInv /\ [Next]_vars => [Undone]_vars
  BY StepIsUndo
<1>4. Spec => [][Undone]_vars
  BY <1>2, <1>3, TypeCorrect, PTL DEF Spec
<1> QED
  BY <1>4 DEF RestoreUndoesDelete, Undone

-----------------------------------------------------------------------------
(* AnySpec: clients with stale screens.  An id that was never drawn cannot *)
(* be a stamp, or drawing it would make a carrier of a live page.          *)
CarrierInv ==
  \A q \in trashed : trashedWith[q] # NoPage =>
    trashedWith[q] \in Listed \union (Page \ (stored \union unused))

LEMMA CarrierNext == TypeOK /\ CarrierInv /\ [AnyNext]_vars => CarrierInv'
<1> SUFFICES ASSUME TypeOK, CarrierInv, [AnyNext]_vars PROVE CarrierInv'
  OBVIOUS
<1> USE NoPageAssumption DEF CarrierInv, TypeOK, Listed, Known, OptPage
<1>1. ASSUME NEW p \in Page, NEW t \in Known \union {NoPage}, CreatePage(p, t) PROVE CarrierInv'
  BY <1>1 DEF CreatePage
<1>2. ASSUME NEW p \in Page, NEW t \in Known \union {NoPage}, MovePage(p, t) PROVE CarrierInv'
  BY <1>2 DEF MovePage
<1>3. ASSUME NEW p \in Known, DeletePage(p) PROVE CarrierInv'
  <2>1. LiveBelow(p) \subseteq Live /\ p \notin LiveBelow(p)
    BY <1>3, BelowClosed DEF LiveBelow, DeletePage, Swept, WalkEnds
  <2> QED
    BY <1>3, <2>1 DEF DeletePage, Swept, Live
<1>4. ASSUME NEW p \in Known, RestorePage(p) PROVE CarrierInv'
  BY <1>4 DEF RestorePage
<1>5. ASSUME NEW gone, Remove(gone) PROVE CarrierInv'
  BY <1>5 DEF Remove
<1>6. ASSUME RetentionPasses PROVE CarrierInv'
  BY <1>6 DEF RetentionPasses
<1>7. ASSUME UNCHANGED vars PROVE CarrierInv'
  BY <1>7 DEF vars
<1> QED
  BY <1>1, <1>2, <1>3, <1>4, <1>5, <1>6, <1>7 DEF AnyNext, PurgePage, PurgeExpired

(* Even with stale screens, a swept-up page waits only for a page that can *)
(* be restored from the trash, or for one that is gone.                    *)
THEOREM CarriersAreInTrash == AnySpec => []CarrierInTrash
<1>1. Init => CarrierInv
  BY DEF Init, CarrierInv
<1>2. TypeOK /\ CarrierInv /\ [AnyNext]_vars => CarrierInv'
  BY CarrierNext
<1>3. CarrierInv => CarrierInTrash
  BY DEF CarrierInv, CarrierInTrash
<1> QED
  BY <1>1, <1>2, <1>3, AnyTypeCorrect, PTL DEF AnySpec

(* Even with stale screens, no step takes a page's row away and leaves a   *)
(* page that hung from it: what a purge or the sweep removes is closed     *)
(* under children.                                                         *)
ChildrenGoAlong ==
  \A q \in stored \intersect stored' :
    (parent[q] \in stored /\ parent'[q] = parent[q]) => parent'[q] \in stored'

LEMMA RemovalsTakeChildren ==
  ASSUME TypeOK, NEW gone, ClosedDown(gone), Remove(gone)
  PROVE  ChildrenGoAlong
  BY DEF ChildrenGoAlong, Remove, ClosedDown, TypeOK

LEMMA StepTakesChildren ==
  ASSUME TypeOK, [AnyNext]_vars
  PROVE  ChildrenGoAlong
<1>1. ASSUME NEW p \in Page, NEW t \in Known \union {NoPage}, CreatePage(p, t) PROVE ChildrenGoAlong
  BY <1>1 DEF CreatePage, ChildrenGoAlong
<1>2. ASSUME NEW p \in Known, PurgePage(p) PROVE ChildrenGoAlong
  BY <1>2, RemovalsTakeChildren, SubtreeClosedDown DEF PurgePage
<1>3. ASSUME PurgeExpired PROVE ChildrenGoAlong
  BY <1>3, RemovalsTakeChildren, ExpiredClosedDown DEF PurgeExpired
<1>4. ASSUME stored' = stored PROVE ChildrenGoAlong
  BY <1>4 DEF ChildrenGoAlong
<1> QED
  BY <1>1, <1>2, <1>3, <1>4
  DEF AnyNext, MovePage, DeletePage, RestorePage, RetentionPasses, vars

THEOREM PurgesTakeChildren == AnySpec => PurgeTakesTheSubtree
<1>1. TypeOK /\ [AnyNext]_vars => [ChildrenGoAlong]_vars
  BY StepTakesChildren
<1>2. AnySpec => [][ChildrenGoAlong]_vars
  BY <1>1, AnyTypeCorrect, PTL DEF AnySpec
<1> QED
  BY <1>2 DEF PurgeTakesTheSubtree, ChildrenGoAlong

-----------------------------------------------------------------------------
(* A purge's stack, as a set.                                              *)
Ids(s) == {s[i] : i \in DOMAIN s}

LEMMA IdsOfRows ==
  ASSUME NEW S, IsFiniteSet(S), NEW s \in RowOrders(S)
  PROVE  /\ s \in Seq(S)
         /\ Ids(s) = S
<1>1. Cardinality(S) \in Nat
  BY FS_CardinalityType
<1>2. s \in [1 .. Cardinality(S) -> S]
  BY DEF RowOrders
<1>3. s \in Seq(S)
  BY <1>1, <1>2, SeqDef
<1>4. Ids(s) = S
  BY <1>2 DEF RowOrders, Ids
<1> QED
  BY <1>3, <1>4

LEMMA IdsOfHead ==
  ASSUME NEW S, NEW s \in Seq(S), s # << >>
  PROVE  Ids(s) = {Head(s)} \union Ids(Tail(s))
<1>1. /\ Len(s) \in Nat /\ Len(s) > 0 /\ DOMAIN s = 1 .. Len(s)
      /\ Len(Tail(s)) = Len(s) - 1 /\ DOMAIN Tail(s) = 1 .. Len(s) - 1
      /\ \A i \in 1 .. Len(s) - 1 : Tail(s)[i] = s[i + 1]
      /\ Head(s) = s[1]
  <2>1. /\ Tail(s) \in Seq(S) /\ Len(Tail(s)) = Len(s) - 1
        /\ \A i \in 1 .. Len(Tail(s)) : Tail(s)[i] = s[i + 1]
    BY HeadTailProperties
  <2>2. Len(s) \in Nat /\ Len(s) > 0 /\ DOMAIN s = 1 .. Len(s)
    BY EmptySeq, LenProperties
  <2>3. DOMAIN Tail(s) = 1 .. Len(Tail(s))
    BY <2>1, LenProperties
  <2>4. Head(s) = s[1]
    BY <2>2
  <2> QED
    BY <2>1, <2>2, <2>3, <2>4
<1>2. ASSUME NEW i \in DOMAIN s PROVE s[i] \in {Head(s)} \union Ids(Tail(s))
  <2>1. CASE i = 1
    BY <2>1, <1>1
  <2>2. CASE i # 1
    <3>1. i - 1 \in 1 .. Len(s) - 1 /\ Tail(s)[i - 1] = s[i]
      BY <2>2, <1>1, <1>2
    <3> QED
      BY <3>1, <1>1 DEF Ids
  <2> QED
    BY <2>1, <2>2
<1>3. ASSUME NEW i \in DOMAIN Tail(s) PROVE Tail(s)[i] \in Ids(s)
  <2>1. i + 1 \in DOMAIN s /\ Tail(s)[i] = s[i + 1]
    BY <1>1, <1>3
  <2> QED
    BY <2>1 DEF Ids
<1>4. Head(s) \in Ids(s)
  BY <1>1 DEF Ids
<1> QED
  BY <1>2, <1>3, <1>4 DEF Ids

LEMMA IdsOfConcat ==
  ASSUME NEW S, NEW s \in Seq(S), NEW t \in Seq(S)
  PROVE  /\ s \o t \in Seq(S)
         /\ Ids(s \o t) = Ids(s) \union Ids(t)
<1>1. /\ s \o t \in Seq(S)
      /\ Len(s \o t) = Len(s) + Len(t)
      /\ \A i \in 1 .. Len(s) + Len(t) :
           (s \o t)[i] = IF i <= Len(s) THEN s[i] ELSE t[i - Len(s)]
  BY ConcatProperties
<1>2. /\ Len(s) \in Nat /\ DOMAIN s = 1 .. Len(s)
      /\ Len(t) \in Nat /\ DOMAIN t = 1 .. Len(t)
      /\ DOMAIN (s \o t) = 1 .. Len(s) + Len(t)
  BY <1>1, LenProperties
<1>3. ASSUME NEW i \in DOMAIN (s \o t) PROVE (s \o t)[i] \in Ids(s) \union Ids(t)
  <2>1. CASE i <= Len(s)
    BY <2>1, <1>1, <1>2, <1>3 DEF Ids
  <2>2. CASE ~(i <= Len(s))
    <3>1. i - Len(s) \in DOMAIN t /\ (s \o t)[i] = t[i - Len(s)]
      BY <2>2, <1>1, <1>2, <1>3
    <3> QED
      BY <3>1 DEF Ids
  <2> QED
    BY <2>1, <2>2
<1>4. ASSUME NEW i \in DOMAIN s PROVE s[i] \in Ids(s \o t)
  <2>1. i \in DOMAIN (s \o t) /\ (s \o t)[i] = s[i]
    BY <1>1, <1>2, <1>4
  <2> QED
    BY <2>1 DEF Ids
<1>5. ASSUME NEW i \in DOMAIN t PROVE t[i] \in Ids(s \o t)
  <2>1. i + Len(s) \in 1 .. Len(s) + Len(t) /\ ~(i + Len(s) <= Len(s))
        /\ (i + Len(s)) - Len(s) = i
    BY <1>2, <1>5
  <2>2. (s \o t)[i + Len(s)] = t[i]
    BY <2>1, <1>1
  <2> QED
    BY <2>1, <2>2, <1>2 DEF Ids
<1> QED
  BY <1>1, <1>3, <1>4, <1>5 DEF Ids

LEMMA IdsInside ==
  ASSUME NEW S, NEW s \in Seq(S)
  PROVE  Ids(s) \subseteq S /\ (Ids(s) = {} => s = << >>)
<1>1. Len(s) \in Nat /\ DOMAIN s = 1 .. Len(s) /\ \A i \in 1 .. Len(s) : s[i] \in S
  BY LenProperties, ElementOfSeq
<1>2. ASSUME s # << >> PROVE s[1] \in Ids(s)
  BY <1>1, <1>2, EmptySeq DEF Ids
<1> QED
  BY <1>1, <1>2 DEF Ids
-----------------------------------------------------------------------------
(* Types.  The table only ever has finitely many rows, a fiber only ever   *)
(* holds rows it has read, and a purge in flight has a page to purge.      *)
Work   == [at : Labels, page : OptPage, target : OptPage,
           frontier : SUBSET Page, found : SUBSET Page, todo : Seq(Page)]
Fibers == h \in [Fiber -> Work]
Purging(w) == w.at \in {"purgeKids", "purgeRow"}
Sound(w)   == IsFiniteSet(w.found) /\ (Purging(w) => w.todo # << >>)
Finite == IsFiniteSet(stored) /\ \A f \in Fiber : Sound(h[f])
Shape  == TypeOK /\ Fibers /\ stops \in 0 .. MaxStops /\ Finite

LEMMA IdleIsWork == Idle \in Work /\ Idle.at = "idle" /\ Sound(Idle)
<1>1. << >> \in Seq(Page)
  BY EmptySeq
<1> QED
  BY <1>1, FS_EmptySet DEF Idle, Work, Labels, OptPage, Sound, Purging

LEMMA LiveStored == LiveBelow(NoPage) \subseteq Live /\ Live \subseteq stored /\ Listed \subseteq trashed
  BY BelowClosed DEF LiveBelow, Live, Listed

(* What a fiber does next is known of it, and nothing changes elsewhere.   *)
LEMMA Turns ==
  ASSUME Fibers, NEW f \in Fiber, NEW w, h' = [h EXCEPT ![f] = w]
  PROVE  /\ h'[f] = w
         /\ \A g \in Fiber \ {f} : h'[g] = h[g]
         /\ w \in Work => Fibers'
  BY DEF Fibers

LEMMA TurnShape ==
  ASSUME Shape, NEW f \in Fiber, NEW w \in Work, h' = [h EXCEPT ![f] = w],
         Sound(w), IsFiniteSet(stored'), TypeOK', UNCHANGED stops
  PROVE  Shape'
<1>1. /\ h'[f] = w
      /\ \A g \in Fiber \ {f} : h'[g] = h[g]
      /\ Fibers'
  BY Turns DEF Shape
<1>2. Finite'
  BY <1>1 DEF Shape, Finite
<1> QED
  BY <1>1, <1>2 DEF Shape

LEMMA SubsetsFinite ==
  ASSUME Shape, NEW S \in SUBSET stored
  PROVE  IsFiniteSet(S)
  BY FS_Subset DEF Shape, Finite

(* Requests.                                                               *)
LEMMA CreateShape ==
  ASSUME Shape, NEW f \in Fiber, NEW p \in Page, NEW t \in Visible \union {NoPage}, Create(f, p, t)
  PROVE  Shape'
<1>1. TypeOK'
  BY LiveStored DEF Create, CreatePage, Shape, TypeOK, OptPage, Visible
<1>2. IsFiniteSet(stored')
  BY FS_AddElement DEF Create, CreatePage, Shape, Finite
<1>3. h' = [h EXCEPT ![f] = Idle] /\ UNCHANGED stops
  BY DEF Create, Start
<1> QED
  BY <1>1, <1>2, <1>3, IdleIsWork, TurnShape

LEMMA MoveCheckShape ==
  ASSUME Shape, NEW f \in Fiber, NEW p \in Live, NEW t \in Visible \union {NoPage}, MoveCheck(f, p, t)
  PROVE  Shape'
<1> DEFINE w == [Idle EXCEPT !.at = "moveWrite", !.page = p, !.target = t]
<1>1. w \in Work /\ w.found = {} /\ (Purging(w) => w.todo # << >>)
  BY LiveStored, EmptySeq DEF Idle, Work, Labels, OptPage, Shape, TypeOK, Visible, Purging
<1>2. h' = [h EXCEPT ![f] = w] /\ UNCHANGED <<table, stops>>
  BY DEF MoveCheck, Start
<1>3. TypeOK' /\ IsFiniteSet(stored')
  BY <1>2 DEF table, Shape, Finite, TypeOK
<1> HIDE DEF w
<1>9. Sound(w)
  BY <1>1, FS_EmptySet DEF Sound
<1> QED
  BY <1>9, <1>1, <1>2, <1>3, TurnShape

LEMMA DeleteStartShape ==
  ASSUME Shape, NEW f \in Fiber, NEW p \in Live, DeleteStart(f, p)
  PROVE  Shape'
<1> DEFINE w == [Idle EXCEPT !.at = "delWalk", !.page = p, !.frontier = {p}]
<1>1. w \in Work /\ w.found = {} /\ (Purging(w) => w.todo # << >>)
  BY LiveStored, EmptySeq DEF Idle, Work, Labels, OptPage, Shape, TypeOK, Purging
<1>2. h' = [h EXCEPT ![f] = w] /\ UNCHANGED <<table, stops>>
  BY DEF DeleteStart, Start
<1>3. TypeOK' /\ IsFiniteSet(stored')
  BY <1>2 DEF table, Shape, Finite, TypeOK
<1> HIDE DEF w
<1>9. Sound(w)
  BY <1>1, FS_EmptySet DEF Sound
<1> QED
  BY <1>9, <1>1, <1>2, <1>3, TurnShape

LEMMA RestoreStartShape ==
  ASSUME Shape, NEW f \in Fiber, NEW p \in Listed, RestoreStart(f, p)
  PROVE  Shape'
<1> DEFINE w == [Idle EXCEPT !.at = "restoreSwept", !.page = p]
<1>1. w \in Work /\ w.found = {} /\ (Purging(w) => w.todo # << >>)
  BY LiveStored, EmptySeq DEF Idle, Work, Labels, OptPage, Shape, TypeOK, Purging
<1>2. h' = [h EXCEPT ![f] = w] /\ UNCHANGED stops
  BY DEF RestoreStart, Start
<1>3. TypeOK' /\ IsFiniteSet(stored')
  BY DEF RestoreStart, Shape, Finite, TypeOK, Age
<1> HIDE DEF w
<1>9. Sound(w)
  BY <1>1, FS_EmptySet DEF Sound
<1> QED
  BY <1>9, <1>1, <1>2, <1>3, TurnShape

LEMMA PurgeStartShape ==
  ASSUME Shape, NEW f \in Fiber, NEW p \in Listed, PurgeStart(f, p)
  PROVE  Shape'
<1> DEFINE w == [Idle EXCEPT !.at = "purgeKids", !.todo = <<p>>]
<1>0. p \in Page /\ <<p>> \in Seq(Page)
  BY LiveStored DEF Shape, TypeOK
<1>1. w \in Work /\ w.found = {} /\ (Purging(w) => w.todo # << >>)
  BY <1>0 DEF Idle, Work, Labels, OptPage, Purging
<1>2. h' = [h EXCEPT ![f] = w] /\ UNCHANGED <<table, stops>>
  BY DEF PurgeStart, Start
<1>3. TypeOK' /\ IsFiniteSet(stored')
  BY <1>2 DEF table, Shape, Finite, TypeOK
<1> HIDE DEF w
<1>9. Sound(w)
  BY <1>1, FS_EmptySet DEF Sound
<1> QED
  BY <1>9, <1>1, <1>2, <1>3, TurnShape

LEMMA SweepStartShape ==
  ASSUME Shape, NEW f \in Fiber, SweepStart(f)
  PROVE  Shape'
<1>1. Expired \subseteq stored /\ stored \subseteq Page
  BY DEF Expired, Shape, TypeOK
<1>2. PICK s \in RowOrders(Expired) :
        Start(f, [Idle EXCEPT !.at = "purgeKids", !.todo = s]) /\ UNCHANGED table
  BY DEF SweepStart
<1> DEFINE w == [Idle EXCEPT !.at = "purgeKids", !.todo = s]
<1>3. s \in Seq(Page) /\ s # << >>
  <2>1. s \in Seq(Expired) /\ Ids(s) = Expired
    BY <1>1, <1>2, SubsetsFinite, IdsOfRows
  <2>2. Expired # {}
    BY DEF SweepStart
  <2> QED
    BY <1>1, <2>1, <2>2 DEF Ids
<1>4. w \in Work /\ w.found = {} /\ (Purging(w) => w.todo # << >>)
  BY <1>3 DEF Idle, Work, Labels, OptPage, Purging
<1>5. h' = [h EXCEPT ![f] = w] /\ UNCHANGED <<table, stops>>
  BY <1>2 DEF Start
<1>6. TypeOK' /\ IsFiniteSet(stored')
  BY <1>5 DEF table, Shape, Finite, TypeOK
<1> HIDE DEF w
<1>9. Sound(w)
  BY <1>4, FS_EmptySet DEF Sound
<1> QED
  BY <1>9, <1>4, <1>5, <1>6, TurnShape
(* Statements.                                                             *)
LEMMA Holds ==
  ASSUME Shape, NEW f \in Fiber
  PROVE  /\ h[f] \in Work /\ IsFiniteSet(h[f].found)
         /\ Purging(h[f]) => h[f].todo # << >>
  BY DEF Shape, Fibers, Finite, Sound

LEMMA MoveWriteShape ==
  ASSUME Shape, NEW f \in Fiber, MoveWrite(f)
  PROVE  Shape'
<1>1. h[f].target \in OptPage
  BY Holds DEF Work
<1>2. TypeOK' /\ IsFiniteSet(stored')
  BY <1>1 DEF MoveWrite, Shape, TypeOK, Finite
<1>3. h' = [h EXCEPT ![f] = Idle] /\ UNCHANGED stops
  BY DEF MoveWrite, Go
<1> QED
  BY <1>2, <1>3, IdleIsWork, TurnShape

LEMMA DeleteWalkShape ==
  ASSUME Shape, NEW f \in Fiber, DeleteWalk(f)
  PROVE  Shape'
<1> DEFINE rows == {q \in Live : parent[q] \in h[f].frontier}
           w == IF rows = {} THEN [h[f] EXCEPT !.at = "delMark", !.frontier = {}]
                ELSE [h[f] EXCEPT !.frontier = rows, !.found = @ \union rows]
<1>1. h[f] \in Work /\ IsFiniteSet(h[f].found)
  BY Holds
<1>2. rows \subseteq Page /\ IsFiniteSet(rows)
  BY SubsetsFinite, LiveStored DEF Shape, TypeOK
<1>3. IsFiniteSet(h[f].found \union rows)
  BY <1>1, <1>2, FS_Union
<1>4. w \in Work
  BY <1>1, <1>2 DEF Work, Labels
<1>5. Sound(w)
  BY <1>1, <1>3 DEF Work, Sound, Purging, DeleteWalk
<1>6. h' = [h EXCEPT ![f] = w] /\ UNCHANGED <<table, stops>>
  BY DEF DeleteWalk, Go
<1>7. TypeOK' /\ IsFiniteSet(stored')
  BY <1>6 DEF table, Shape, Finite, TypeOK
<1> HIDE DEF w
<1> QED
  BY <1>4, <1>5, <1>6, <1>7, TurnShape

LEMMA MarkType ==
  ASSUME TypeOK, NEW S \in SUBSET Page, NEW w \in OptPage, Mark(S, w), carried' \in [Page -> SUBSET Page]
  PROVE  TypeOK'
  BY DEF TypeOK, Mark, Age

LEMMA DeleteMarkShape ==
  ASSUME Shape, NEW f \in Fiber, DeleteMark(f)
  PROVE  Shape'
<1> DEFINE w == IF h[f].found = {} THEN Idle ELSE [h[f] EXCEPT !.at = "delSweep"]
<1>1. h[f] \in Work /\ IsFiniteSet(h[f].found)
  BY Holds
<1>2. w \in Work /\ Sound(w)
  BY <1>1, IdleIsWork DEF Work, Labels, Sound, Purging
<1>3. carried' \in [Page -> SUBSET Page]
  BY <1>1 DEF DeleteMark, Work, Shape, TypeOK
<1>4. h[f].page \in OptPage /\ NoPage \in OptPage /\ {h[f].page} \intersect stored \subseteq Page
  BY <1>1 DEF Work, OptPage, Shape, TypeOK
<1>5. TypeOK' /\ stored' = stored
  BY <1>3, <1>4 DEF DeleteMark, Mark, Shape, TypeOK, Age
<1>6. h' = [h EXCEPT ![f] = w] /\ UNCHANGED stops
  BY DEF DeleteMark, Go
<1>7. IsFiniteSet(stored')
  BY <1>5 DEF Shape, Finite
<1> HIDE DEF w
<1> QED
  BY <1>2, <1>5, <1>6, <1>7, TurnShape

LEMMA DeleteSweepShape ==
  ASSUME Shape, NEW f \in Fiber, DeleteSweep(f)
  PROVE  Shape'
<1>1. h[f].page \in OptPage /\ h[f].found \in SUBSET Page
  BY Holds DEF Work
<1>2. TypeOK'
  BY <1>1, MarkType DEF DeleteSweep, Shape, TypeOK
<1>3. IsFiniteSet(stored')
  BY DEF DeleteSweep, Mark, Shape, Finite
<1>4. h' = [h EXCEPT ![f] = Idle] /\ UNCHANGED stops
  BY DEF DeleteSweep, Go
<1> QED
  BY <1>2, <1>3, <1>4, IdleIsWork, TurnShape

LEMMA RestoreSweptShape ==
  ASSUME Shape, NEW f \in Fiber, RestoreSwept(f)
  PROVE  Shape'
<1>1. TypeOK' /\ IsFiniteSet(stored')
  BY DEF RestoreSwept, Shape, TypeOK, Finite, OptPage, Age
<1>2. h' = [h EXCEPT ![f] = Idle] /\ UNCHANGED stops
  BY DEF RestoreSwept, Go
<1> QED
  BY <1>1, <1>2, IdleIsWork, TurnShape

LEMMA PurgeKidsShape ==
  ASSUME Shape, NEW f \in Fiber, PurgeKids(f)
  PROVE  Shape'
<1> DEFINE kids == {q \in stored : parent[q] = Head(h[f].todo)}
           w == [h[f] EXCEPT !.at = "purgeRow", !.found = kids]
<1>1. h[f] \in Work
  BY Holds
<1>2. kids \subseteq Page /\ IsFiniteSet(kids)
  BY SubsetsFinite DEF Shape, TypeOK
<1>3. w \in Work /\ w.found = kids /\ w.todo = h[f].todo
  BY <1>1, <1>2 DEF Work, Labels
<1>6. h[f].todo # << >>
  BY Holds DEF PurgeKids, Purging
<1>7. Sound(w)
  BY <1>2, <1>3, <1>6 DEF Sound
<1>4. h' = [h EXCEPT ![f] = w] /\ UNCHANGED <<table, stops>>
  BY DEF PurgeKids, Go
<1>5. TypeOK' /\ IsFiniteSet(stored')
  BY <1>4 DEF table, Shape, Finite, TypeOK
<1> HIDE DEF w, kids
<1> QED
  BY <1>3, <1>4, <1>5, <1>7, TurnShape

(* A purge's next stack, in whatever order the children come.              *)
LEMMA NextStack ==
  ASSUME Shape, NEW f \in Fiber, h[f].todo # << >>, NEW s \in RowOrders(h[f].found)
  PROVE  /\ s \o Tail(h[f].todo) \in Seq(Page)
         /\ Ids(s \o Tail(h[f].todo)) = h[f].found \union Ids(Tail(h[f].todo))
<1>1. h[f] \in Work /\ IsFiniteSet(h[f].found)
  BY Holds
<1>2. h[f].todo \in Seq(Page) /\ h[f].found \subseteq Page
  BY <1>1 DEF Work
<1>3. s \in Seq(h[f].found) /\ Ids(s) = h[f].found
  BY <1>1, IdsOfRows
<1>4. s \in Seq(Page)
  BY <1>2, <1>3
<1>5. Tail(h[f].todo) \in Seq(Page)
  BY <1>2, HeadTailProperties
<1> DEFINE t == Tail(h[f].todo)
<1>6. t \in Seq(Page)
  BY <1>5
<1> HIDE DEF t
<1>7. s \o t \in Seq(Page) /\ Ids(s \o t) = Ids(s) \union Ids(t)
  BY <1>4, <1>6, IdsOfConcat
<1> QED
  BY <1>3, <1>7 DEF t

LEMMA PurgeRowShape ==
  ASSUME Shape, NEW f \in Fiber, PurgeRow(f)
  PROVE  Shape'
<1>1. h[f] \in Work /\ h[f].todo # << >>
  BY Holds DEF PurgeRow, Purging
<1>2. PICK s \in RowOrders(h[f].found) :
        Go(f, IF s \o Tail(h[f].todo) = << >> THEN Idle
              ELSE [Idle EXCEPT !.at = "purgeKids", !.todo = s \o Tail(h[f].todo)])
  BY DEF PurgeRow
<1> DEFINE rest == s \o Tail(h[f].todo)
           w == IF rest = << >> THEN Idle ELSE [Idle EXCEPT !.at = "purgeKids", !.todo = rest]
<1>3. rest \in Seq(Page)
  BY <1>1, NextStack
<1>4. h' = [h EXCEPT ![f] = w] /\ UNCHANGED stops
  BY <1>2 DEF Go
<1> HIDE DEF rest
<1>5. w \in Work /\ Sound(w)
  BY <1>3, IdleIsWork, FS_EmptySet DEF Work, Labels, Idle, OptPage, Sound, Purging
<1>6. TypeOK'
  BY RemoveType DEF PurgeRow, Shape
<1>7. IsFiniteSet(stored')
  BY FS_RemoveElement DEF PurgeRow, Remove, Shape, Finite
<1> HIDE DEF w
<1> QED
  BY <1>4, <1>5, <1>6, <1>7, TurnShape

LEMMA StopShape ==
  ASSUME Shape, Stop
  PROVE  Shape'
<1>1. TypeOK'
  BY DEF Stop, table, Shape, TypeOK
<1>2. stops' \in 0 .. MaxStops
  BY StepsAssumption DEF Stop, Shape
<1>3. Fibers' /\ Finite'
  BY IdleIsWork DEF Stop, table, Shape, Fibers, Finite
<1> QED
  BY <1>1, <1>2, <1>3 DEF Shape

LEMMA ClockShape ==
  ASSUME Shape, ClockMoves
  PROVE  Shape'
<1>1. TypeOK'
  BY DEF ClockMoves, RetentionPasses, Shape, TypeOK, Age
<1> QED
  BY <1>1 DEF ClockMoves, RetentionPasses, Shape, Fibers, Finite

LEMMA ShapeNext == Shape /\ [StepsNext]_allVars => Shape'
<1> SUFFICES ASSUME Shape, [StepsNext]_allVars PROVE Shape'
  OBVIOUS
<1>1. ASSUME NEW f \in Fiber, Request(f) PROVE Shape'
  BY <1>1, CreateShape, MoveCheckShape, DeleteStartShape, RestoreStartShape, PurgeStartShape, SweepStartShape
  DEF Request
<1>2. ASSUME NEW f \in Fiber, Statement(f) PROVE Shape'
  BY <1>2, MoveWriteShape, DeleteWalkShape, DeleteMarkShape, DeleteSweepShape, RestoreSweptShape,
     PurgeKidsShape, PurgeRowShape
  DEF Statement
<1>3. CASE UNCHANGED allVars
  BY <1>3 DEF allVars, table, Shape, TypeOK, Fibers, Finite
<1> QED
  BY <1>1, <1>2, <1>3, ClockShape, StopShape DEF StepsNext

LEMMA ShapeInit == StepsInit => Shape
<1> SUFFICES ASSUME StepsInit PROVE Shape
  OBVIOUS
<1>1. TypeOK
  BY TypeInit DEF StepsInit
<1>2. Fibers /\ Finite
  BY IdleIsWork, FS_EmptySet DEF StepsInit, Init, Fibers, Finite
<1> QED
  BY <1>1, <1>2, StepsAssumption DEF Shape, StepsInit

(* Every statement of every handler keeps the table and the fibers in      *)
(* shape, whether requests interleave or not.                              *)
THEOREM StepsTypeCorrect == StepsSpec => []StepsTypeOK
<1>1. Shape => StepsTypeOK
  BY DEF Shape, Fibers, Work, StepsTypeOK
<1> QED
  BY <1>1, ShapeInit, ShapeNext, PTL DEF StepsSpec
-----------------------------------------------------------------------------
(* What PageTree sees of the statements: the table while nothing is in     *)
(* flight, and the table the request found while one is.                   *)
Sight   == <<Seen(1), Seen(2), Seen(3), Seen(4), Seen(5), Seen(6), Seen(7)>>
Refined == [Atomic!Next \/ Stop]_Sight

LEMMA SeenQuiet ==
  ASSUME Quiet
  PROVE  /\ Seen(1) = unused /\ Seen(2) = stored /\ Seen(3) = parent /\ Seen(4) = trashed
         /\ Seen(5) = trashedWith /\ Seen(6) = deletedAt /\ Seen(7) = carried
  BY DEF Seen, table

LEMMA SeenQuietAfter ==
  ASSUME Quiet'
  PROVE  /\ Seen(1)' = unused' /\ Seen(2)' = stored' /\ Seen(3)' = parent' /\ Seen(4)' = trashed'
         /\ Seen(5)' = trashedWith' /\ Seen(6)' = deletedAt' /\ Seen(7)' = carried'
  BY DEF Seen, table

LEMMA SeenBusy ==
  ASSUME ~Quiet
  PROVE  /\ Seen(1) = base[1] /\ Seen(2) = base[2] /\ Seen(3) = base[3] /\ Seen(4) = base[4]
         /\ Seen(5) = base[5] /\ Seen(6) = base[6] /\ Seen(7) = base[7]
  BY DEF Seen

LEMMA SeenBusyAfter ==
  ASSUME ~Quiet'
  PROVE  /\ Seen(1)' = base'[1] /\ Seen(2)' = base'[2] /\ Seen(3)' = base'[3] /\ Seen(4)' = base'[4]
         /\ Seen(5)' = base'[5] /\ Seen(6)' = base'[6] /\ Seen(7)' = base'[7]
  BY DEF Seen

LEMMA AtomicBelow ==
  ASSUME NEW up, NEW S, NEW p
  PROVE  Atomic!Below(up, S, p) = Below(up, S, p)
  BY DEF Atomic!Below, Below, Atomic!Closed, Closed

(* The request in flight has the process to itself.                        *)
Alone == \A f, g \in Fiber : h[f] # Idle /\ h[g] # Idle => f = g

(* A request that starts sees the table as it is; nobody has seen more     *)
(* until it is answered.                                                   *)
LEMMA Starts ==
  ASSUME Serial, Fibers, NEW f \in Fiber, NEW w, Start(f, w), w # Idle
  PROVE  /\ h'[f] = w
         /\ \A g \in Fiber \ {f} : h'[g] = Idle
         /\ base' = table
         /\ ~Quiet'
         /\ Sight' = Sight
<1>1. Quiet
  BY DEF Start
<1>2. h'[f] = w /\ \A g \in Fiber \ {f} : h'[g] = Idle
  BY <1>1 DEF Start, Quiet, Fibers
<1>3. base' = table
  BY DEF Start
<1>4. ~Quiet'
  BY <1>2 DEF Quiet
<1>5. Sight' = Sight
  BY <1>1, <1>3, <1>4, SeenQuiet, SeenBusyAfter DEF Sight, table
<1> QED
  BY <1>2, <1>3, <1>4, <1>5

LEMMA Continues ==
  ASSUME Fibers, Alone, NEW f \in Fiber, h[f].at # "idle", NEW w, Go(f, w)
  PROVE  /\ ~Quiet
         /\ h'[f] = w
         /\ \A g \in Fiber \ {f} : h'[g] = Idle
         /\ w # Idle => base' = base /\ ~Quiet' /\ Sight' = Sight
         /\ w = Idle => Quiet'
<1>1. h[f] # Idle /\ ~Quiet
  BY DEF Idle, Quiet
<1>2. h'[f] = w /\ \A g \in Fiber \ {f} : h'[g] = Idle
  BY <1>1 DEF Alone, Fibers, Go
<1>3. w = Idle => Quiet'
  BY <1>2 DEF Quiet
<1>4. ASSUME w # Idle PROVE base' = base /\ ~Quiet'
  BY <1>2, <1>4 DEF Quiet, Go
<1>5. ASSUME w # Idle PROVE Sight' = Sight
  BY <1>1, <1>4, <1>5, SeenBusy, SeenBusyAfter DEF Sight
<1> QED
  BY <1>1, <1>2, <1>3, <1>4, <1>5
-----------------------------------------------------------------------------
(* What holds of the request in flight, by where it stands: what the table *)
(* it found (base) has become, and what it has read of it.                 *)
Untouched == base = table

Moving(w) ==
  /\ Untouched
  /\ w.page \in Live
  /\ w.target \in Visible \union {NoPage} /\ w.target # w.page
  /\ w.target # NoPage => WalkEnds(w.page) /\ w.target \notin LiveBelow(w.page)

(* Pages below themselves, through which a ring passes.                    *)
OnRing(p) == {q \in Live : p \in LiveBelow(q)}

(* The frontier is all of what was found whose children have not been      *)
(* looked for, and on a ring it does not run out.                          *)
Walking(w) ==
  /\ Untouched
  /\ w.page \in Live
  /\ w.found \subseteq LiveBelow(w.page)
  /\ w.frontier \subseteq w.found \union {w.page}
  /\ \A q \in Live : parent[q] \in (w.found \union {w.page}) \ w.frontier => q \in w.found
  /\ w.page \in LiveBelow(w.page) => w.frontier \intersect OnRing(w.page) # {}

Walked(w) ==
  /\ Untouched
  /\ w.page \in Live
  /\ w.found = LiveBelow(w.page)
  /\ w.page \notin w.found

WasBelow(p) == Below(base[3], base[2] \ base[4], p)

Marked(w) ==
  /\ w.page \in base[2] \ base[4]
  /\ w.found = WasBelow(w.page)
  /\ w.page \notin w.found
  /\ w.found # {}
  /\ unused = base[1] /\ stored = base[2] /\ parent = base[3]
  /\ trashed = base[4] \union {w.page}
  /\ trashedWith = [q \in Page |-> IF q = w.page THEN NoPage ELSE base[5][q]]
  /\ deletedAt = [q \in Page |-> IF q = w.page THEN "recent" ELSE base[6][q]]
  /\ carried = [base[7] EXCEPT ![w.page] = w.found \union (IF w.page \in base[4] THEN @ ELSE {})]

Restoring(w) ==
  /\ w.page \in base[4]
  /\ base[5][w.page] = NoPage
  /\ unused = base[1] /\ stored = base[2] /\ parent = base[3] /\ trashedWith = base[5]
  /\ trashed = base[4] \ {w.page}
  /\ deletedAt = [base[6] EXCEPT ![w.page] = "none"]
  /\ carried = [base[7] EXCEPT ![w.page] = {}]

(* A purge: gone has left the table it found, and with what is on the      *)
(* stack it holds the roots and every child of gone, and nothing that is   *)
(* not below a root.                                                       *)
Gone == base[2] \ stored

Emptied ==
  /\ base[4] \subseteq base[2] /\ base[2] \subseteq Page /\ stored \subseteq base[2]
  /\ unused = base[1]
  /\ trashed = base[4] \ Gone
  /\ parent = [q \in Page |-> IF q \in Gone THEN NoPage ELSE base[3][q]]
  /\ trashedWith = [q \in Page |-> IF q \in Gone THEN NoPage ELSE base[5][q]]
  /\ deletedAt = [q \in Page |-> IF q \in Gone THEN "none" ELSE base[6][q]]
  /\ carried = [q \in Page |-> IF q \in Gone THEN {} ELSE base[7][q]]

Roots ==
  {R \in SUBSET base[4] :
     \/ R # {} /\ R = {p \in base[4] : base[6][p] = "expired"}
     \/ \E p \in base[4] : base[5][p] = NoPage /\ R = {p}}

WasSubtree(p) == {p} \union Below(base[3], base[2], p)
Goal(R)       == UNION {WasSubtree(p) : p \in R}

Takes(R, gone, S) ==
  /\ R \subseteq S
  /\ S \subseteq Goal(R)
  /\ \A q \in base[2] : base[3][q] \in gone => q \in S

Emptying(w) ==
  /\ Emptied
  /\ \E R \in Roots : Takes(R, Gone, Gone \union Ids(w.todo))

InFlight(w) ==
  /\ w.at = "moveWrite"    => Moving(w)
  /\ w.at = "delWalk"      => Walking(w)
  /\ w.at = "delMark"      => Walked(w)
  /\ w.at = "delSweep"     => Marked(w)
  /\ w.at = "restoreSwept" => Restoring(w)
  /\ w.at = "purgeKids"    => Emptying(w)
  /\ w.at = "purgeRow"     => Emptying(w) /\ w.found = {q \in stored : parent[q] = Head(w.todo)}

SerialInv == Alone /\ \A f \in Fiber : InFlight(h[f])

LEMMA TurnSerial ==
  ASSUME NEW f \in Fiber, \A g \in Fiber \ {f} : h'[g] = Idle, InFlight(h[f])'
  PROVE  SerialInv'
<1>1. Alone'
  BY DEF Alone
<1>2. ASSUME NEW g \in Fiber \ {f} PROVE InFlight(h[g])'
  BY <1>2 DEF InFlight, Idle
<1> QED
  BY <1>1, <1>2 DEF SerialInv

LEMMA AllIdle ==
  ASSUME Quiet'
  PROVE  SerialInv'
<1>1. \A f \in Fiber : h'[f] = Idle
  BY DEF Quiet
<1>2. ASSUME NEW f \in Fiber PROVE InFlight(h[f])'
  BY <1>1, <1>2 DEF InFlight, Idle
<1> QED
  BY <1>1, <1>2 DEF SerialInv, Alone

-----------------------------------------------------------------------------
(* The walk over the descendants.                                          *)

(* Whatever is below q is below a child of q, or is one.                   *)
LEMMA BelowHead ==
  ASSUME NEW up, NEW S, NEW q, NEW p \in Below(up, S, q)
  PROVE  \E r \in S : up[r] = q /\ (p = r \/ p \in Below(up, S, r))
<1> DEFINE C == {x \in S : \E r \in S : up[r] = q /\ (x = r \/ x \in Below(up, S, r))}
<1>1. ASSUME NEW x \in S, up[x] \in C \union {q} PROVE x \in C
  <2>1. CASE up[x] = q
    BY <2>1
  <2>2. CASE up[x] # q
    <3>1. PICK r \in S : up[r] = q /\ (up[x] = r \/ up[x] \in Below(up, S, r))
      BY <1>1, <2>2
    <3>2. Closed(up, S, r, Below(up, S, r))
      BY BelowClosed
    <3>3. x \in Below(up, S, r)
      BY <3>1, <3>2 DEF Closed
    <3> QED
      BY <3>1, <3>3
  <2> QED
    BY <2>1, <2>2
<1>2. C \in SUBSET S /\ Closed(up, S, q, C)
  BY <1>1 DEF Closed
<1> QED
  BY <1>2, BelowLeast

LEMMA RingGoesOn ==
  ASSUME NEW p, p \in LiveBelow(p), NEW q \in OnRing(p)
  PROVE  \E r \in OnRing(p) : parent[r] = q
<1>1. PICK r \in Live : parent[r] = q /\ (p = r \/ p \in LiveBelow(r))
  BY BelowHead DEF OnRing, LiveBelow
<1> QED
  BY <1>1 DEF OnRing

LEMMA WalkStep ==
  ASSUME NEW f \in Fiber, h[f].at = "delWalk", Walking(h[f])
  PROVE  LET rows == {q \in Live : parent[q] \in h[f].frontier}
             p    == h[f].page
         IN  /\ rows = {} => h[f].found = LiveBelow(p) /\ p \notin LiveBelow(p)
             /\ rows \subseteq LiveBelow(p)
             /\ \A q \in Live : parent[q] \in ((h[f].found \union rows) \union {p}) \ rows
                                  => q \in h[f].found \union rows
             /\ p \in LiveBelow(p) => rows \intersect OnRing(p) # {}
<1> DEFINE rows == {q \in Live : parent[q] \in h[f].frontier}
           p    == h[f].page
<1>1. LiveBelow(p) \subseteq Live /\ Closed(parent, Live, p, LiveBelow(p))
  BY BelowClosed DEF LiveBelow
<1>2. /\ h[f].found \subseteq LiveBelow(p)
      /\ h[f].frontier \subseteq h[f].found \union {p}
      /\ \A q \in Live : parent[q] \in (h[f].found \union {p}) \ h[f].frontier => q \in h[f].found
      /\ p \in LiveBelow(p) => h[f].frontier \intersect OnRing(p) # {}
  BY DEF Walking
<1>3. rows \subseteq LiveBelow(p)
  BY <1>1, <1>2 DEF Closed
<1>4. \A q \in Live : parent[q] \in h[f].found \union {p} => q \in h[f].found \union rows
  BY <1>2
<1>5. p \in LiveBelow(p) => rows \intersect OnRing(p) # {}
  <2> SUFFICES ASSUME p \in LiveBelow(p) PROVE rows \intersect OnRing(p) # {}
    OBVIOUS
  <2>1. PICK q \in h[f].frontier : q \in OnRing(p)
    BY <1>2
  <2>2. PICK r \in OnRing(p) : parent[r] = q
    BY <2>1, RingGoesOn
  <2> QED
    BY <2>1, <2>2 DEF OnRing
<1>6. ASSUME rows = {} PROVE h[f].found = LiveBelow(p)
  <2>1. h[f].found \in SUBSET Live /\ Closed(parent, Live, p, h[f].found)
    BY <1>1, <1>2, <1>4, <1>6 DEF Closed
  <2>2. LiveBelow(p) \subseteq h[f].found
    BY <2>1, BelowLeast DEF LiveBelow
  <2> QED
    BY <1>2, <2>2
<1> QED
  BY <1>3, <1>4, <1>5, <1>6
-----------------------------------------------------------------------------
(* A request that starts leaves what PageTree sees alone.                  *)
LEMMA MoveCheckSerial ==
  ASSUME Serial, Shape, NEW f \in Fiber, NEW p \in Live, NEW t \in Visible \union {NoPage}, MoveCheck(f, p, t)
  PROVE  SerialInv' /\ Refined
<1> DEFINE w == [Idle EXCEPT !.at = "moveWrite", !.page = p, !.target = t]
<1>1. w.at = "moveWrite" /\ w.page = p /\ w.target = t /\ w # Idle
  BY DEF Idle
<1>2. Start(f, w) /\ UNCHANGED table
  BY DEF MoveCheck
<1> HIDE DEF w
<1>3. h'[f] = w /\ (\A g \in Fiber \ {f} : h'[g] = Idle) /\ base' = table /\ Sight' = Sight
  BY <1>1, <1>2, Starts DEF Shape
<1>4. Moving(h[f])'
  <2>1. Untouched'
    BY <1>2, <1>3 DEF Untouched
  <2>2. UNCHANGED <<stored, trashed, parent>>
    BY <1>2 DEF table
  <2>3. Live' = Live /\ Visible' = Visible /\ LiveBelow(p)' = LiveBelow(p)
    BY <2>2 DEF Live, Visible, LiveBelow
  <2>4. h'[f].page = p /\ h'[f].target = t
    BY <1>1, <1>3
  <2>5. t # p /\ (t # NoPage => p \notin LiveBelow(p) /\ t \notin LiveBelow(p))
    BY DEF MoveCheck, WalkEnds
  <2>6. LiveBelow(h[f].page)' = LiveBelow(p)
    BY <2>2, <2>4 DEF LiveBelow, Live
  <2> QED
    BY <2>1, <2>3, <2>4, <2>5, <2>6 DEF Moving, WalkEnds
<1>5. InFlight(h[f])'
  BY <1>1, <1>3, <1>4 DEF InFlight
<1> QED
  BY <1>3, <1>5, TurnSerial DEF Refined

LEMMA DeleteStartSerial ==
  ASSUME Serial, Shape, NEW f \in Fiber, NEW p \in Live, DeleteStart(f, p)
  PROVE  SerialInv' /\ Refined
<1> DEFINE w == [Idle EXCEPT !.at = "delWalk", !.page = p, !.frontier = {p}]
<1>1. w.at = "delWalk" /\ w.page = p /\ w.frontier = {p} /\ w.found = {} /\ w # Idle
  BY DEF Idle
<1>2. Start(f, w) /\ UNCHANGED table
  BY DEF DeleteStart
<1> HIDE DEF w
<1>3. h'[f] = w /\ (\A g \in Fiber \ {f} : h'[g] = Idle) /\ base' = table /\ Sight' = Sight
  BY <1>1, <1>2, Starts DEF Shape
<1>4. Walking(h[f])'
  <2>1. Untouched'
    BY <1>2, <1>3 DEF Untouched
  <2>2. UNCHANGED <<stored, trashed, parent>>
    BY <1>2 DEF table
  <2>3. h'[f].page = p /\ h'[f].frontier = {p} /\ h'[f].found = {}
    BY <1>1, <1>3
  <2>4. p \in Live'
    BY <2>2 DEF Live
  <2>5. LiveBelow(h[f].page)' = LiveBelow(p)' /\ OnRing(h[f].page)' = OnRing(p)'
    BY <2>3 DEF LiveBelow, OnRing
  <2>6. p \in LiveBelow(p)' => p \in OnRing(p)'
    BY <2>4 DEF OnRing
  <2> QED
    BY <2>1, <2>3, <2>4, <2>5, <2>6 DEF Walking
<1>5. InFlight(h[f])'
  BY <1>1, <1>3, <1>4 DEF InFlight
<1> QED
  BY <1>3, <1>5, TurnSerial DEF Refined

LEMMA RestoreStartSerial ==
  ASSUME Serial, Shape, NEW f \in Fiber, NEW p \in Listed, RestoreStart(f, p)
  PROVE  SerialInv' /\ Refined
<1> DEFINE w == [Idle EXCEPT !.at = "restoreSwept", !.page = p]
<1>1. w.at = "restoreSwept" /\ w.page = p /\ w # Idle
  BY DEF Idle
<1>2. Start(f, w)
  BY DEF RestoreStart
<1> HIDE DEF w
<1>3. h'[f] = w /\ (\A g \in Fiber \ {f} : h'[g] = Idle) /\ base' = table /\ Sight' = Sight
  BY <1>1, <1>2, Starts DEF Shape
<1>4. Restoring(h[f])'
  <2>1. h'[f].page = p
    BY <1>1, <1>3
  <2>2. /\ base'[1] = unused /\ base'[2] = stored /\ base'[3] = parent /\ base'[4] = trashed
        /\ base'[5] = trashedWith /\ base'[6] = deletedAt /\ base'[7] = carried
    BY <1>3 DEF table
  <2>3. p \in trashed /\ trashedWith[p] = NoPage
    BY DEF Listed
  <2> QED
    BY <2>1, <2>2, <2>3 DEF Restoring, RestoreStart
<1>5. InFlight(h[f])'
  BY <1>1, <1>3, <1>4 DEF InFlight
<1> QED
  BY <1>3, <1>5, TurnSerial DEF Refined

(* A purge that starts has removed nothing yet; its roots are on the stack. *)
LEMMA EmptyingStarts ==
  ASSUME Shape, base' = table, UNCHANGED table, NEW R \in SUBSET trashed,
         \/ R # {} /\ R = Expired
         \/ \E p \in Listed : R = {p},
         NEW s, Ids(s) = R
  PROVE  Emptied' /\ R \in Roots' /\ Takes(R, Gone, Gone \union Ids(s))'
<1>1. /\ base'[1] = unused /\ base'[2] = stored /\ base'[3] = parent /\ base'[4] = trashed
      /\ base'[5] = trashedWith /\ base'[6] = deletedAt /\ base'[7] = carried
  BY DEF table
<1>2. /\ unused' = unused /\ stored' = stored /\ parent' = parent /\ trashed' = trashed
      /\ trashedWith' = trashedWith /\ deletedAt' = deletedAt /\ carried' = carried
  BY DEF table
<1>3. Gone' = {}
  BY <1>1, <1>2 DEF Gone
<1>4. Emptied'
  BY <1>1, <1>2, <1>3 DEF Emptied, Shape, TypeOK
<1>5. R \in Roots'
  BY <1>1 DEF Roots, Expired, Listed
<1>6. R \subseteq Goal(R)'
  BY DEF Goal, WasSubtree
<1>7. Takes(R, Gone, Gone \union Ids(s))'
  BY <1>3, <1>6 DEF Takes
<1> QED
  BY <1>4, <1>5, <1>7

LEMMA PurgeStartSerial ==
  ASSUME Serial, Shape, NEW f \in Fiber, NEW p \in Listed, PurgeStart(f, p)
  PROVE  SerialInv' /\ Refined
<1> DEFINE w == [Idle EXCEPT !.at = "purgeKids", !.todo = <<p>>]
<1>1. w.at = "purgeKids" /\ w.todo = <<p>> /\ w # Idle
  BY DEF Idle
<1>2. Start(f, w) /\ UNCHANGED table
  BY DEF PurgeStart
<1> HIDE DEF w
<1>3. h'[f] = w /\ (\A g \in Fiber \ {f} : h'[g] = Idle) /\ base' = table /\ Sight' = Sight
  BY <1>1, <1>2, Starts DEF Shape
<1>4. Ids(<<p>>) = {p} /\ {p} \in SUBSET trashed
  BY DEF Ids, Listed
<1>5. Emptied' /\ {p} \in Roots' /\ Takes({p}, Gone, Gone \union Ids(<<p>>))'
  BY <1>2, <1>3, <1>4, EmptyingStarts
<1>6. Emptying(h[f])'
  BY <1>1, <1>3, <1>5 DEF Emptying
<1>7. InFlight(h[f])'
  BY <1>1, <1>3, <1>6 DEF InFlight
<1> QED
  BY <1>3, <1>7, TurnSerial DEF Refined

LEMMA SweepStartSerial ==
  ASSUME Serial, Shape, NEW f \in Fiber, SweepStart(f)
  PROVE  SerialInv' /\ Refined
<1>1. PICK s \in RowOrders(Expired) :
        Start(f, [Idle EXCEPT !.at = "purgeKids", !.todo = s]) /\ UNCHANGED table
  BY DEF SweepStart
<1> DEFINE w == [Idle EXCEPT !.at = "purgeKids", !.todo = s]
<1>2. w.at = "purgeKids" /\ w.todo = s /\ w # Idle
  BY DEF Idle
<1>3. Start(f, w)
  BY <1>1
<1> HIDE DEF w
<1>4. h'[f] = w /\ (\A g \in Fiber \ {f} : h'[g] = Idle) /\ base' = table /\ Sight' = Sight
  BY <1>2, <1>3, Starts DEF Shape
<1>5. PICK R : R = Expired
  OBVIOUS
<1>6. Ids(s) = R /\ R \in SUBSET trashed /\ R # {}
  <2>1. Expired \subseteq stored /\ Expired \subseteq trashed
    BY DEF Expired, Shape, TypeOK
  <2> QED
    BY <2>1, <1>1, <1>5, SubsetsFinite, IdsOfRows DEF SweepStart
<1>7. Emptied' /\ R \in Roots' /\ Takes(R, Gone, Gone \union Ids(s))'
  BY <1>1, <1>4, <1>5, <1>6, EmptyingStarts
<1>8. Emptying(h[f])'
  BY <1>2, <1>4, <1>7 DEF Emptying
<1>9. InFlight(h[f])'
  BY <1>2, <1>4, <1>8 DEF InFlight
<1> QED
  BY <1>4, <1>9, TurnSerial DEF Refined
-----------------------------------------------------------------------------
(* The statement that ends a request is PageTree's step.                   *)
LEMMA SeenUntouched ==
  ASSUME Untouched
  PROVE  /\ Seen(1) = unused /\ Seen(2) = stored /\ Seen(3) = parent /\ Seen(4) = trashed
         /\ Seen(5) = trashedWith /\ Seen(6) = deletedAt /\ Seen(7) = carried
  BY DEF Untouched, Seen, table

LEMMA SameWalks ==
  ASSUME Seen(2) = stored, Seen(3) = parent, Seen(4) = trashed, Seen(5) = trashedWith
  PROVE  /\ Atomic!Live = Live
         /\ \A p : Atomic!LiveBelow(p) = LiveBelow(p)
         /\ Atomic!Visible = Visible
         /\ Atomic!Listed = Listed
         /\ \A p : Atomic!WalkEnds(p) <=> WalkEnds(p)
<1>1. Atomic!Live = Live
  BY DEF Atomic!Live, Live
<1>2. ASSUME NEW p PROVE Atomic!LiveBelow(p) = LiveBelow(p)
  BY <1>1, AtomicBelow DEF Atomic!LiveBelow, LiveBelow
<1>3. Atomic!Visible = Visible
  BY <1>2 DEF Atomic!Visible, Visible
<1>4. Atomic!Listed = Listed
  BY DEF Atomic!Listed, Listed
<1> QED
  BY <1>1, <1>2, <1>3, <1>4 DEF Atomic!WalkEnds, WalkEnds

LEMMA CreateRefined ==
  ASSUME Serial, Shape, NEW f \in Fiber, NEW p \in Page, NEW t \in Visible \union {NoPage}, Create(f, p, t)
  PROVE  SerialInv' /\ Refined
<1>1. Quiet
  BY DEF Create, Start
<1>2. Quiet'
  BY <1>1 DEF Create, Start, Quiet, Shape, Fibers
<1>3. Atomic!Visible = Visible
  BY <1>1, SeenQuiet, SameWalks
<1>4. Atomic!CreatePage(p, t)
  BY <1>1, <1>2, SeenQuiet, SeenQuietAfter DEF Atomic!CreatePage, Create, CreatePage
<1> QED
  BY <1>2, <1>3, <1>4, AllIdle DEF Refined, Atomic!Next

LEMMA ClockRefined ==
  ASSUME Serial, Shape, ClockMoves
  PROVE  SerialInv' /\ Refined
<1>1. Quiet /\ Quiet'
  BY DEF ClockMoves, Quiet
<1>2. Atomic!RetentionPasses
  BY <1>1, SeenQuiet, SeenQuietAfter DEF Atomic!RetentionPasses, ClockMoves, RetentionPasses
<1> QED
  BY <1>1, <1>2, AllIdle DEF Refined, Atomic!Next

LEMMA StopRefined ==
  ASSUME Stop
  PROVE  SerialInv' /\ Refined
<1>1. Quiet'
  BY DEF Stop, Quiet
<1> QED
  BY <1>1, AllIdle DEF Refined

LEMMA MoveWriteRefined ==
  ASSUME Shape, SerialInv, NEW f \in Fiber, MoveWrite(f)
  PROVE  SerialInv' /\ Refined
<1>1. PICK p, t : p = h[f].page /\ t = h[f].target
  OBVIOUS
<1>2. h[f].at = "moveWrite" /\ Go(f, Idle)
  BY DEF MoveWrite
<1>3. Moving(h[f])
  BY <1>2 DEF SerialInv, InFlight
<1>4. ~Quiet /\ Quiet'
  BY <1>2, Continues DEF SerialInv, Shape
<1>5. /\ Seen(1) = unused /\ Seen(2) = stored /\ Seen(3) = parent /\ Seen(4) = trashed
      /\ Seen(5) = trashedWith /\ Seen(6) = deletedAt /\ Seen(7) = carried
  BY <1>3, SeenUntouched DEF Moving
<1>6. /\ Atomic!Live = Live
      /\ \A q : Atomic!LiveBelow(q) = LiveBelow(q)
      /\ Atomic!Visible = Visible
      /\ \A q : Atomic!WalkEnds(q) <=> WalkEnds(q)
  BY <1>5, SameWalks
<1>7. p \in Live /\ p \in Page /\ t \in Visible \union {NoPage} /\ t # p
      /\ (t # NoPage => WalkEnds(p) /\ t \notin LiveBelow(p))
  BY <1>1, <1>3 DEF Moving, Live, Shape, TypeOK
<1>8. parent' = [parent EXCEPT ![p] = t]
      /\ UNCHANGED <<unused, stored, trashed, trashedWith, deletedAt, carried>>
  BY <1>1, <1>7 DEF MoveWrite
<1>9. Atomic!MovePage(p, t)
  BY <1>4, <1>5, <1>6, <1>7, <1>8, SeenQuietAfter DEF Atomic!MovePage
<1> QED
  BY <1>4, <1>6, <1>7, <1>9, AllIdle DEF Refined, Atomic!Next

LEMMA DeleteWalkRefined ==
  ASSUME Shape, SerialInv, NEW f \in Fiber, DeleteWalk(f)
  PROVE  SerialInv' /\ Refined
<1> DEFINE rows == {q \in Live : parent[q] \in h[f].frontier}
           w == IF rows = {} THEN [h[f] EXCEPT !.at = "delMark", !.frontier = {}]
                ELSE [h[f] EXCEPT !.frontier = rows, !.found = @ \union rows]
<1>1. PICK p : p = h[f].page
  OBVIOUS
<1>2. h[f].at = "delWalk" /\ Go(f, w) /\ h[f] \in Work /\ UNCHANGED table
  BY Holds DEF DeleteWalk
<1>3. Walking(h[f])
  BY <1>2 DEF SerialInv, InFlight
<1>4. /\ rows = {} => h[f].found = LiveBelow(p) /\ p \notin LiveBelow(p)
      /\ rows \subseteq LiveBelow(p)
      /\ \A q \in Live : parent[q] \in ((h[f].found \union rows) \union {p}) \ rows
                           => q \in h[f].found \union rows
      /\ p \in LiveBelow(p) => rows \intersect OnRing(p) # {}
  BY <1>1, <1>2, <1>3, WalkStep
<1>5. /\ w.page = p
      /\ rows = {} => w.at = "delMark" /\ w.found = h[f].found
      /\ rows # {} => w.at = "delWalk" /\ w.found = h[f].found \union rows /\ w.frontier = rows
      /\ w # Idle
  BY <1>1, <1>2 DEF Work, Idle
<1>6. PICK R, v : R = rows /\ v = w
  OBVIOUS
<1>7. h'[f] = v /\ (\A g \in Fiber \ {f} : h'[g] = Idle) /\ base' = base /\ Sight' = Sight
  <2> HIDE DEF w
  <2> QED
    BY <1>2, <1>5, <1>6, Continues DEF SerialInv, Shape
<1>8. /\ UNCHANGED <<stored, trashed, parent>>
      /\ Untouched'
      /\ p \in Live
      /\ h[f].found \subseteq LiveBelow(p)
  BY <1>1, <1>2, <1>3, <1>7 DEF table, Walking, Untouched
<1>9. Live' = Live /\ LiveBelow(p)' = LiveBelow(p) /\ OnRing(p)' = OnRing(p)
  BY <1>8 DEF Live, LiveBelow, OnRing
<1>10. CASE rows = {}
  <2>1. v.at = "delMark" /\ v.page = p /\ v.found = LiveBelow(p) /\ p \notin LiveBelow(p)
    BY <1>4, <1>5, <1>6, <1>10
  <2>2. LiveBelow(h[f].page)' = LiveBelow(p)'
    BY <2>1, <1>7 DEF LiveBelow
  <2>3. Walked(h[f])'
    BY <2>1, <2>2, <1>7, <1>8, <1>9 DEF Walked
  <2>4. InFlight(h[f])'
    BY <2>1, <2>3, <1>7 DEF InFlight
  <2> QED
    BY <2>4, <1>7, TurnSerial DEF Refined
<1>11. CASE rows # {}
  <2>1. /\ v.at = "delWalk" /\ v.page = p /\ v.found \subseteq LiveBelow(p)
        /\ v.frontier \subseteq v.found
        /\ \A q \in Live : parent[q] \in (v.found \union {p}) \ v.frontier => q \in v.found
        /\ p \in LiveBelow(p) => v.frontier \intersect OnRing(p) # {}
    <3>1. v.at = "delWalk" /\ v.page = p /\ v.found = h[f].found \union R /\ v.frontier = R
      BY <1>5, <1>6, <1>11
    <3> HIDE DEF rows
    <3> QED
      BY <3>1, <1>4, <1>6, <1>8
  <2>2. LiveBelow(h[f].page)' = LiveBelow(p)' /\ OnRing(h[f].page)' = OnRing(p)'
    BY <2>1, <1>7 DEF LiveBelow, OnRing
  <2>3. Walking(h[f])'
    BY <2>1, <2>2, <1>7, <1>8, <1>9 DEF Walking
  <2>4. InFlight(h[f])'
    BY <2>1, <2>3, <1>7 DEF InFlight
  <2> QED
    BY <2>4, <1>7, TurnSerial DEF Refined
<1> QED
  BY <1>10, <1>11
LEMMA DeleteMarkRefined ==
  ASSUME Shape, SerialInv, NEW f \in Fiber, DeleteMark(f)
  PROVE  SerialInv' /\ Refined
<1> DEFINE w == IF h[f].found = {} THEN Idle ELSE [h[f] EXCEPT !.at = "delSweep"]
<1>1. PICK p, F : p = h[f].page /\ F = h[f].found
  OBVIOUS
<1>2. h[f].at = "delMark" /\ Go(f, w) /\ h[f] \in Work
  BY Holds DEF DeleteMark
<1>3. Walked(h[f])
  BY <1>2 DEF SerialInv, InFlight
<1>4. p \in Live /\ p \in Page /\ p \in stored /\ F = LiveBelow(p) /\ p \notin F
  BY <1>1, <1>3 DEF Walked, Live, Shape, TypeOK
<1>5. /\ trashed' = trashed \union {p}
      /\ trashedWith' = [q \in Page |-> IF q = p THEN NoPage ELSE trashedWith[q]]
      /\ deletedAt' = [q \in Page |-> IF q = p THEN "recent" ELSE deletedAt[q]]
      /\ carried' = [carried EXCEPT ![p] = F \union (IF p \in trashed THEN @ ELSE {})]
      /\ UNCHANGED <<unused, stored, parent>>
  <2>1. {p} \intersect stored = {p}
    BY <1>4
  <2>2. Mark({p}, NoPage)
    BY <1>1 DEF DeleteMark
  <2>3. carried' = [carried EXCEPT ![p] = F \union (IF p \in trashed THEN @ ELSE {})]
    BY <1>1 DEF DeleteMark
  <2> QED
    BY <2>1, <2>2, <2>3 DEF Mark
<1>6. CASE F = {}
  <2>1. ~Quiet /\ Quiet'
    BY <1>1, <1>2, <1>6, Continues DEF SerialInv, Shape
  <2>2. /\ Seen(1) = unused /\ Seen(2) = stored /\ Seen(3) = parent /\ Seen(4) = trashed
        /\ Seen(5) = trashedWith /\ Seen(6) = deletedAt /\ Seen(7) = carried
    BY <1>3, SeenUntouched DEF Walked
  <2>3. /\ Atomic!Live = Live
        /\ Atomic!LiveBelow(p) = {}
        /\ Atomic!WalkEnds(p)
    BY <2>2, <1>4, <1>6, SameWalks DEF WalkEnds
  <2>4. Atomic!DeletePage(p)
    BY <2>1, <2>2, <2>3, <1>4, <1>5, <1>6, SeenQuietAfter DEF Atomic!DeletePage, Atomic!Swept
  <2> QED
    BY <2>1, <2>3, <2>4, <1>4, AllIdle DEF Refined, Atomic!Next
<1>7. CASE F # {}
  <2>1. PICK v : v = w
    OBVIOUS
  <2>2. v.at = "delSweep" /\ v.page = p /\ v.found = F /\ v # Idle
    BY <1>1, <1>2, <1>7, <2>1 DEF Work, Idle
  <2>3. h'[f] = v /\ (\A g \in Fiber \ {f} : h'[g] = Idle) /\ base' = base /\ Sight' = Sight
    <3> HIDE DEF w
    <3> QED
      BY <1>2, <2>1, <2>2, Continues DEF SerialInv, Shape
  <2>4. /\ base'[1] = unused /\ base'[2] = stored /\ base'[3] = parent /\ base'[4] = trashed
        /\ base'[5] = trashedWith /\ base'[6] = deletedAt /\ base'[7] = carried
    BY <1>3, <2>3 DEF Walked, Untouched, table
  <2>5. WasBelow(h[f].page)' = LiveBelow(p)
    BY <2>2, <2>3, <2>4 DEF WasBelow, LiveBelow, Live
  <2>6. Marked(h[f])'
    BY <2>2, <2>3, <2>4, <2>5, <1>4, <1>5, <1>7 DEF Marked, Live
  <2>7. InFlight(h[f])'
    BY <2>2, <2>3, <2>6 DEF InFlight
  <2> QED
    BY <2>3, <2>7, TurnSerial DEF Refined
<1> QED
  BY <1>6, <1>7

LEMMA DeleteSweepRefined ==
  ASSUME Shape, SerialInv, NEW f \in Fiber, DeleteSweep(f)
  PROVE  SerialInv' /\ Refined
<1>1. PICK p, F : p = h[f].page /\ F = h[f].found
  OBVIOUS
<1>2. h[f].at = "delSweep" /\ Go(f, Idle)
  BY DEF DeleteSweep
<1>3. Marked(h[f])
  BY <1>2 DEF SerialInv, InFlight
<1>4. ~Quiet /\ Quiet'
  BY <1>2, Continues DEF SerialInv, Shape
<1>5. /\ Seen(1) = unused /\ Seen(2) = stored /\ Seen(3) = parent
      /\ Seen(4) = base[4] /\ Seen(5) = base[5] /\ Seen(6) = base[6] /\ Seen(7) = base[7]
  BY <1>3, <1>4, SeenBusy DEF Marked
<1>6. /\ p \in stored \ base[4]
      /\ F = Below(parent, stored \ base[4], p) /\ p \notin F
      /\ trashed = base[4] \union {p}
      /\ trashedWith = [q \in Page |-> IF q = p THEN NoPage ELSE base[5][q]]
      /\ deletedAt = [q \in Page |-> IF q = p THEN "recent" ELSE base[6][q]]
      /\ carried = [base[7] EXCEPT ![p] = F \union (IF p \in base[4] THEN @ ELSE {})]
  BY <1>1, <1>3 DEF Marked, WasBelow
<1>7. F \subseteq stored
  BY <1>6, BelowClosed
<1>8. /\ trashed' = base[4] \union {p} \union F
      /\ trashedWith' = [q \in Page |-> IF q \in F THEN p ELSE IF q = p THEN NoPage ELSE base[5][q]]
      /\ deletedAt' = [q \in Page |-> IF q \in F \union {p} THEN "recent" ELSE base[6][q]]
      /\ UNCHANGED <<unused, stored, parent, carried>>
  <2>1. F \intersect stored = F
    BY <1>7
  <2>2. Mark(F, p) /\ UNCHANGED carried
    BY <1>1 DEF DeleteSweep
  <2> QED
    BY <2>1, <2>2, <1>6 DEF Mark
<1>9. /\ Atomic!Live = stored \ base[4]
      /\ Atomic!LiveBelow(p) = F
      /\ Atomic!WalkEnds(p)
  BY <1>5, <1>6, AtomicBelow DEF Atomic!Live, Atomic!LiveBelow, Atomic!WalkEnds
<1>10. Atomic!DeletePage(p)
  BY <1>4, <1>5, <1>6, <1>8, <1>9, SeenQuietAfter DEF Atomic!DeletePage, Atomic!Swept
<1> QED
  BY <1>4, <1>6, <1>9, <1>10, AllIdle DEF Refined, Atomic!Next

LEMMA RestoreSweptRefined ==
  ASSUME Shape, SerialInv, NEW f \in Fiber, RestoreSwept(f)
  PROVE  SerialInv' /\ Refined
<1>1. PICK p : p = h[f].page
  OBVIOUS
<1>2. h[f].at = "restoreSwept" /\ Go(f, Idle)
  BY DEF RestoreSwept
<1>3. Restoring(h[f])
  BY <1>2 DEF SerialInv, InFlight
<1>4. ~Quiet /\ Quiet'
  BY <1>2, Continues DEF SerialInv, Shape
<1>5. /\ Seen(1) = unused /\ Seen(2) = stored /\ Seen(3) = parent
      /\ Seen(4) = base[4] /\ Seen(5) = trashedWith /\ Seen(6) = base[6] /\ Seen(7) = base[7]
  BY <1>3, <1>4, SeenBusy DEF Restoring
<1>6. /\ p \in base[4] /\ trashedWith[p] = NoPage
      /\ trashed = base[4] \ {p}
      /\ deletedAt = [base[6] EXCEPT ![p] = "none"]
      /\ carried = [base[7] EXCEPT ![p] = {}]
  BY <1>1, <1>3 DEF Restoring
<1>7. PICK S : S = {q \in stored : trashedWith[q] = p}
  OBVIOUS
<1>8. /\ trashed' = trashed \ S
      /\ trashedWith' = [q \in Page |-> IF q \in S THEN NoPage ELSE trashedWith[q]]
      /\ deletedAt' = [q \in Page |-> IF q \in S THEN "none" ELSE deletedAt[q]]
      /\ UNCHANGED <<unused, stored, parent, carried>>
  BY <1>1, <1>7 DEF RestoreSwept
<1>9. deletedAt' = [q \in Page |-> IF q \in S \union {p} THEN "none" ELSE base[6][q]]
  BY <1>6, <1>8 DEF Shape, TypeOK
<1>10. trashed' = base[4] \ ({p} \union S)
  BY <1>6, <1>8
<1>11. Atomic!RestorePage(p)
  BY <1>4, <1>5, <1>6, <1>7, <1>8, <1>9, <1>10, SeenQuietAfter DEF Atomic!RestorePage
<1>12. p \in Atomic!Listed
  BY <1>5, <1>6 DEF Atomic!Listed
<1> QED
  BY <1>4, <1>11, <1>12, AllIdle DEF Refined, Atomic!Next
(* The purge's stack.                                                      *)
LEMMA PurgeKidsRefined ==
  ASSUME Shape, SerialInv, NEW f \in Fiber, PurgeKids(f)
  PROVE  SerialInv' /\ Refined
<1> DEFINE w == [h[f] EXCEPT !.at = "purgeRow",
                             !.found = {q \in stored : parent[q] = Head(h[f].todo)}]
<1>1. h[f].at = "purgeKids" /\ Go(f, w) /\ h[f] \in Work /\ UNCHANGED table
  BY Holds DEF PurgeKids
<1>2. Emptying(h[f])
  BY <1>1 DEF SerialInv, InFlight
<1>3. PICK v, s : v = w /\ s = h[f].todo
  OBVIOUS
<1>4. /\ v.at = "purgeRow" /\ v.todo = s /\ v # Idle
      /\ v.found = {q \in stored : parent[q] = Head(s)}
  BY <1>1, <1>3 DEF Work, Idle
<1>5. h'[f] = v /\ (\A g \in Fiber \ {f} : h'[g] = Idle) /\ base' = base /\ Sight' = Sight
  <2> HIDE DEF w
  <2> QED
    BY <1>1, <1>3, <1>4, Continues DEF SerialInv, Shape
<1>6. h'[f].todo = h[f].todo
  BY <1>3, <1>4, <1>5
<1>7. /\ unused' = unused /\ stored' = stored /\ parent' = parent /\ trashed' = trashed
      /\ trashedWith' = trashedWith /\ deletedAt' = deletedAt /\ carried' = carried
  BY <1>1 DEF table
<1>8. Emptying(h[f])'
  <2>1. Emptied' /\ Gone' = Gone /\ Roots' = Roots
    BY <1>2, <1>5, <1>7 DEF Emptying, Emptied, Gone, Roots
  <2>2. PICK R \in Roots : Takes(R, Gone, Gone \union Ids(h[f].todo))
    BY <1>2 DEF Emptying
  <2>3. Goal(R)' = Goal(R)
    BY <1>5 DEF Goal, WasSubtree
  <2>4. Takes(R, Gone, Gone \union Ids(h[f].todo))'
    BY <2>1, <2>2, <2>3, <1>5, <1>6 DEF Takes
  <2> QED
    BY <2>1, <2>4 DEF Emptying
<1>9. (h[f].found)' = {q \in stored' : parent'[q] = Head((h[f].todo)')}
  BY <1>3, <1>4, <1>5, <1>7
<1>10. InFlight(h[f])'
  BY <1>4, <1>5, <1>8, <1>9 DEF InFlight
<1> QED
  BY <1>5, <1>10, TurnSerial DEF Refined

(* One more row gone: the children it had are found by what is left of the *)
(* table, and they are below a root because it was.                        *)
LEMMA GoalClosed ==
  ASSUME NEW R \in Roots, base[4] \subseteq base[2]
  PROVE  /\ Goal(R) \subseteq base[2]
         /\ \A q \in base[2] : base[3][q] \in Goal(R) => q \in Goal(R)
<1>1. \A p : Below(base[3], base[2], p) \subseteq base[2]
             /\ Closed(base[3], base[2], p, Below(base[3], base[2], p))
  BY BelowClosed
<1>2. R \subseteq base[2]
  BY DEF Roots
<1> QED
  BY <1>1, <1>2 DEF Goal, WasSubtree, Closed

Shrinks(gone) ==
  /\ gone \subseteq base[2]
  /\ unused' = base[1]
  /\ stored' = base[2] \ gone
  /\ trashed' = base[4] \ gone
  /\ parent' = [q \in Page |-> IF q \in gone THEN NoPage ELSE base[3][q]]
  /\ trashedWith' = [q \in Page |-> IF q \in gone THEN NoPage ELSE base[5][q]]
  /\ deletedAt' = [q \in Page |-> IF q \in gone THEN "none" ELSE base[6][q]]
  /\ carried' = [q \in Page |-> IF q \in gone THEN {} ELSE base[7][q]]

LEMMA RowGoes ==
  ASSUME Emptied, NEW R \in Roots, NEW top, NEW rest, Takes(R, Gone, Gone \union ({top} \union rest)),
         NEW kids, kids = {q \in stored : parent[q] = top},
         NEW gone, gone = Gone \union {top},
         Remove({top})
  PROVE  /\ Shrinks(gone)
         /\ Takes(R, gone, gone \union (kids \union rest))
<1>1. base[4] \subseteq base[2] /\ base[2] \subseteq Page /\ stored \subseteq base[2]
  BY DEF Emptied
<1>2. /\ Goal(R) \subseteq base[2]
      /\ \A q \in base[2] : base[3][q] \in Goal(R) => q \in Goal(R)
  BY <1>1, GoalClosed
<1>3. /\ R \subseteq Gone \union ({top} \union rest)
      /\ Gone \union ({top} \union rest) \subseteq Goal(R)
      /\ \A q \in base[2] : base[3][q] \in Gone => q \in Gone \union ({top} \union rest)
  BY DEF Takes
<1>4. top \in Goal(R) /\ gone \subseteq base[2]
  BY <1>2, <1>3
<1>5. \A q \in stored : q \notin Gone /\ parent[q] = base[3][q]
  BY <1>1 DEF Gone, Emptied
<1>6. kids \subseteq Goal(R)
  BY <1>1, <1>2, <1>4, <1>5
<1>7. \A q \in base[2] : q \in Gone \/ q \in stored
  BY DEF Gone
<1>8. \A q \in base[2] : base[3][q] = top => q \in Gone \union kids
  BY <1>5, <1>7
<1>9. stored' = base[2] \ gone
  BY <1>1, <1>4 DEF Remove, Gone
<1>10. unused' = base[1] /\ trashed' = base[4] \ gone
  BY DEF Remove, Emptied
<1>11. parent' = [q \in Page |-> IF q \in gone THEN NoPage ELSE base[3][q]]
  BY DEF Remove, Emptied
<1>12. trashedWith' = [q \in Page |-> IF q \in gone THEN NoPage ELSE base[5][q]]
  BY DEF Remove, Emptied
<1>13. deletedAt' = [q \in Page |-> IF q \in gone THEN "none" ELSE base[6][q]]
  BY DEF Remove, Emptied
<1>14. carried' = [q \in Page |-> IF q \in gone THEN {} ELSE base[7][q]]
  BY DEF Remove, Emptied
<1>15. R \subseteq gone \union (kids \union rest) /\ gone \union (kids \union rest) \subseteq Goal(R)
  BY <1>3, <1>6
<1>16. Takes(R, gone, gone \union (kids \union rest))
  BY <1>3, <1>8, <1>15 DEF Takes
<1> QED
  BY <1>4, <1>9, <1>10, <1>11, <1>12, <1>13, <1>14, <1>16 DEF Shrinks

(* With the stack empty, what is gone is what was to go.                   *)
LEMMA GoalReached ==
  ASSUME NEW R, NEW gone, gone \subseteq base[2], Takes(R, gone, gone)
  PROVE  gone = Goal(R)
<1>1. ASSUME NEW p \in R PROVE WasSubtree(p) \subseteq gone
  <2>1. gone \in SUBSET base[2] /\ Closed(base[3], base[2], p, gone)
    BY <1>1 DEF Closed, Takes
  <2>2. Below(base[3], base[2], p) \subseteq gone
    BY <2>1, BelowLeast
  <2> QED
    BY <2>2, <1>1 DEF WasSubtree, Takes
<1> QED
  BY <1>1 DEF Goal, Takes

LEMMA PurgeRowRefined ==
  ASSUME Shape, SerialInv, NEW f \in Fiber, PurgeRow(f)
  PROVE  SerialInv' /\ Refined
<1>1. h[f].at = "purgeRow" /\ h[f] \in Work /\ h[f].todo # << >>
  BY Holds DEF PurgeRow, Purging
<1>2. PICK s \in RowOrders(h[f].found) :
        Go(f, IF s \o Tail(h[f].todo) = << >> THEN Idle
              ELSE [Idle EXCEPT !.at = "purgeKids", !.todo = s \o Tail(h[f].todo)])
  BY DEF PurgeRow
<1>3. Emptying(h[f]) /\ h[f].found = {q \in stored : parent[q] = Head(h[f].todo)}
  BY <1>1 DEF SerialInv, InFlight
<1>4. PICK R \in Roots : Takes(R, Gone, Gone \union Ids(h[f].todo))
  BY <1>3 DEF Emptying
<1>5. PICK top, rest, kids, todo, gone :
        /\ top = Head(h[f].todo) /\ rest = Ids(Tail(h[f].todo)) /\ kids = h[f].found
        /\ todo = s \o Tail(h[f].todo) /\ gone = Gone \union {top}
  OBVIOUS
<1>6. h[f].todo \in Seq(Page)
  BY <1>1 DEF Work
<1>7. Ids(h[f].todo) = {top} \union rest
  BY <1>1, <1>5, <1>6, IdsOfHead
<1>8. todo \in Seq(Page) /\ Ids(todo) = kids \union rest
  BY <1>1, <1>2, <1>5, NextStack
<1>9. Shrinks(gone) /\ Takes(R, gone, gone \union Ids(todo))
  <2>1. Remove({top})
    BY <1>5 DEF PurgeRow
  <2>2. Emptied /\ Takes(R, Gone, Gone \union ({top} \union rest)) /\ kids = {q \in stored : parent[q] = top}
    BY <1>3, <1>4, <1>5, <1>7 DEF Emptying
  <2>3. gone = Gone \union {top}
    BY <1>5
  <2>4. Shrinks(gone) /\ Takes(R, gone, gone \union (kids \union rest))
    BY <2>1, <2>2, <2>3, RowGoes, Zenon
  <2> QED
    BY <2>4, <1>8
<1>10. CASE todo = << >>
  <2>1. ~Quiet /\ Quiet'
    BY <1>1, <1>2, <1>5, <1>10, Continues DEF SerialInv, Shape
  <2>2. Ids(todo) = {}
    BY <1>10 DEF Ids
  <2>3. gone = Goal(R)
    <3>1. gone \union Ids(todo) = gone
      BY <2>2
    <3> QED
      BY <3>1, <1>9, GoalReached DEF Shrinks
  <2>4. \A p : Atomic!Subtree(p) = WasSubtree(p)
    BY <2>1, SeenBusy, AtomicBelow DEF Atomic!Subtree, WasSubtree
  <2>5. Atomic!Remove(gone)
    BY <2>1, <1>9, SeenBusy, SeenQuietAfter DEF Atomic!Remove, Shrinks
  <2>6. base[4] \subseteq base[2]
    BY <1>3 DEF Emptying, Emptied
  <2>7. CASE R # {} /\ R = {p \in base[4] : base[6][p] = "expired"}
    <3>1. Atomic!Expired = R
      BY <2>1, <2>7, SeenBusy DEF Atomic!Expired
    <3>2. UNION {Atomic!Subtree(p) : p \in R} = gone
      BY <2>3, <2>4 DEF Goal
    <3>3. Atomic!PurgeExpired
      BY <2>5, <2>7, <3>1, <3>2 DEF Atomic!PurgeExpired
    <3> QED
      BY <2>1, <3>3, AllIdle DEF Refined, Atomic!Next
  <2>8. CASE \E p \in base[4] : base[5][p] = NoPage /\ R = {p}
    <3>1. PICK p \in base[4] : base[5][p] = NoPage /\ R = {p}
      BY <2>8
    <3>2. p \in Atomic!Listed
      BY <2>1, <3>1, SeenBusy DEF Atomic!Listed
    <3>3. Atomic!Subtree(p) = gone
      BY <2>3, <2>4, <3>1 DEF Goal
    <3>4. Atomic!PurgePage(p)
      BY <2>1, <2>5, <2>6, <3>1, <3>3, SeenBusy DEF Atomic!PurgePage
    <3> QED
      BY <2>1, <3>2, <3>4, AllIdle DEF Refined, Atomic!Next
  <2> QED
    BY <2>7, <2>8 DEF Roots
<1>11. CASE todo # << >>
  <2> DEFINE w == [Idle EXCEPT !.at = "purgeKids", !.todo = todo]
  <2>1. w.at = "purgeKids" /\ w.todo = todo /\ w # Idle
    BY DEF Idle
  <2>2. Go(f, w)
    BY <1>2, <1>5, <1>11
  <2> HIDE DEF w
  <2>3. h'[f] = w /\ (\A g \in Fiber \ {f} : h'[g] = Idle) /\ base' = base /\ Sight' = Sight
    BY <1>1, <2>1, <2>2, Continues DEF SerialInv, Shape
  <2>4. h'[f].at = "purgeKids" /\ h'[f].todo = todo
    BY <2>1, <2>3
  <2>5. Gone' = gone
    BY <2>3, <1>9 DEF Gone, Shrinks
  <2>6. Emptied'
    <3>1. base[4] \subseteq base[2] /\ base[2] \subseteq Page
      BY <1>3 DEF Emptying, Emptied
    <3> QED
      BY <3>1, <2>3, <2>5, <1>9 DEF Emptied, Shrinks
  <2>7. R \in Roots'
    BY <2>3 DEF Roots
  <2>8. Goal(R)' = Goal(R)
    BY <2>3 DEF Goal, WasSubtree
  <2>9. Takes(R, Gone, Gone \union Ids(h[f].todo))'
    BY <2>3, <2>4, <2>5, <2>8, <1>9 DEF Takes
  <2>10. Emptying(h[f])'
    BY <2>6, <2>7, <2>9 DEF Emptying
  <2>11. InFlight(h[f])'
    BY <2>4, <2>10 DEF InFlight
  <2> QED
    BY <2>3, <2>11, TurnSerial DEF Refined
<1> QED
  BY <1>10, <1>11

-----------------------------------------------------------------------------
LEMMA SerialNext ==
  ASSUME Serial, Shape, SerialInv, [StepsNext]_allVars
  PROVE  SerialInv' /\ Refined
<1>1. ASSUME NEW f \in Fiber, Request(f) PROVE SerialInv' /\ Refined
  BY <1>1, CreateRefined, MoveCheckSerial, DeleteStartSerial, RestoreStartSerial, PurgeStartSerial,
     SweepStartSerial
  DEF Request
<1>2. ASSUME NEW f \in Fiber, Statement(f) PROVE SerialInv' /\ Refined
  BY <1>2, MoveWriteRefined, DeleteWalkRefined, DeleteMarkRefined, DeleteSweepRefined,
     RestoreSweptRefined, PurgeKidsRefined, PurgeRowRefined
  DEF Statement
<1>3. CASE UNCHANGED allVars
  <2>1. Sight' = Sight
    BY <1>3 DEF allVars, table, Sight, Seen, Quiet
  <2>2. /\ unused' = unused /\ stored' = stored /\ parent' = parent /\ trashed' = trashed
        /\ trashedWith' = trashedWith /\ deletedAt' = deletedAt /\ carried' = carried
        /\ h' = h /\ base' = base
    BY <1>3 DEF allVars, table
  <2>3. ASSUME NEW f \in Fiber PROVE InFlight(h[f])'
    <3>1. InFlight(h[f])
      BY <2>3 DEF SerialInv
    <3>2. UNCHANGED <<Moving(h[f]), Walking(h[f]), Walked(h[f])>>
      BY <2>2 DEF Moving, Walking, Walked, Untouched, table, Live, LiveBelow, Visible, WalkEnds, OnRing
    <3>3. UNCHANGED <<Marked(h[f]), Restoring(h[f])>>
      BY <2>2 DEF Marked, Restoring, WasBelow
    <3>4. UNCHANGED Emptying(h[f])
      BY <2>2 DEF Emptying, Emptied, Gone, Roots, Takes, Goal, WasSubtree
    <3> QED
      BY <2>2, <3>1, <3>2, <3>3, <3>4 DEF InFlight
  <2>4. SerialInv'
    BY <2>2, <2>3 DEF SerialInv, Alone
  <2> QED
    BY <2>1, <2>4 DEF Refined
<1> QED
  BY <1>1, <1>2, <1>3, ClockRefined, StopRefined DEF StepsNext

(* While requests come one at a time, clients see a table that changes as  *)
(* PageTree's does, a stop of the process being the only other step: the   *)
(* loops and statements of every handler, all together, do what PageTree   *)
(* does at once, whatever an earlier stop has left.                        *)
THEOREM StepsImplementPageTree ==
  ASSUME Serial
  PROVE  StepsSpec => ImplementsPageTree
<1>1. StepsInit => SerialInv /\ Atomic!Init
  <2> SUFFICES ASSUME StepsInit PROVE SerialInv /\ Atomic!Init
    OBVIOUS
  <2>1. Quiet
    BY DEF StepsInit, Quiet
  <2>2. Atomic!Init
    BY <2>1, SeenQuiet DEF StepsInit, Init, Atomic!Init
  <2>3. SerialInv
    <3>1. \A f \in Fiber : h[f] = Idle
      BY <2>1 DEF Quiet
    <3>2. ASSUME NEW f \in Fiber PROVE InFlight(h[f])
      BY <3>1, <3>2 DEF InFlight, Idle
    <3> QED
      BY <3>1, <3>2 DEF SerialInv, Alone
  <2> QED
    BY <2>2, <2>3
<1>2. Shape /\ SerialInv /\ [StepsNext]_allVars => SerialInv' /\ Refined
  BY SerialNext
<1>3. StepsSpec => Atomic!Init /\ [][Atomic!Next \/ Stop]_Sight
  BY <1>1, <1>2, ShapeInit, ShapeNext, PTL DEF StepsSpec, Refined
<1> QED
  BY <1>3 DEF ImplementsPageTree, Sight
=============================================================================
