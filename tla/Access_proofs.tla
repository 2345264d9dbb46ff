--------------------------- MODULE Access_proofs ----------------------------
(***************************************************************************)
(* Access runs the page tree's own handlers behind its checks, so what is  *)
(* proved of PageTree holds there too; and the two walks that decide who   *)
(* sees a page agree, for any pages, users and entries.  At the end, what  *)
(* the revision of a page's entries protects in Permissions, for any       *)
(* number of users, pages and writes.                                      *)
(***************************************************************************)
EXTENDS Permissions, PageTree_proofs

-----------------------------------------------------------------------------
(* The walk.                                                               *)

LEMMA MetClimbs ==
  ASSUME NEW up, NEW p \in Page
  PROVE  /\ Met(up, p) \subseteq Page
         /\ p \in Met(up, p)
         /\ \A q \in Met(up, p) : (~Bears(q) /\ up[q] \in Page /\ up[q] # NoPage)
                                    => up[q] \in Met(up, p)
  BY DEF Met, Climbs

LEMMA MetLeast ==
  ASSUME NEW up, NEW p \in Page, NEW C \in SUBSET Page, p \in C, Climbs(up, C)
  PROVE  Met(up, p) \subseteq C
  BY DEF Met

(* A walk that starts at a bearer stops there; another goes on from the    *)
(* parent.                                                                 *)
LEMMA MetStep ==
  ASSUME NEW up \in [Page -> OptPage], NEW x \in Page
  PROVE  /\ Bears(x) => Met(up, x) = {x}
         /\ (~Bears(x) /\ up[x] # NoPage) => Met(up, x) \subseteq {x} \union Met(up, up[x])
<1>1. ASSUME Bears(x) PROVE Met(up, x) = {x}
  <2>1. Climbs(up, {x})
    BY <1>1 DEF Climbs
  <2> QED
    BY <2>1, MetLeast, MetClimbs
<1>2. ASSUME ~Bears(x), up[x] # NoPage
      PROVE  Met(up, x) \subseteq {x} \union Met(up, up[x])
  <2>1. up[x] \in Page
    BY <1>2 DEF OptPage
  <2>2. Climbs(up, {x} \union Met(up, up[x]))
    BY <2>1, MetClimbs DEF Climbs, OptPage
  <2>3. {x} \union Met(up, up[x]) \in SUBSET Page
    BY <2>1, MetClimbs
  <2> QED
    BY <2>2, <2>3, MetLeast
<1> QED
  BY <1>1, <1>2

(* At most one page decides: any bearer the walk meets is met from every   *)
(* other page it meets, and from a bearer only the bearer is met.          *)
LEMMA OneDecides ==
  ASSUME NEW up \in [Page -> OptPage], NEW p \in Page,
         NEW q \in Deciding(up, p), NEW r \in Deciding(up, p)
  PROVE  q = r
<1> DEFINE C == {x \in Met(up, p) : q \in Met(up, x)}
<1>1. /\ q \in Met(up, p) /\ Bears(q) /\ r \in Met(up, p) /\ Bears(r)
      /\ q \in Page /\ r \in Page
  BY MetClimbs DEF Deciding
<1>2. Climbs(up, C)
  <2> SUFFICES ASSUME NEW x \in C, ~Bears(x), up[x] # NoPage
               PROVE  up[x] \in C
    BY DEF Climbs
  <2>1. x \in Page /\ up[x] \in Page
    BY MetClimbs DEF OptPage
  <2>2. up[x] \in Met(up, p)
    BY <2>1, MetClimbs
  <2>3. q \in {x} \union Met(up, up[x])
    BY <2>1, MetStep
  <2> QED
    BY <1>1, <2>2, <2>3
<1>3. C \in SUBSET Page /\ p \in C
  BY <1>1, MetClimbs
<1>4. r \in C
  BY <1>1, <1>2, <1>3, MetLeast
<1> QED
  BY <1>1, <1>4, MetStep

(* From a page of the sidebar the listed rows and the table lead up the    *)
(* same way.                                                               *)
LEMMA VisibleMet ==
  ASSUME TypeOK, NEW p \in Visible
  PROVE  Deciding(ListedParent, p) = Deciding(parent, p)
<1>1. Visible \subseteq Live /\ Live \subseteq Page
  BY BelowClosed DEF Visible, LiveBelow, Live, TypeOK
<1>2. \A q \in Visible : parent[q] \in Visible \union {NoPage} /\ ListedParent[q] = parent[q]
  BY <1>1, BelowHangs DEF Visible, LiveBelow, ListedParent
<1>3. p \in Page
  BY <1>1
<1>4. ASSUME NEW up, NEW down, \A q \in Visible : up[q] = parent[q] /\ down[q] = parent[q]
      PROVE  Met(up, p) \subseteq Met(down, p)
  <2> DEFINE C == Met(down, p) \intersect Visible
  <2>1. Climbs(up, C)
    BY <1>1, <1>2, <1>3, <1>4, MetClimbs DEF Climbs
  <2>2. C \in SUBSET Page /\ p \in C
    BY <1>1, <1>3, MetClimbs
  <2> QED
    BY <1>3, <2>1, <2>2, MetLeast
<1>5. Met(ListedParent, p) = Met(parent, p)
  <2>1. Met(ListedParent, p) \subseteq Met(parent, p)
    BY <1>2, <1>4
  <2>2. Met(parent, p) \subseteq Met(ListedParent, p)
    BY <1>2, <1>4
  <2> QED
    BY <2>1, <2>2
<1> QED
  BY <1>5 DEF Deciding

-----------------------------------------------------------------------------
(* Relations.                                                              *)

LEMMA StrongestOfOne ==
  ASSUME NEW r \in Relation \union {Nothing}
  PROVE  Strongest({r}) = r
<1>1. CASE r = Nothing
  BY <1>1 DEF Strongest, Relation, Nothing
<1>2. CASE r \in Relation
  <2>1. {r} \intersect Relation = {r} /\ {r} # {}
    BY <1>2
  <2>2. {r} \subseteq IMPLIES[r]
    BY <1>2 DEF IMPLIES, Relation
  <2> QED
    BY <2>1, <2>2 DEF Strongest
<1> QED
  BY <1>1, <1>2

(* Whoever a page's entries address at all holds a relation on it.         *)
LEMMA HeldIfAddressed ==
  ASSUME NEW entries \in [Subject -> Relation \union {Nothing}], NEW u \in User
  PROVE  /\ Held(entries, u) \in Relation \union {Nothing}
         /\ Held(entries, u) # Nothing <=> \E s \in SubjectsOf(u) : entries[s] # Nothing
<1> DEFINE R == {entries[s] : s \in SubjectsOf(u)}
           T == R \intersect Relation
<1>1. R \subseteq Relation \union {Nothing}
  BY DEF SubjectsOf, Subject, Members
<1>2. T # {} <=> \E s \in SubjectsOf(u) : entries[s] # Nothing
  BY <1>1 DEF Relation, Nothing
<1>3. ASSUME T # {} PROVE \E r \in T : T \subseteq IMPLIES[r]
  <2>1. CASE "owner" \in T
    BY <2>1 DEF Relation, IMPLIES
  <2>2. CASE "owner" \notin T /\ "editor" \in T
    BY <2>2 DEF Relation, IMPLIES
  <2>3. CASE T = {"viewer"}
    BY <2>3 DEF Relation, IMPLIES
  <2> QED
    BY <1>3, <2>1, <2>2, <2>3 DEF Relation
<1>4. T # {} => Strongest(R) \in T
  BY <1>3 DEF Strongest
<1>5. T = {} => Strongest(R) = Nothing
  BY DEF Strongest
<1>6. Nothing \notin T
  BY DEF Relation, Nothing
<1> QED
  BY <1>2, <1>4, <1>5, <1>6 DEF Held

LEMMA ViewerIfAnything ==
  ASSUME NEW r \in Relation \union {Nothing}
  PROVE  Implies(r, "viewer") <=> r # Nothing
  BY DEF Implies, IMPLIES, Relation, Nothing

-----------------------------------------------------------------------------
(* Under the checks the tree's handlers run as they do without.            *)

LEMMA RequestIsNext ==
  ASSUME TypeOK, NEW u \in User, PageRequest(u)
  PROVE  Next /\ UNCHANGED accessVars
<1>1. unused \subseteq Page /\ Visible \subseteq Live
  BY BelowClosed DEF Visible, LiveBelow, TypeOK
<1>2. Live \subseteq Page
  BY DEF Live, TypeOK
<1> QED
  BY <1>1, <1>2 DEF PageRequest, Next

LEMMA AccessStep ==
  TypeOK /\ [AccessNext]_<<vars, accessVars>> => [Next]_vars
  BY RequestIsNext DEF AccessNext, WriteEntry, RemoveMember, Join

(* AccessSpec implements PageTree's Spec: permission checks only restrict  *)
(* the requests, so every property of the tree still holds.                *)
THEOREM AccessImplementsTree == AccessSpec => Spec
<1>1. AccessInit => Init
  BY DEF AccessInit
<1>2. Init => TypeOK
  BY TypeInit
<1>3. TypeOK /\ [AccessNext]_<<vars, accessVars>> => TypeOK' /\ [Next]_vars
  BY AccessStep, TypeNext, ScreensAreKnown
<1> QED
  BY <1>1, <1>2, <1>3, PTL DEF AccessSpec, Spec

(* The variables keep their types: in particular a page's entries hold at  *)
(* most one relation per subject.                                          *)
THEOREM AccessTypeCorrect == AccessSpec => []AccessTypeOK
<1>1. AccessInit => AccessTypeOK
  BY TypeInit DEF AccessInit, AccessTypeOK, NoTuples, Role, Nothing
<1>2. AccessTypeOK /\ [AccessNext]_<<vars, accessVars>> => AccessTypeOK'
  <2> SUFFICES ASSUME AccessTypeOK, [AccessNext]_<<vars, accessVars>>
               PROVE  AccessTypeOK'
    OBVIOUS
  <2>0. TypeOK'
    BY AccessStep, TypeNext, ScreensAreKnown DEF AccessTypeOK
  <2>1. ASSUME NEW u \in User, PageRequest(u) PROVE AccessTypeOK'
    BY <2>0, <2>1, RequestIsNext DEF AccessTypeOK, accessVars
  <2>2. ASSUME NEW u \in User, NEW p \in Visible, NEW e \in Writes, WriteEntry(u, p, e[1], e[2])
        PROVE  AccessTypeOK'
    BY <2>0, <2>2, WritesAssumption DEF AccessTypeOK, WriteEntry
  <2>3. ASSUME NEW u \in User, RemoveMember(u) \/ Join(u) PROVE AccessTypeOK'
    BY <2>0, <2>3 DEF AccessTypeOK, RemoveMember, Join, Role
  <2>4. CASE UNCHANGED <<vars, accessVars>>
    BY <2>0, <2>4 DEF AccessTypeOK, accessVars
  <2> QED
    BY <2>1, <2>2, <2>3, <2>4 DEF AccessNext
<1> QED
  BY <1>1, <1>2, PTL DEF AccessSpec

-----------------------------------------------------------------------------
LEMMA WalksAgree == AccessTypeOK => ListAgreesWithCheck
<1> SUFFICES ASSUME AccessTypeOK, NEW u \in User, role[u] # Nothing, NEW p \in Visible
             PROVE  p \in FilterPages(u) <=> CanAccess(u, p, "viewer")
  BY DEF ListAgreesWithCheck
<1> DEFINE D == Deciding(parent, p)
           addressed(q) == \E s \in SubjectsOf(u) : tuples[q][s] # Nothing
<1>1. p \in Live /\ p \in Page
  BY BelowClosed DEF Visible, LiveBelow, Live, AccessTypeOK, TypeOK
<1>2. Deciding(ListedParent, p) = D
  BY VisibleMet DEF AccessTypeOK
<1>3. \A q \in D, r \in D : q = r
  BY <1>1, OneDecides DEF AccessTypeOK, TypeOK
<1>4. D \subseteq Page
  BY <1>1, MetClimbs DEF Deciding
<1>5. CASE role[u] = "owner"
  BY <1>1, <1>5 DEF FilterPages, CanAccess, EffectiveRelation, Implies, IMPLIES, Nothing
<1>6. CASE role[u] # "owner" /\ D = {}
  <2>1. EffectiveRelation(u, p) = "editor"
    BY <1>6 DEF EffectiveRelation
  <2> QED
    BY <1>1, <1>2, <1>6, <2>1 DEF FilterPages, CanAccess, Implies, IMPLIES
<1>7. CASE role[u] # "owner" /\ D # {}
  <2>1. PICK q \in D : D = {q}
    BY <1>3, <1>7
  <2>2. tuples[q] \in [Subject -> Relation \union {Nothing}]
    BY <1>4, <2>1 DEF AccessTypeOK
  <2>3. EffectiveRelation(u, p) = Held(tuples[q], u)
    <3>1. EffectiveRelation(u, p) = Strongest({Held(tuples[d], u) : d \in D})
      BY <1>7 DEF EffectiveRelation
    <3>2. {Held(tuples[d], u) : d \in D} = {Held(tuples[q], u)}
      BY <2>1
    <3> QED
      BY <2>2, <3>1, <3>2, HeldIfAddressed, StrongestOfOne
  <2>4. CanAccess(u, p, "viewer") <=> addressed(q)
    BY <2>2, <2>3, HeldIfAddressed, ViewerIfAnything DEF CanAccess
  <2>5. p \in FilterPages(u) <=> addressed(q)
    BY <1>1, <1>2, <1>7, <2>1 DEF FilterPages
  <2> QED
    BY <2>4, <2>5
<1> QED
  BY <1>5, <1>6, <1>7

(* The list of pages and the check a page is opened with agree, on every   *)
(* page the sidebar can draw (filterPagesByPermission against              *)
(* effectiveRelation).                                                     *)
THEOREM ListAndCheckAgree == AccessSpec => []ListAgreesWithCheck
  BY WalksAgree, AccessTypeCorrect, PTL

-----------------------------------------------------------------------------
(* Entries that a walk does not meet play no part in it.                   *)
LEMMA WalkUnmoved ==
  ASSUME AccessTypeOK, NEW q \in Page, UNCHANGED parent,
         \A p \in Met(parent, q) : tuples'[p] = tuples[p]
  PROVE  Deciding(parent, q)' = Deciding(parent, q)
<1> DEFINE M == Met(parent, q)
<1>1. M \in SUBSET Page /\ q \in M
  BY MetClimbs
<1>2. \A p \in M : Bears(p)' <=> Bears(p)
  BY DEF Bears
<1>3. Climbs(parent, M)
  BY MetClimbs DEF Climbs, AccessTypeOK, TypeOK, OptPage
<1>4. M' \subseteq M
  BY <1>1, <1>2, <1>3 DEF Met, Climbs
<1>5. M \subseteq M'
  <2> SUFFICES ASSUME NEW C \in SUBSET Page, q \in C, Climbs(parent, C)'
               PROVE  M \subseteq C
    BY <1>1 DEF Met
  <2>1. Climbs(parent, C \intersect M)
    BY <1>2, <1>3 DEF Climbs
  <2> QED
    BY <1>1, <2>1, MetLeast
<1> QED
  BY <1>2, <1>4, <1>5 DEF Deciding

(* A write to one page's entries changes what someone holds only where the *)
(* walk meets that page (writePagePermissions, effectiveRelation).         *)
THEOREM WritesAreLocal == AccessSpec => WriteIsLocal
<1> DEFINE Local(u, q) == (UNCHANGED <<role, parent>> /\ EffectiveRelation(u, q)' # EffectiveRelation(u, q))
                            => \E p \in Page : tuples'[p] # tuples[p] /\ p \in Met(parent, q)
<1>1. ASSUME AccessTypeOK PROVE \A u \in User, q \in Page : Local(u, q)
  <2> SUFFICES ASSUME NEW u \in User, NEW q \in Page, UNCHANGED <<role, parent>>,
                      \A p \in Met(parent, q) : tuples'[p] = tuples[p]
               PROVE  EffectiveRelation(u, q)' = EffectiveRelation(u, q)
    BY MetClimbs
  <2>1. Deciding(parent, q)' = Deciding(parent, q)
    BY <1>1, WalkUnmoved
  <2>2. \A p \in Deciding(parent, q) : Held(tuples[p], u)' = Held(tuples[p], u)
    BY DEF Deciding, Held
  <2> QED
    BY <2>1, <2>2 DEF EffectiveRelation
<1>2. AccessTypeOK => [\A u \in User, q \in Page : Local(u, q)]_<<vars, accessVars>>
  BY <1>1
<1> QED
  BY <1>2, AccessTypeCorrect, PTL DEF WriteIsLocal

-----------------------------------------------------------------------------
(* Sharing dialogs.  The inductive invariant: a dialog whose revision is   *)
(* the page's shows the page's entries, and one that has passed the check  *)
(* and whose revision is the page's belongs to an owner of the page.       *)
(* Revisions only grow, and every write of entries makes one grow, so a    *)
(* dialog that was overtaken stays behind.                                 *)
SoundDialog(u) ==
  LET d == dialog[u] IN
  /\ d.page \in Page
  /\ d.rev <= rev[d.page]
  /\ d.rev = rev[d.page] => d.direct = tuples[d.page]
  /\ (d.at = "saving" /\ d.rev = rev[d.page] /\ Bears(d.page) /\ d.byRole # "owner")
       => Held(tuples[d.page], u) = "owner"

DialogInv == \A u \in User : dialog[u].at \in {"open", "saving"} => SoundDialog(u)

-----------------------------------------------------------------------------
LEMMA OwnerOfBearer ==
  ASSUME AccessTypeOK, NEW u \in User, NEW p \in Page, Bears(p),
         CanAccess(u, p, "owner"), role[u] # "owner"
  PROVE  Held(tuples[p], u) = "owner"
<1>1. Deciding(parent, p) = {p}
  BY MetStep DEF Deciding, AccessTypeOK, TypeOK
<1>2. Held(tuples[p], u) \in Relation \union {Nothing}
  BY HeldIfAddressed DEF AccessTypeOK
<1>3. EffectiveRelation(u, p) \in {Nothing, Strongest({Held(tuples[p], u)})}
  <2>1. {Held(tuples[q], u) : q \in {p}} = {Held(tuples[p], u)}
    OBVIOUS
  <2> QED
    BY <1>1, <2>1 DEF EffectiveRelation
<1>4. EffectiveRelation(u, p) \in {Nothing, Held(tuples[p], u)}
  BY <1>2, <1>3, StrongestOfOne
<1> QED
  BY <1>2, <1>4 DEF CanAccess, Implies, IMPLIES, Relation, Nothing

LEMMA ClosedType == Closed0 \in DialogRecord
<1>1. 0 \in 0..MaxWrites
  BY MaxWritesAssumption
<1>2. NoTuples \in [Subject -> Relation \union {Nothing}]
  BY DEF NoTuples
<1> QED
  BY <1>1, <1>2 DEF Closed0, DialogRecord, OptPage, Subject, Role

LEMMA DialogInit == PermissionsInit => PermissionsTypeOK /\ DialogInv
<1> SUFFICES ASSUME PermissionsInit PROVE PermissionsTypeOK /\ DialogInv
  OBVIOUS
<1>1. TypeOK
  BY DEF PermissionsInit, TypeOK, OptPage, Age
<1>2. AccessTypeOK
  BY <1>1 DEF PermissionsInit, AccessTypeOK, NoTuples, Role, Nothing
<1>3. rev \in [Page -> 0..MaxWrites]
  BY MaxWritesAssumption DEF PermissionsInit
<1>4. dialog \in [User -> DialogRecord]
  BY ClosedType DEF PermissionsInit
<1>5. DialogInv
  BY DEF PermissionsInit, Closed0, DialogInv
<1> QED
  BY <1>2, <1>3, <1>4, <1>5 DEF PermissionsTypeOK

(* A dialog that shows a record leaves the users' dialogs typed.           *)
LEMMA ShowsType ==
  ASSUME dialog \in [User -> DialogRecord], NEW u \in User, NEW d \in DialogRecord, Shows(u, d)
  PROVE  dialog' \in [User -> DialogRecord]
  BY DEF Shows

LEMMA DialogTypes ==
  PermissionsTypeOK /\ [PermissionsNext]_permVars => PermissionsTypeOK'
<1> SUFFICES ASSUME PermissionsTypeOK, [PermissionsNext]_permVars PROVE PermissionsTypeOK'
  OBVIOUS
<1> USE DEF PermissionsTypeOK
<1>0. UNCHANGED <<vars, accessVars, rev>> => AccessTypeOK' /\ rev' \in [Page -> 0..MaxWrites]
  BY DEF AccessTypeOK, TypeOK, vars, accessVars
<1>1. ASSUME NEW u \in User, NEW p \in Page, Load(u, p) PROVE PermissionsTypeOK'
  <2>1. [Closed0 EXCEPT !.at = "open", !.page = p, !.direct = tuples[p], !.rev = rev[p]]
          \in DialogRecord
    BY ClosedType DEF DialogRecord, AccessTypeOK, OptPage
  <2> QED
    BY <1>0, <1>1, <2>1, ShowsType DEF Load
<1>2. ASSUME NEW u \in User, Close(u) PROVE PermissionsTypeOK'
  BY <1>0, <1>2, ClosedType, ShowsType DEF Close
<1>3. ASSUME NEW u \in User, NEW e \in Writes, SaveCheck(u, e[1], e[2]) PROVE PermissionsTypeOK'
  <2>1. e[1] \in Subject /\ e[2] \in Relation \union {Nothing}
    BY WritesAssumption
  <2>2. [dialog[u] EXCEPT !.at = "saving", !.subject = e[1], !.relation = e[2], !.byRole = role[u]]
          \in DialogRecord
    BY <2>1 DEF DialogRecord, AccessTypeOK
  <2> QED
    BY <1>0, <1>3, <2>2, ShowsType DEF SaveCheck
<1>4. ASSUME NEW u \in User, SaveCommit(u) PROVE PermissionsTypeOK'
  <2> DEFINE d == dialog[u]
  <2>1. TypeOK' /\ role' \in [User -> Role]
    BY <1>4 DEF SaveCommit, AccessTypeOK, TypeOK, vars
  <2>2. tuples' \in [Page -> [Subject -> Relation \union {Nothing}]]
    <3>1. d.relation \in Relation \union {Nothing}
      BY DEF DialogRecord
    <3> QED
      BY <1>4, <3>1 DEF SaveCommit, AccessTypeOK
  <2>3. rev' \in [Page -> 0..MaxWrites]
    <3>1. rev' = [rev EXCEPT ![d.page] = rev[d.page] + 1] /\ rev[d.page] < MaxWrites
      BY <1>4 DEF SaveCommit
    <3>2. d.page \in Page => rev[d.page] + 1 \in 0..MaxWrites
      BY <3>1, MaxWritesAssumption
    <3> QED
      BY <3>1, <3>2
  <2>4. dialog' \in [User -> DialogRecord]
    BY <1>4, ClosedType, ShowsType DEF SaveCommit
  <2> QED
    BY <2>1, <2>2, <2>3, <2>4 DEF AccessTypeOK
<1>5. ASSUME NEW u \in User, SaveRefused(u) PROVE PermissionsTypeOK'
  <2>1. \A a \in {"stale", "open"} : [dialog[u] EXCEPT !.at = a] \in DialogRecord
    BY DEF DialogRecord
  <2> QED
    BY <1>0, <1>5, <2>1, ShowsType DEF SaveRefused
<1>6. ASSUME NEW u \in User, MemberLeaves(u) PROVE PermissionsTypeOK'
  BY <1>6 DEF MemberLeaves, RemoveMember, AccessTypeOK, TypeOK, vars, Role
<1>7. CASE UNCHANGED permVars
  BY <1>0, <1>7 DEF permVars
<1> QED
  BY <1>1, <1>2, <1>3, <1>4, <1>5, <1>6, <1>7 DEF PermissionsNext, Dialog

LEMMA DialogNext ==
  PermissionsTypeOK /\ DialogInv /\ [PermissionsNext]_permVars => DialogInv'
<1> SUFFICES ASSUME PermissionsTypeOK, DialogInv, [PermissionsNext]_permVars,
                    NEW v \in User, dialog'[v].at \in {"open", "saving"}
             PROVE  SoundDialog(v)'
  BY DEF DialogInv
<1> USE DEF PermissionsTypeOK
<1>0. ASSUME dialog'[v] = dialog[v], UNCHANGED <<tuples, rev>>
      PROVE  SoundDialog(v)'
  BY <1>0 DEF DialogInv, SoundDialog, Bears
<1>1. ASSUME NEW p \in Page, Load(v, p) PROVE SoundDialog(v)'
  <2>1. /\ dialog'[v].at = "open" /\ dialog'[v].page = p
        /\ dialog'[v].rev = rev[p] /\ dialog'[v].direct = tuples[p]
        /\ UNCHANGED <<tuples, rev>>
    BY <1>1 DEF Load, Shows, Closed0, accessVars
  <2> QED
    BY <2>1 DEF SoundDialog
<1>2. ASSUME NEW s, NEW r, SaveCheck(v, s, r) PROVE SoundDialog(v)'
  <2> DEFINE d == dialog[v]
  <2>1. /\ d.page \in Page /\ d.rev <= rev[d.page]
        /\ d.rev = rev[d.page] => d.direct = tuples[d.page]
    BY <1>2 DEF DialogInv, SoundDialog, SaveCheck
  <2>2. /\ dialog'[v].page = d.page /\ dialog'[v].rev = d.rev
        /\ dialog'[v].direct = d.direct /\ dialog'[v].byRole = role[v]
        /\ UNCHANGED <<tuples, rev>>
    BY <1>2 DEF SaveCheck, Shows, accessVars
  <2>3. (Bears(d.page) /\ role[v] # "owner") => Held(tuples[d.page], v) = "owner"
    BY <1>2, <2>1, OwnerOfBearer DEF SaveCheck
  <2> QED
    BY <2>1, <2>2, <2>3 DEF SoundDialog, Bears
<1>3. ASSUME SaveRefused(v) PROVE SoundDialog(v)'
  <2>1. \/ dialog' = [dialog EXCEPT ![v] = [dialog[v] EXCEPT !.at = "open"]]
        \/ dialog' = [dialog EXCEPT ![v] = [dialog[v] EXCEPT !.at = "stale"]]
    BY <1>3 DEF SaveRefused, Shows
  <2>2. dialog[v] \in DialogRecord
    OBVIOUS
  <2>3. dialog'[v].at = "open" /\ dialog'[v] = [dialog[v] EXCEPT !.at = "open"]
    BY <2>1, <2>2 DEF DialogRecord
  <2>4. /\ dialog'[v].page = dialog[v].page /\ dialog'[v].rev = dialog[v].rev
        /\ dialog'[v].direct = dialog[v].direct
    BY <2>2, <2>3 DEF DialogRecord
  <2>5. SoundDialog(v) /\ UNCHANGED <<tuples, rev>>
    BY <1>3 DEF SaveRefused, DialogInv, accessVars
  <2> QED
    BY <2>3, <2>4, <2>5 DEF SoundDialog
<1>4. ASSUME Close(v) \/ SaveCommit(v) PROVE FALSE
  BY <1>4 DEF Close, SaveCommit, Shows, Closed0
(* Another user's commit on the same page leaves v's revision behind.      *)
<1>5. ASSUME NEW u \in User, SaveCommit(u), u # v PROVE SoundDialog(v)'
  <2> DEFINE q == dialog[v].page
  <2>1. dialog'[v] = dialog[v] /\ SoundDialog(v)
    BY <1>5 DEF SaveCommit, Shows, DialogInv
  <2>2. q \in Page /\ dialog[v].rev \in Nat /\ rev[q] \in Nat /\ dialog[v].rev <= rev[q]
    <3>1. q \in Page /\ dialog[v].rev <= rev[q]
      BY <2>1 DEF SoundDialog
    <3>2. dialog[v].rev \in 0..MaxWrites
      BY DEF DialogRecord
    <3> QED
      BY <3>1, <3>2, MaxWritesAssumption
  <2>3. CASE dialog[u].page = q
    <3>1. rev'[q] = rev[q] + 1
      BY <1>5, <2>2, <2>3 DEF SaveCommit
    <3>2. dialog[v].rev <= rev'[q] /\ dialog[v].rev # rev'[q]
      BY <2>2, <3>1
    <3> QED
      BY <2>1, <2>2, <3>2 DEF SoundDialog
  <2>4. CASE dialog[u].page # q
    <3>1. rev'[q] = rev[q] /\ tuples'[q] = tuples[q]
      BY <1>5, <2>2, <2>4 DEF SaveCommit, AccessTypeOK
    <3> QED
      BY <2>1, <3>1 DEF SoundDialog, Bears
  <2> QED
    BY <2>3, <2>4
(* What another user's dialog does otherwise, v's does not notice.         *)
<1>6. ASSUME NEW u \in User, u # v,
             \/ \E p \in Page : Load(u, p)
             \/ \E e \in Writes : SaveCheck(u, e[1], e[2])
             \/ Close(u) \/ SaveRefused(u)
      PROVE  SoundDialog(v)'
  BY <1>0, <1>6 DEF Load, SaveCheck, Close, SaveRefused, Shows, accessVars
<1>7. ASSUME NEW u \in User, MemberLeaves(u) PROVE SoundDialog(v)'
  BY <1>0, <1>7 DEF MemberLeaves, RemoveMember
<1>8. CASE UNCHANGED permVars
  BY <1>0, <1>8 DEF permVars, accessVars
<1> QED
  BY <1>1, <1>2, <1>3, <1>4, <1>5, <1>6, <1>7, <1>8 DEF PermissionsNext, Dialog

THEOREM DialogsSound == PermissionsSpec => [](PermissionsTypeOK /\ DialogInv)
<1>1. PermissionsTypeOK /\ DialogInv /\ [PermissionsNext]_permVars
        => (PermissionsTypeOK /\ DialogInv)'
  BY DialogTypes, DialogNext
<1> QED
  BY DialogInit, <1>1, PTL DEF PermissionsSpec

-----------------------------------------------------------------------------
LEMMA OnlyCommits ==
  ASSUME PermissionsTypeOK, [PermissionsNext]_permVars, NEW u \in User, Committed(u)
  PROVE  SaveCommit(u)
<1>1. dialog[u].at = "saving" /\ dialog'[u].at = "closed"
  BY DEF Committed
<1>2. ASSUME NEW v \in User, NEW d, Shows(v, d), d.at # "closed" PROVE FALSE
  BY <1>1, <1>2 DEF Shows, PermissionsTypeOK
<1>3. ASSUME NEW v \in User, Dialog(v) \/ \E p \in Page : Load(v, p) PROVE SaveCommit(u)
  <2>1. ASSUME NEW p \in Page, Load(v, p) PROVE FALSE
    BY <1>2, <2>1 DEF Load, Closed0
  <2>2. ASSUME Close(v) PROVE FALSE
    BY <1>1, <2>2 DEF Close, Shows, PermissionsTypeOK
  <2>3. ASSUME NEW e \in Writes, SaveCheck(v, e[1], e[2]) PROVE FALSE
    <3>1. [dialog[v] EXCEPT !.at = "saving", !.subject = e[1], !.relation = e[2],
                            !.byRole = role[v]].at = "saving"
      BY DEF PermissionsTypeOK, DialogRecord
    <3> QED
      BY <1>2, <2>3, <3>1 DEF SaveCheck
  <2>4. ASSUME SaveCommit(v) PROVE v = u
    BY <1>1, <2>4 DEF SaveCommit, Shows, PermissionsTypeOK
  <2>5. ASSUME SaveRefused(v) PROVE FALSE
    <3>1. \A a \in {"open", "stale"} : [dialog[v] EXCEPT !.at = a].at = a
      BY DEF PermissionsTypeOK, DialogRecord
    <3> QED
      BY <1>2, <2>5, <3>1 DEF SaveRefused
  <2>6. ASSUME MemberLeaves(v) PROVE FALSE
    BY <1>1, <2>6 DEF MemberLeaves
  <2> QED
    BY <1>3, <2>1, <2>2, <2>3, <2>4, <2>5, <2>6 DEF Dialog
<1>4. CASE UNCHANGED permVars
  BY <1>1, <1>4 DEF permVars
<1> QED
  BY <1>3, <1>4 DEF PermissionsNext

(* A change that is accepted lands on the very entries its dialog showed   *)
(* (ifRevision in writePagePermissions).                                   *)
THEOREM NothingOverwritten == PermissionsSpec => NoLostUpdate
<1>1. PermissionsTypeOK /\ DialogInv /\ [PermissionsNext]_permVars =>
        [\A u \in User : Committed(u) => tuples[dialog[u].page] = dialog[u].direct]_permVars
  BY OnlyCommits DEF SaveCommit, DialogInv, SoundDialog
<1> QED
  BY <1>1, DialogsSound, PTL DEF PermissionsSpec, NoLostUpdate

(* On a page with entries, whoever's change lands is an owner by those     *)
(* entries at that moment, although the relation was checked earlier and   *)
(* outside the transaction.                                                *)
THEOREM OwnerWhenItLands == PermissionsSpec => OwnerWhenWritten
<1> DEFINE Owned(u) == LET p == dialog[u].page IN
                       (Committed(u) /\ Bears(p) /\ dialog[u].byRole # "owner")
                         => Held(tuples[p], u) = "owner"
<1>1. PermissionsTypeOK /\ DialogInv /\ [PermissionsNext]_permVars =>
        [\A u \in User : Owned(u)]_permVars
  BY OnlyCommits DEF SaveCommit, DialogInv, SoundDialog
<1> QED
  BY <1>1, DialogsSound, PTL DEF PermissionsSpec, OwnerWhenWritten
=============================================================================
