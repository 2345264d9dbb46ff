------------------------------- MODULE Access --------------------------------
(***************************************************************************)
(* Who holds what on a page (packages/server/src/acl.ts, membership.ts and *)
(* the list filters of handlers/permissions.ts), over the page tree.       *)
(*                                                                         *)
(* The nearest page at or above the one asked about that bears any tuple   *)
(* decides for its whole subtree; workspace owners hold everything; where  *)
(* nothing above bears a tuple a member may edit.  The list of pages is    *)
(* filtered by a second walk, over the rows the list itself returned.      *)
(***************************************************************************)
EXTENDS PageTree

CONSTANTS User,
          Founder,   \* the workspace's owner_id
          Writes,    \* the entries that dialogs send: subject and relation (bounds)
          MaxLocks   \* pages that bear entries at a time (bounds)

ASSUME FounderAssumption == Founder \in User

VARIABLES
  role,     \* workspace_members
  tuples    \* acl_tuples of each page: at most one relation per subject

accessVars == <<role, tuples>>

Relation  == {"owner", "editor", "viewer"}
Nothing   == "none"
Role      == {"owner", "member", Nothing}

\* Users are subjects; so are the workspace's members taken together.
Members   == "members"
Subject   == User \union {Members}
SubjectsOf(u) == {u, Members}
ASSUME WritesAssumption == Writes \subseteq Subject \X (Relation \union {Nothing})

AccessTypeOK ==
  /\ TypeOK
  /\ role \in [User -> Role]
  /\ tuples \in [Page -> [Subject -> Relation \union {Nothing}]]

NoTuples == [s \in Subject |-> Nothing]

AccessInit ==
  /\ Init
  /\ role = [u \in User |-> IF u = Founder THEN "owner" ELSE "member"]
  /\ tuples = [p \in Page |-> NoTuples]

-----------------------------------------------------------------------------
(* Relations.                                                              *)

IMPLIES == [owner  |-> {"owner", "editor", "viewer"},
            editor |-> {"editor", "viewer"},
            viewer |-> {"viewer"},
            none   |-> {}]

Implies(held, required) == required \in IMPLIES[held]

\* The strongest of the relations in R, Nothing if there is none.
Strongest(R) ==
  IF R \intersect Relation = {} THEN Nothing
  ELSE CHOOSE r \in R \intersect Relation : R \intersect Relation \subseteq IMPLIES[r]

\* What the tuples of a page say of u.
Held(entries, u) == Strongest({entries[s] : s \in SubjectsOf(u)})

Bears(p) == tuples[p] # NoTuples

-----------------------------------------------------------------------------
(* The walks.  Both go up from p and stop at the first page that bears a   *)
(* tuple.                                                                  *)

\* The pages a walk from p over up meets: p, and the parent of each page met
\* that bears nothing.
Climbs(up, C) == \A q \in C : (~Bears(q) /\ up[q] # NoPage) => up[q] \in C
Met(up, p) == {q \in Page : \A C \in SUBSET Page : (p \in C /\ Climbs(up, C)) => q \in C}

Deciding(up, p) == {q \in Met(up, p) : Bears(q)}

\* Mutant: who holds something at the nearest bearer keeps what bearers further
\* up add to it.
UnionRelation(u, p) ==
  CASE role[u] = Nothing -> Nothing
    [] role[u] = "owner" -> "owner"
    [] OTHER ->
       LET nearest == Strongest({Held(tuples[q], u) : q \in Deciding(parent, p)})
           above   == {q \in Page : p \in Subtree(q) /\ Bears(q)}
       IN  IF Deciding(parent, p) = {} THEN "editor"
           ELSE IF nearest = Nothing THEN Nothing
           ELSE Strongest({Held(tuples[q], u) : q \in above})

\* The rules in order: the workspace's owner, the nearest bearer, the member.
EffectiveRelation(u, p) ==
  CASE role[u] = Nothing -> Nothing
    [] role[u] = "owner" -> "owner"
    [] OTHER ->
       IF Deciding(parent, p) = {} THEN "editor"
       ELSE Strongest({Held(tuples[q], u) : q \in Deciding(parent, p)})

CanAccess(u, p, required) == Implies(EffectiveRelation(u, p), required)

\* Mutant: the list looks only at the page's own tuples.
FilterByOwnTuples(u) ==
  IF role[u] = "owner" THEN Live
  ELSE {p \in Live : Bears(p) => \E s \in SubjectsOf(u) : tuples[p][s] # Nothing}

\* listPages for u: live pages, the walk going by the rows of the list, which
\* has no row for a page in the trash.
ListedParent == [p \in Page |-> IF p \in Live THEN parent[p] ELSE NoPage]
FilterPages(u) ==
  IF role[u] = "owner" THEN Live
  ELSE {p \in Live : \A q \in Deciding(ListedParent, p) :
                       \E s \in SubjectsOf(u) : tuples[q][s] # Nothing}

-----------------------------------------------------------------------------
(* Handlers.  RPCs ask for editor on the page they change; createPage asks *)
(* for nothing.                                                            *)

PageRequest(u) ==
  LET places == (Visible \intersect FilterPages(u)) \union {NoPage} IN
  /\ role[u] # Nothing
  /\ \/ \E p \in unused, t \in places : CreatePage(p, t)
     \/ \E p \in {q \in Live : CanAccess(u, q, "editor")}, t \in places : MovePage(p, t)
     \/ \E p \in Visible : CanAccess(u, p, "editor") /\ DeletePage(p)
     \/ \E p \in Listed : CanAccess(u, p, "editor") /\ RestorePage(p)
     \/ \E p \in Listed : CanAccess(u, p, "editor") /\ PurgePage(p)
  /\ UNCHANGED accessVars

\* writePagePermissions with one entry set (or removed, r = Nothing): someone
\* must be left as owner, or nobody at all, unless a workspace owner asks.
Kept(entries, byRole) ==
  \/ entries = NoTuples
  \/ \E s \in Subject : entries[s] = "owner"
  \/ byRole = "owner"

WriteEntry(u, p, s, r) ==
  LET entries == [tuples[p] EXCEPT ![s] = r] IN
  /\ CanAccess(u, p, "owner")
  /\ Kept(entries, role[u])
  /\ Cardinality({q \in Page : Bears(q)} \union {p}) <= MaxLocks
  /\ tuples' = [tuples EXCEPT ![p] = entries]
  /\ UNCHANGED <<vars, role>>

\* Mutant: the row goes from the map, and the lookup finds no role, not null.
RemoveRow(u) ==
  /\ u # Founder
  /\ role' = [v \in User \ {u} |-> role[v]]
  /\ UNCHANGED <<vars, tuples>>

\* The tuples that address a removed member stay.
RemoveMember(u) ==
  /\ u # Founder
  /\ role' = [role EXCEPT ![u] = Nothing]
  /\ UNCHANGED <<vars, tuples>>

Join(u) ==
  /\ role[u] = Nothing
  /\ role' = [role EXCEPT ![u] = "member"]
  /\ UNCHANGED <<vars, tuples>>

AccessNext ==
  \/ \E u \in User : PageRequest(u)
  \/ \E u \in User, p \in Visible, e \in Writes : WriteEntry(u, p, e[1], e[2])
  \/ \E u \in User : RemoveMember(u) \/ Join(u)

AccessSpec == AccessInit /\ [][AccessNext]_<<vars, accessVars>>

-----------------------------------------------------------------------------
(* The list of pages and the check a page is opened with agree: of the     *)
(* pages the sidebar can draw, a member is shown exactly those getPage     *)
(* lets them read, although the one walks the listed rows and the other    *)
(* the whole table.                                                        *)
ListAgreesWithCheck ==
  \A u \in User : role[u] # Nothing =>
    \A p \in Visible : p \in FilterPages(u) <=> CanAccess(u, p, "viewer")

(* The lock is local (ADR-007): a write to one page's entries changes what *)
(* someone holds only on pages whose walk reaches that page, before or     *)
(* after; nothing below a nearer bearer moves.                             *)
WriteIsLocal ==
  [][\A u \in User, q \in Page :
       (UNCHANGED <<role, parent>> /\ EffectiveRelation(u, q)' # EffectiveRelation(u, q)) =>
         \E p \in Page : tuples'[p] # tuples[p] /\ p \in Met(parent, q)]_<<vars, accessVars>>
=============================================================================
