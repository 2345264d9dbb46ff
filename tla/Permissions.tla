----------------------------- MODULE Permissions ----------------------------
(***************************************************************************)
(* The sharing dialog and the handlers it calls (getPagePermissions and    *)
(* writePagePermissions of packages/server/src/handlers/permissions.ts,    *)
(* packages/app/src/components/SharePageModal.tsx), several people at a    *)
(* time.  The tree stands still.                                           *)
(*                                                                         *)
(* A dialog reads a page's entries and the page's revision, and sends one  *)
(* change with that revision.  The write is one transaction; the caller's  *)
(* relation is checked before it, outside.                                 *)
(***************************************************************************)
EXTENDS Access

CONSTANT MaxWrites   \* writes per page (bounds the revisions)

ASSUME MaxWritesAssumption == MaxWrites \in Nat

VARIABLES
  rev,      \* acl_revisions
  dialog    \* each user's sharing dialog

permVars == <<vars, accessVars, rev, dialog>>

Closed0 == [at |-> "closed", page |-> NoPage, direct |-> NoTuples, rev |-> 0,
            subject |-> Members, relation |-> Nothing, byRole |-> Nothing]

DialogRecord == [at : {"closed", "reading", "open", "saving", "stale"},
                 page : OptPage,
                 direct : [Subject -> Relation \union {Nothing}],
                 rev : 0..MaxWrites,
                 subject : Subject,
                 relation : Relation \union {Nothing},
                 byRole : Role]

PermissionsTypeOK ==
  /\ AccessTypeOK
  /\ rev \in [Page -> 0..MaxWrites]
  /\ dialog \in [User -> DialogRecord]

\* Some tree of live pages.
PermissionsInit ==
  /\ unused = {}
  /\ stored = Page
  /\ parent \in [Page -> OptPage]
  /\ TreeStaysATree
  /\ trashed = {}
  /\ trashedWith = [p \in Page |-> NoPage]
  /\ deletedAt = [p \in Page |-> "none"]
  /\ carried = [p \in Page |-> {}]
  /\ role = [u \in User |-> IF u = Founder THEN "owner" ELSE "member"]
  /\ tuples = [p \in Page |-> NoTuples]
  /\ rev = [p \in Page |-> 0]
  /\ dialog = [u \in User |-> Closed0]

Shows(u, d) == dialog' = [dialog EXCEPT ![u] = d]

-----------------------------------------------------------------------------
\* getPagePermissions: the entries, then in a later statement the revision.
LoadEntries(u, p) ==
  /\ dialog[u].at \in {"closed", "stale"}
  /\ CanAccess(u, p, "viewer")
  /\ Shows(u, [Closed0 EXCEPT !.at = "reading", !.page = p, !.direct = tuples[p]])
  /\ UNCHANGED <<vars, accessVars, rev>>

LoadRevision(u) ==
  /\ dialog[u].at = "reading"
  /\ Shows(u, [dialog[u] EXCEPT !.at = "open", !.rev = rev[dialog[u].page]])
  /\ UNCHANGED <<vars, accessVars, rev>>

\* The same with nothing in between.
Load(u, p) ==
  /\ dialog[u].at \in {"closed", "stale"}
  /\ CanAccess(u, p, "viewer")
  /\ Shows(u, [Closed0 EXCEPT !.at = "open", !.page = p, !.direct = tuples[p], !.rev = rev[p]])
  /\ UNCHANGED <<vars, accessVars, rev>>

Close(u) ==
  /\ dialog[u].at \in {"open", "stale"}
  /\ Shows(u, Closed0)
  /\ UNCHANGED <<vars, accessVars, rev>>

\* Mutant: an editor will do, as for the other page RPCs.
SaveCheckEditor(u, s, r) ==
  /\ dialog[u].at = "open"
  /\ CanAccess(u, dialog[u].page, "editor")
  /\ Shows(u, [dialog[u] EXCEPT !.at = "saving", !.subject = s, !.relation = r,
                                !.byRole = role[u]])
  /\ UNCHANGED <<vars, accessVars, rev>>

\* The RPC reads the caller's role and relation, and goes on to the write.
SaveCheck(u, s, r) ==
  /\ dialog[u].at = "open"
  /\ CanAccess(u, dialog[u].page, "owner")
  /\ Shows(u, [dialog[u] EXCEPT !.at = "saving", !.subject = s, !.relation = r,
                                !.byRole = role[u]])
  /\ UNCHANGED <<vars, accessVars, rev>>

\* Mutant: the revision is not compared.
CommitAnyway(u) ==
  LET d == dialog[u]
      entries == [tuples[d.page] EXCEPT ![d.subject] = d.relation]
  IN
  /\ d.at = "saving"
  /\ Kept(entries, d.byRole)
  /\ rev[d.page] < MaxWrites
  /\ tuples' = [tuples EXCEPT ![d.page] = entries]
  /\ rev' = [rev EXCEPT ![d.page] = @ + 1]
  /\ Shows(u, Closed0)
  /\ UNCHANGED <<vars, role>>

\* The transaction: the revision compared, the entry written, an owner left,
\* the revision bumped.  The dialog reloads afterwards.
SaveCommit(u) ==
  LET d == dialog[u]
      entries == [tuples[d.page] EXCEPT ![d.subject] = d.relation]
  IN
  /\ d.at = "saving"
  /\ rev[d.page] = d.rev
  /\ Kept(entries, d.byRole)
  /\ rev[d.page] < MaxWrites
  /\ tuples' = [tuples EXCEPT ![d.page] = entries]
  /\ rev' = [rev EXCEPT ![d.page] = @ + 1]
  /\ Shows(u, Closed0)
  /\ UNCHANGED <<vars, role>>

\* ConflictError, rolled back: refreshed if the revision moved, else shown.
SaveRefused(u) ==
  LET d == dialog[u] IN
  /\ d.at = "saving"
  /\ \/ rev[d.page] # d.rev /\ Shows(u, [d EXCEPT !.at = "stale"])
     \/ /\ rev[d.page] = d.rev
        /\ ~Kept([tuples[d.page] EXCEPT ![d.subject] = d.relation], d.byRole)
        /\ Shows(u, [d EXCEPT !.at = "open"])
  /\ UNCHANGED <<vars, accessVars, rev>>

MemberLeaves(u) == RemoveMember(u) /\ UNCHANGED <<rev, dialog>>

Dialog(u) ==
  \/ Close(u)
  \/ \E e \in Writes : SaveCheck(u, e[1], e[2])
  \/ SaveCommit(u)
  \/ SaveRefused(u)
  \/ MemberLeaves(u)

PermissionsNext == \E u \in User : Dialog(u) \/ \E p \in Page : Load(u, p)
TornNext == \E u \in User : Dialog(u) \/ LoadRevision(u) \/ \E p \in Page : LoadEntries(u, p)

PermissionsSpec == PermissionsInit /\ [][PermissionsNext]_permVars
TornSpec        == PermissionsInit /\ [][TornNext]_permVars

-----------------------------------------------------------------------------
Committed(u) == dialog[u].at = "saving" /\ dialog'[u].at = "closed"

(* Nobody writes over entries they have not seen: a change that is         *)
(* accepted lands on the very entries its dialog showed.                   *)
NoLostUpdate ==
  [][\A u \in User : Committed(u) => tuples[dialog[u].page] = dialog[u].direct]_permVars

(* The revision closes the gap between the check and the transaction: on a *)
(* page with entries of its own, whoever's change is accepted is an owner  *)
(* by those entries when it lands, or the workspace's owner.               *)
OwnerWhenWritten ==
  [][\A u \in User :
       LET p == dialog[u].page IN
       (Committed(u) /\ Bears(p) /\ dialog[u].byRole # "owner") =>
         Held(tuples[p], u) = "owner"]_permVars

(* Migration 011: reads carry the revision so that a dialog can tell when  *)
(* its view is stale.  A dialog whose revision is current must show the    *)
(* current entries.                                                        *)
TokenNamesContent ==
  \A u \in User : LET d == dialog[u] IN
    (d.at \in {"open", "saving"} /\ d.rev = rev[d.page]) => d.direct = tuples[d.page]
=============================================================================
