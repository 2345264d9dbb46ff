------------------------------ MODULE Presence ------------------------------
(***************************************************************************)
(* Who is on a page and who holds the soft lock of a block: the service    *)
(* (packages/server/src/presence/PresenceService.ts), the routes in front  *)
(* of it, and the client's connection and store                            *)
(* (packages/app/src/lib/presenceConnection.ts, stores/presenceStore.ts).  *)
(*                                                                         *)
(* One page.  A tab posts heartbeats and leaves as separate requests,      *)
(* which arrive in any order or not at all, and listens to one stream of   *)
(* frames that arrive in order.  Times are ages: an entry's age counts the *)
(* clock's steps since its last heartbeat.                                 *)
(***************************************************************************)
EXTENDS Naturals, Sequences, Bags

CONSTANTS
  User, Tab, Block,
  UserOf,       \* the user signed in on each tab
  Listening,    \* the tabs whose stream gets through (proxies may hold one back)
  NoUser, NoBlock, NoEntry,
  Away,         \* what a frame that does not list a user says of them
  LockTTL,      \* lockTtlMs, in steps of the clock
  PresenceTTL,  \* presenceTtlMs
  MaxInFlight,  \* requests on the wire at a time
  MaxStream     \* frames on their way to one tab

ASSUME TabAssumption == UserOf \in [Tab -> User] /\ Listening \subseteq Tab
ASSUME TTLAssumption ==
  /\ LockTTL \in Nat /\ PresenceTTL \in Nat
  /\ LockTTL < PresenceTTL
ASSUME BoundAssumption == MaxInFlight \in Nat /\ MaxStream \in Nat
ASSUME NamesAssumption ==
  /\ NoUser \notin User
  /\ NoBlock \notin Block
  /\ Away \notin Block \union {NoBlock}
  /\ NoEntry \notin [focus : Block \union {NoBlock}, age : 0..PresenceTTL + 1]

OptBlock == Block \union {NoBlock}
Entry    == [focus : OptBlock, age : 0..PresenceTTL + 1]
Frame    == [User -> OptBlock \union {Away}]
Request  == [kind : {"heartbeat"}, user : User, focus : OptBlock]
              \union [kind : {"leave"}, user : User]

VARIABLES
  order,      \* the insertion order of the service's Map: who came before whom
  entry,      \* each user's entry
  connected,  \* the tabs with an open stream
  stream,     \* the frames on their way to each tab
  tab,        \* each tab's Connection: where it is, and its focusedBlockId
  view,       \* each tab's presence store: the last frame, oneself left out
  inflight    \* the requests on the wire, a bag

server  == <<order, entry>>
streams == <<connected, stream>>
clients == <<tab, view>>
presenceVars == <<server, streams, clients, inflight>>

Nobody == [u \in User |-> Away]
Closed == [at |-> "closed", focus |-> NoBlock]

FramesTypeOK ==
  /\ entry \in [User -> Entry \union {NoEntry}]
  /\ connected \in [Tab -> BOOLEAN]
  /\ stream \in [Tab -> Seq(Frame)]
  /\ tab \in [Tab -> [at : {"closed", "open"}, focus : OptBlock]]
  /\ view \in [Tab -> Frame]

Present(e, u) == e[u] # NoEntry

\* Those on the page are in line, each once.
OrderTypeOK ==
  /\ order \subseteq User \X User
  /\ \A u, v \in User : <<u, v>> \in order => Present(entry, u) /\ Present(entry, v)
  /\ \A u, v \in User : Present(entry, u) /\ Present(entry, v) /\ u # v =>
       (<<u, v>> \in order <=> <<v, u>> \notin order)
  /\ \A u \in User : <<u, u>> \notin order
  /\ \A u, v, w \in User : <<u, v>> \in order /\ <<v, w>> \in order => <<u, w>> \in order

PresenceTypeOK ==
  /\ FramesTypeOK
  /\ OrderTypeOK
  /\ BagToSet(inflight) \subseteq Request

PresenceInit ==
  /\ order = {}
  /\ entry = [u \in User |-> NoEntry]
  /\ connected = [t \in Tab |-> FALSE]
  /\ stream = [t \in Tab |-> <<>>]
  /\ tab = [t \in Tab |-> Closed]
  /\ view = [t \in Tab |-> Nobody]
  /\ inflight = EmptyBag

-----------------------------------------------------------------------------
(* The service.                                                            *)

Lapsed(e, u)  == Present(e, u) /\ e[u].age > PresenceTTL
Focusing(e, u) == e[u].focus # NoBlock /\ e[u].age <= LockTTL

\* snapshot: a lapsed entry is left out even before the sweep evicts it.
Snapshot(e) ==
  [u \in User |->
     IF ~Present(e, u) \/ Lapsed(e, u) THEN Away
     ELSE IF Focusing(e, u) THEN e[u].focus ELSE NoBlock]

Holds(u, b) ==
  /\ Present(entry, u) /\ ~Lapsed(entry, u)
  /\ Focusing(entry, u) /\ entry[u].focus = b

\* The first of those who hold it, in the order they came to the page.
HoldsLock(u, b) ==
  /\ Holds(u, b)
  /\ \A v \in User \ {u} : Holds(v, b) => <<u, v>> \in order

\* emit: one frame to every stream of the page but those of the user whose
\* request this is.
Emit(e, actor) ==
  /\ \A t \in Tab : Len(stream[t]) < MaxStream
  /\ stream' = [t \in Tab |->
                  IF connected[t] /\ UserOf[t] # actor
                  THEN Append(stream[t], Snapshot(e))
                  ELSE stream[t]]

LastInLine(u) == {v \in User : Present(entry, v)} \X {u}

\* Mutant: a heartbeat puts its user at the end.
OrderAfterReinsert(u) == {w \in order : w[1] # u} \union (LastInLine(u) \ {<<u, u>>})

\* Map.set keeps the place of a key that is there.
EntryAfter(u, f) == [entry EXCEPT ![u] = [focus |-> f, age |-> 0]]
OrderAfter(u)    == IF Present(entry, u) THEN order ELSE order \union LastInLine(u)

\* The others are told of a newcomer and of a change of focus, not of a
\* heartbeat that renews a lapsed entry.
Heartbeat(u, f) ==
  /\ entry' = EntryAfter(u, f)
  /\ order' = OrderAfter(u)
  /\ IF ~Present(entry, u) \/ entry[u].focus # f
     THEN Emit(entry', u)
     ELSE UNCHANGED stream

Remaining(gone) == {w \in order : w[1] \notin gone /\ w[2] \notin gone}
EntryWithout(gone) == [u \in User |-> IF u \in gone THEN NoEntry ELSE entry[u]]

Evict(gone) ==
  /\ entry' = EntryWithout(gone)
  /\ order' = Remaining(gone)
  /\ Emit(entry', NoUser)

LeaveQuietly(u) ==
  /\ entry' = EntryWithout({u})
  /\ order' = Remaining({u})
  /\ UNCHANGED stream

Leave(u) == IF Present(entry, u) THEN Evict({u}) ELSE UNCHANGED <<server, stream>>

\* A request reaches the service, whatever has become of its tab.
Handle(r) ==
  /\ BagIn(r, inflight)
  /\ inflight' = inflight (-) SetToBag({r})
  /\ IF r.kind = "heartbeat" THEN Heartbeat(r.user, r.focus) ELSE Leave(r.user)
  /\ UNCHANGED <<connected, clients>>

SweepIdle ==
  LET gone == {u \in User : Lapsed(entry, u) /\ entry[u].focus = NoBlock}
  IN  /\ gone # {}
      /\ Evict(gone)
      /\ UNCHANGED <<connected, clients, inflight>>

Sweep ==
  LET gone == {u \in User : Lapsed(entry, u)}
  IN  /\ gone # {}
      /\ Evict(gone)
      /\ UNCHANGED <<connected, clients, inflight>>

Older(e) == [e EXCEPT !.age = IF @ > PresenceTTL THEN @ ELSE @ + 1]

TimePasses ==
  /\ entry' = [u \in User |-> IF Present(entry, u) THEN Older(entry[u]) ELSE NoEntry]
  /\ UNCHANGED <<order, streams, clients, inflight>>

\* Nothing of this is stored; a new process starts with no entries and no
\* streams.
Restart ==
  /\ order' = {}
  /\ entry' = [u \in User |-> NoEntry]
  /\ connected' = [t \in Tab |-> FALSE]
  /\ stream' = [t \in Tab |-> <<>>]
  /\ UNCHANGED <<clients, inflight>>

-----------------------------------------------------------------------------
(* The network.                                                            *)

Send(r) ==
  /\ BagCardinality(inflight) < MaxInFlight
  /\ inflight' = inflight (+) SetToBag({r})

\* A failed fetch is swallowed; so is a refusal by the route.
Lose(r) ==
  /\ BagIn(r, inflight)
  /\ inflight' = inflight (-) SetToBag({r})
  /\ UNCHANGED <<server, streams, clients>>

\* The route answers with what is true now and subscribes in the same step.
Connect(t) ==
  /\ t \in Listening
  /\ tab[t].at = "open" /\ ~connected[t]
  /\ connected' = [connected EXCEPT ![t] = TRUE]
  /\ stream' = [stream EXCEPT ![t] = <<Snapshot(entry)>>]
  /\ UNCHANGED <<server, clients, inflight>>

\* The EventSource loses its connection; it reconnects by itself, and until
\* then the store keeps what it last showed.
Drop(t) ==
  /\ connected[t]
  /\ connected' = [connected EXCEPT ![t] = FALSE]
  /\ stream' = [stream EXCEPT ![t] = <<>>]
  /\ UNCHANGED <<server, clients, inflight>>

-----------------------------------------------------------------------------
(* The client.                                                             *)

\* setOthers drops oneself.
OthersOf(t, frame) == [frame EXCEPT ![UserOf[t]] = Away]

Deliver(t) ==
  /\ stream[t] # <<>>
  /\ view' = [view EXCEPT ![t] = OthersOf(t, Head(stream[t]))]
  /\ stream' = [stream EXCEPT ![t] = Tail(@)]
  /\ UNCHANGED <<server, connected, tab, inflight>>

Locks(t) == {b \in Block : \E u \in User : view[t][u] = b}

HeartbeatOf(t, f) == [kind |-> "heartbeat", user |-> UserOf[t], focus |-> f]

StartPresence(t) ==
  /\ tab[t].at = "closed"
  /\ tab' = [tab EXCEPT ![t] = [at |-> "open", focus |-> NoBlock]]
  /\ Send(HeartbeatOf(t, NoBlock))
  /\ UNCHANGED <<server, streams, view>>

\* The timer.
Beat(t) ==
  /\ tab[t].at = "open"
  /\ Send(HeartbeatOf(t, tab[t].focus))
  /\ UNCHANGED <<server, streams, clients>>

\* A locked block's editor is read-only and takes no caret.
SetFocusedBlock(t, f) ==
  /\ tab[t].at = "open"
  /\ tab[t].focus # f
  /\ f \notin Locks(t)
  /\ tab' = [tab EXCEPT ![t].focus = f]
  /\ Send(HeartbeatOf(t, f))
  /\ UNCHANGED <<server, streams, view>>

\* The connection is closed and the store reset.
CloseTab(t) ==
  /\ tab[t].at = "open"
  /\ tab' = [tab EXCEPT ![t] = Closed]
  /\ view' = [view EXCEPT ![t] = Nobody]
  /\ connected' = [connected EXCEPT ![t] = FALSE]
  /\ stream' = [stream EXCEPT ![t] = <<>>]
  /\ UNCHANGED server

StopPresence(t) ==
  /\ CloseTab(t)
  /\ Send([kind |-> "leave", user |-> UserOf[t]])

\* A navigation to another document aborts the leave, a crash never sends it.
Vanish(t) == CloseTab(t) /\ UNCHANGED inflight

-----------------------------------------------------------------------------
PresenceNext ==
  \/ \E r \in Request : Handle(r)
  \/ \E r \in Request : Lose(r)
  \/ Sweep
  \/ TimePasses
  \/ Restart
  \/ \E t \in Tab : Connect(t)
  \/ \E t \in Tab : Drop(t)
  \/ \E t \in Tab : Deliver(t)
  \/ \E t \in Tab : StartPresence(t)
  \/ \E t \in Tab : Beat(t)
  \/ \E t \in Tab, f \in OptBlock : SetFocusedBlock(t, f)
  \/ \E t \in Tab : StopPresence(t)
  \/ \E t \in Tab : Vanish(t)

PresenceSpec == PresenceInit /\ [][PresenceNext]_presenceVars

\* The clock, the sweep's interval, frames on an open stream and requests on
\* the wire move on their own; no tab is fair.  The interval fires whatever
\* else goes on: only the bound MaxStream ever disables Sweep, hence SF.
FairPresenceSpec ==
  /\ PresenceSpec
  /\ WF_presenceVars(TimePasses)
  /\ SF_presenceVars(Sweep)
  /\ \A t \in Tab : WF_presenceVars(Deliver(t))
  /\ \A r \in Request : WF_presenceVars(Handle(r) \/ Lose(r))

-----------------------------------------------------------------------------
(* What the tab will show once its frames have arrived.                    *)
Latest(t) == IF stream[t] = <<>> THEN view[t] ELSE stream[t][Len(stream[t])]

(* A tab with an open stream never shows, nor is about to settle on, a     *)
(* user who is not on the page, nor a focus that is not the one on record: *)
(* every departure, eviction and change of focus is told to every stream.  *)
ShownIsRecorded ==
  \A t \in Tab : \A u \in User \ {UserOf[t]} :
    connected[t] /\ Latest(t)[u] # Away
      => /\ Present(entry, u)
         /\ Latest(t)[u] \in {entry[u].focus, NoBlock}

(* A lock passes to somebody else only when its holder gave it up or let   *)
(* it lapse, or to somebody who came to the page earlier: renewing a lock  *)
(* never hands it over.                                                    *)
LockStaysPut ==
  [][\A b \in Block, u, v \in User :
       u # v /\ HoldsLock(u, b) /\ HoldsLock(v, b)'
         => ~Holds(u, b)' \/ <<v, u>> \in order]_presenceVars

Gone(u) == \A t \in Tab : UserOf[t] = u => tab[t].at = "closed"

(* Somebody who left for good, with or without saying so, is in the end    *)
(* shown to nobody whose stream stays open, even when a heartbeat of       *)
(* theirs outlives the leave and puts them back.                           *)
DepartedForgotten ==
  \A t \in Tab, u \in User :
    <>[](Gone(u) /\ connected[t]) => <>[](view[t][u] = Away)
=============================================================================
