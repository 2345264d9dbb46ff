--------------------------- MODULE Presence_proofs --------------------------
(***************************************************************************)
(* What a listening tab shows is what the service has on record, for any   *)
(* number of users, tabs, blocks and requests in flight; and whose lock    *)
(* it is goes by the order in which users came.                            *)
(***************************************************************************)
EXTENDS Presence, TLAPS

IInv == FramesTypeOK /\ ShownIsRecorded

\* What a frame says of a user, if anything, is on record.
Truthful(frame, e, u) ==
  frame[u] # Away => e[u] # NoEntry /\ frame[u] \in {e[u].focus, NoBlock}

LEMMA SnapshotIsFrame ==
  ASSUME NEW e \in [User -> Entry \union {NoEntry}]
  PROVE  /\ Snapshot(e) \in Frame
         /\ \A u \in User : Truthful(Snapshot(e), e, u)
<1>1. ASSUME NEW u \in User
      PROVE  /\ Snapshot(e)[u] \in OptBlock \union {Away}
             /\ Truthful(Snapshot(e), e, u)
  <2>1. CASE ~Present(e, u) \/ Lapsed(e, u)
    BY <2>1 DEF Snapshot, Truthful
  <2>2. CASE Present(e, u) /\ ~Lapsed(e, u)
    <3>1. e[u] \in Entry
      BY <2>2 DEF Present
    <3>2. Snapshot(e)[u] = IF Focusing(e, u) THEN e[u].focus ELSE NoBlock
      BY <2>2 DEF Snapshot
    <3> QED BY <2>2, <3>1, <3>2 DEF Truthful, Present, Entry, OptBlock
  <2> QED BY <2>1, <2>2
<1> QED BY <1>1 DEF Snapshot, Frame

\* The table a request or a sweep leaves behind.
LEMMA NewTables ==
  ASSUME FramesTypeOK
  PROVE  /\ \A u \in User, f \in OptBlock :
              /\ EntryAfter(u, f) \in [User -> Entry \union {NoEntry}]
              /\ EntryAfter(u, f)[u] # NoEntry
              /\ EntryAfter(u, f)[u].focus = f
              /\ \A v \in User \ {u} : EntryAfter(u, f)[v] = entry[v]
         /\ \A gone : EntryWithout(gone) \in [User -> Entry \union {NoEntry}]
<1>1. \A f \in OptBlock : [focus |-> f, age |-> 0] \in Entry
  BY TTLAssumption DEF Entry
<1>2. NoEntry \notin Entry
  BY NamesAssumption DEF Entry, OptBlock
<1> QED BY <1>1, <1>2 DEF FramesTypeOK, EntryAfter, EntryWithout

\* What emit leaves: the newest frame of a tab that is told is the snapshot,
\* the others' is what it was.
LEMMA EmitTells ==
  ASSUME FramesTypeOK, NEW e \in [User -> Entry \union {NoEntry}], NEW actor,
         Emit(e, actor), UNCHANGED <<connected, view>>
  PROVE  /\ stream' \in [Tab -> Seq(Frame)]
         /\ \A t \in Tab : connected[t] /\ UserOf[t] # actor => Latest(t)' = Snapshot(e)
         /\ \A t \in Tab : ~(connected[t] /\ UserOf[t] # actor) => Latest(t)' = Latest(t)
<1>1. Snapshot(e) \in Frame
  BY SnapshotIsFrame
<1>2. ASSUME NEW t \in Tab
      PROVE  stream'[t] = IF connected[t] /\ UserOf[t] # actor
                          THEN Append(stream[t], Snapshot(e)) ELSE stream[t]
  BY DEF Emit
<1>3. stream' \in [Tab -> Seq(Frame)]
  <2>1. \A t \in Tab : stream[t] \in Seq(Frame) /\ Append(stream[t], Snapshot(e)) \in Seq(Frame)
    BY <1>1 DEF FramesTypeOK
  <2> QED BY <2>1 DEF Emit
<1>4. ASSUME NEW t \in Tab, connected[t] /\ UserOf[t] # actor
      PROVE  Latest(t)' = Snapshot(e)
  <2>1. stream[t] \in Seq(Frame)
    BY DEF FramesTypeOK
  <2>2. stream'[t] = Append(stream[t], Snapshot(e))
    BY <1>2, <1>4
  <2>3. /\ stream'[t] # <<>>
        /\ Len(stream'[t]) = Len(stream[t]) + 1
        /\ stream'[t][Len(stream[t]) + 1] = Snapshot(e)
    <3>1. /\ Append(stream[t], Snapshot(e)) # <<>>
          /\ Len(Append(stream[t], Snapshot(e))) = Len(stream[t]) + 1
          /\ Append(stream[t], Snapshot(e))[Len(stream[t]) + 1] = Snapshot(e)
      BY <1>1, <2>1
    <3> QED BY <2>2, <3>1, Zenon
  <2> QED BY <2>3 DEF Latest
<1>5. ASSUME NEW t \in Tab, ~(connected[t] /\ UserOf[t] # actor)
      PROVE  Latest(t)' = Latest(t)
  BY <1>2, <1>5 DEF Latest
<1> QED BY <1>3, <1>4, <1>5

LEMMA HeartbeatKeeps ==
  ASSUME IInv, NEW u \in User, NEW f \in OptBlock, Heartbeat(u, f),
         UNCHANGED <<connected, clients>>
  PROVE  IInv'
<1> USE DEF IInv
<1>1. /\ entry' = EntryAfter(u, f)
      /\ entry' \in [User -> Entry \union {NoEntry}]
      /\ entry'[u] # NoEntry /\ entry'[u].focus = f
      /\ \A v \in User \ {u} : entry'[v] = entry[v]
  BY NewTables DEF Heartbeat
<1>2. CASE ~Present(entry, u) \/ entry[u].focus # f
  <2>1. Emit(entry', u)
    BY <1>2 DEF Heartbeat
  <2>2. /\ stream' \in [Tab -> Seq(Frame)]
        /\ \A t \in Tab : connected[t] /\ UserOf[t] # u => Latest(t)' = Snapshot(entry')
        /\ \A t \in Tab : ~(connected[t] /\ UserOf[t] # u) => Latest(t)' = Latest(t)
    BY <1>1, <2>1, EmitTells DEF clients
  <2>3. \A v \in User : Truthful(Snapshot(entry'), entry', v)
    BY <1>1, SnapshotIsFrame
  <2>4. FramesTypeOK'
    BY <1>1, <2>2 DEF FramesTypeOK, clients
  <2>5. ASSUME NEW t \in Tab, NEW v \in User \ {UserOf[t]},
               connected'[t], Latest(t)'[v] # Away
        PROVE  /\ entry'[v] # NoEntry
               /\ Latest(t)'[v] \in {entry'[v].focus, NoBlock}
    <3>1. CASE UserOf[t] # u
      <4>1. Latest(t)' = Snapshot(entry')
        BY <2>2, <2>5, <3>1
      <4> QED BY <2>3, <2>5, <4>1 DEF Truthful
    <3>2. CASE UserOf[t] = u
      <4>1. Latest(t)' = Latest(t)
        BY <2>2, <3>2
      <4>2. entry'[v] = entry[v]
        BY <1>1, <2>5, <3>2
      <4> QED BY <2>5, <4>1, <4>2 DEF ShownIsRecorded, Present
    <3> QED BY <3>1, <3>2
  <2> QED BY <2>4, <2>5 DEF ShownIsRecorded, Present
<1>3. CASE Present(entry, u) /\ entry[u].focus = f
  <2>1. UNCHANGED stream
    BY <1>3 DEF Heartbeat
  <2>2. FramesTypeOK'
    BY <1>1, <2>1 DEF FramesTypeOK, clients
  <2>3. \A t \in Tab : Latest(t)' = Latest(t)
    BY <2>1 DEF Latest, clients
  <2>4. \A v \in User : /\ entry'[v] = NoEntry <=> entry[v] = NoEntry
                        /\ entry'[v].focus = entry[v].focus
    BY <1>1, <1>3 DEF Present
  <2> QED BY <2>2, <2>3, <2>4 DEF ShownIsRecorded, Present
<1> QED BY <1>2, <1>3

LEMMA EvictKeeps ==
  ASSUME IInv, NEW gone, Evict(gone), UNCHANGED <<connected, clients>>
  PROVE  IInv'
<1>1. entry' \in [User -> Entry \union {NoEntry}]
  BY NewTables DEF Evict, IInv
<1>2. \A t \in Tab : UserOf[t] # NoUser
  BY TabAssumption, NamesAssumption
<1>3. /\ stream' \in [Tab -> Seq(Frame)]
      /\ \A t \in Tab : connected[t] => Latest(t)' = Snapshot(entry')
  BY <1>1, <1>2, EmitTells DEF Evict, clients, IInv
<1>4. \A v \in User : Truthful(Snapshot(entry'), entry', v)
  BY <1>1, SnapshotIsFrame
<1>5. FramesTypeOK'
  BY <1>1, <1>3 DEF FramesTypeOK, clients, IInv
<1> QED BY <1>3, <1>4, <1>5 DEF IInv, ShownIsRecorded, Truthful, Present
LEMMA InitHolds == PresenceInit => IInv
<1> SUFFICES ASSUME PresenceInit PROVE IInv
  OBVIOUS
<1>1. Nobody \in Frame
  BY DEF Nobody, Frame
<1>2. Closed \in [at : {"closed", "open"}, focus : OptBlock]
  BY DEF Closed, OptBlock
<1> QED BY <1>1, <1>2 DEF PresenceInit, IInv, FramesTypeOK, ShownIsRecorded

LEMMA HandleKeeps ==
  ASSUME IInv, NEW r \in Request, Handle(r)
  PROVE  IInv'
<1>1. CASE r.kind = "heartbeat"
  <2>1. r.user \in User /\ r.focus \in OptBlock
    BY <1>1 DEF Request
  <2>2. Heartbeat(r.user, r.focus) /\ UNCHANGED <<connected, clients>>
    BY <1>1 DEF Handle
  <2> QED BY <2>1, <2>2, HeartbeatKeeps
<1>2. CASE r.kind # "heartbeat"
  <2>1. Leave(r.user) /\ UNCHANGED <<connected, clients>>
    BY <1>2 DEF Handle
  <2>2. CASE Present(entry, r.user)
    BY <2>1, <2>2, EvictKeeps DEF Leave
  <2>3. CASE ~Present(entry, r.user)
    BY <2>1, <2>3 DEF Leave, server, clients, IInv, FramesTypeOK,
                      ShownIsRecorded, Latest, Present
  <2> QED BY <2>2, <2>3
<1> QED BY <1>1, <1>2

\* The clock moves no focus and brings nobody.
LEMMA TimePassesKeeps ==
  ASSUME IInv, TimePasses
  PROVE  IInv'
<1>1. ASSUME NEW u \in User, entry[u] # NoEntry
      PROVE  Older(entry[u]) \in Entry /\ Older(entry[u]).focus = entry[u].focus
  <2>1. entry[u] \in Entry
    BY <1>1 DEF IInv, FramesTypeOK
  <2> QED BY <2>1, TTLAssumption DEF Older, Entry
<1>2. NoEntry \notin Entry
  BY NamesAssumption DEF Entry, OptBlock
<1>3. \A u \in User : entry'[u] = IF entry[u] # NoEntry THEN Older(entry[u]) ELSE NoEntry
  BY DEF TimePasses, Present
<1>4. entry' \in [User -> Entry \union {NoEntry}]
  BY <1>1 DEF TimePasses, Present
<1>5. \A u \in User : /\ entry'[u] = NoEntry <=> entry[u] = NoEntry
                      /\ entry[u] # NoEntry => entry'[u].focus = entry[u].focus
  BY <1>1, <1>2, <1>3
<1>6. FramesTypeOK'
  BY <1>4 DEF TimePasses, streams, clients, IInv, FramesTypeOK
<1>7. \A t \in Tab : Latest(t)' = Latest(t) /\ connected'[t] = connected[t]
  BY DEF TimePasses, streams, clients, Latest
<1> QED BY <1>5, <1>6, <1>7 DEF IInv, ShownIsRecorded, Present

LEMMA RestartKeeps ==
  ASSUME IInv, Restart
  PROVE  IInv'
BY DEF Restart, clients, IInv, FramesTypeOK, ShownIsRecorded

\* A new stream opens with the truth.
LEMMA ConnectKeeps ==
  ASSUME IInv, NEW c \in Tab, Connect(c)
  PROVE  IInv'
<1>1. /\ Snapshot(entry) \in Frame
      /\ \A u \in User : Truthful(Snapshot(entry), entry, u)
  BY SnapshotIsFrame DEF IInv, FramesTypeOK
<1>2. /\ stream' = [stream EXCEPT ![c] = <<Snapshot(entry)>>]
      /\ connected' = [connected EXCEPT ![c] = TRUE]
      /\ UNCHANGED <<entry, tab, view>>
  BY DEF Connect, server, clients
<1>3. <<Snapshot(entry)>> \in Seq(Frame)
  BY <1>1
<1>4. FramesTypeOK'
  BY <1>2, <1>3 DEF IInv, FramesTypeOK
<1>5. Latest(c)' = Snapshot(entry)
  <2>1. stream'[c] = <<Snapshot(entry)>>
    BY <1>2 DEF IInv, FramesTypeOK
  <2> QED BY <2>1 DEF Latest
<1>6. \A t \in Tab \ {c} : Latest(t)' = Latest(t) /\ connected'[t] = connected[t]
  BY <1>2 DEF Latest, IInv, FramesTypeOK
<1> QED BY <1>1, <1>2, <1>4, <1>5, <1>6 DEF IInv, ShownIsRecorded, Truthful, Present

\* Delivering a frame changes nothing about the newest one.
LEMMA DeliverKeeps ==
  ASSUME IInv, NEW c \in Tab, Deliver(c)
  PROVE  IInv'
<1>1. /\ stream[c] \in Seq(Frame) /\ stream[c] # <<>>
      /\ stream' = [stream EXCEPT ![c] = Tail(stream[c])]
      /\ view' = [view EXCEPT ![c] = OthersOf(c, Head(stream[c]))]
      /\ UNCHANGED <<entry, connected, tab>>
  BY DEF Deliver, server, IInv, FramesTypeOK
<1>2. Head(stream[c]) \in Frame /\ Tail(stream[c]) \in Seq(Frame)
  BY <1>1
<1>3. /\ OthersOf(c, Head(stream[c])) \in Frame
      /\ \A u \in User \ {UserOf[c]} : OthersOf(c, Head(stream[c]))[u] = Head(stream[c])[u]
  BY <1>2 DEF OthersOf, Frame
<1>4. FramesTypeOK'
  BY <1>1, <1>2, <1>3 DEF IInv, FramesTypeOK
<1>5. \A t \in Tab \ {c} : Latest(t)' = Latest(t)
  BY <1>1 DEF Latest, IInv, FramesTypeOK
<1>6. ASSUME NEW u \in User \ {UserOf[c]}
      PROVE  Latest(c)'[u] = Latest(c)[u]
  <2>1. stream'[c] = Tail(stream[c]) /\ view'[c] = OthersOf(c, Head(stream[c]))
    BY <1>1 DEF IInv, FramesTypeOK
  <2>2. CASE Tail(stream[c]) = <<>>
    <3>1. Len(stream[c]) = 1 /\ Head(stream[c]) = stream[c][1]
      <4>1. Len(stream[c]) \in Nat /\ Len(stream[c]) # 0
        BY <1>1
      <4>2. Len(Tail(stream[c])) = Len(stream[c]) - 1
        BY <1>1, <4>1
      <4>3. Len(Tail(stream[c])) = Len(<<>>)
        BY <2>2, Zenon
      <4>4. Len(<<>>) = 0
        OBVIOUS
      <4>5. Len(stream[c]) = 1
        BY <4>1, <4>2, <4>3, <4>4
      <4> QED BY <1>1, <4>5
    <3>2. Latest(c)' = OthersOf(c, Head(stream[c]))
      BY <2>1, <2>2 DEF Latest
    <3>3. Latest(c) = Head(stream[c])
      BY <1>1, <3>1 DEF Latest
    <3> QED BY <1>3, <3>2, <3>3
  <2>3. CASE Tail(stream[c]) # <<>>
    <3>1. /\ Len(Tail(stream[c])) = Len(stream[c]) - 1
          /\ Len(stream[c]) \in Nat
          /\ Len(stream[c]) > 1
      BY <1>1, <2>3
    <3>2. Tail(stream[c])[Len(stream[c]) - 1] = stream[c][Len(stream[c])]
      BY <1>1, <3>1
    <3> QED BY <1>1, <2>1, <2>3, <3>1, <3>2 DEF Latest
  <2> QED BY <2>2, <2>3
<1> QED BY <1>1, <1>4, <1>5, <1>6 DEF IInv, ShownIsRecorded, Present

\* A tab without a stream promises nothing.
LEMMA CloseKeeps ==
  ASSUME IInv, NEW c \in Tab,
         connected' = [connected EXCEPT ![c] = FALSE],
         stream' = [stream EXCEPT ![c] = <<>>],
         \A t \in Tab \ {c} : view'[t] = view[t],
         view' \in [Tab -> Frame],
         tab' \in [Tab -> [at : {"closed", "open"}, focus : OptBlock]],
         UNCHANGED entry
  PROVE  IInv'
<1>1. FramesTypeOK'
  <2>1. connected' \in [Tab -> BOOLEAN]
    BY DEF IInv, FramesTypeOK
  <2>2. stream' \in [Tab -> Seq(Frame)]
    <3>1. <<>> \in Seq(Frame)
      OBVIOUS
    <3> QED BY <3>1 DEF IInv, FramesTypeOK
  <2> QED BY <2>1, <2>2 DEF IInv, FramesTypeOK
<1>2. \A t \in Tab \ {c} : Latest(t)' = Latest(t) /\ connected'[t] = connected[t]
  BY DEF Latest, IInv, FramesTypeOK
<1>3. ~connected'[c]
  BY DEF IInv, FramesTypeOK
<1> QED BY <1>1, <1>2, <1>3 DEF IInv, ShownIsRecorded, Present

LEMMA ClientKeeps ==
  ASSUME IInv, NEW c \in Tab,
         \/ StartPresence(c)
         \/ Beat(c)
         \/ \E f \in OptBlock : SetFocusedBlock(c, f)
  PROVE  IInv'
<1>1. /\ UNCHANGED <<entry, connected, stream, view>>
      /\ tab' \in [Tab -> [at : {"closed", "open"}, focus : OptBlock]]
  BY DEF StartPresence, Beat, SetFocusedBlock, server, streams, clients, IInv,
         FramesTypeOK, OptBlock
<1>2. \A t \in Tab : Latest(t)' = Latest(t)
  BY <1>1 DEF Latest
<1> QED BY <1>1, <1>2 DEF IInv, FramesTypeOK, ShownIsRecorded, Present

LEMMA NextKeeps == IInv /\ [PresenceNext]_presenceVars => IInv'
<1> SUFFICES ASSUME IInv, [PresenceNext]_presenceVars PROVE IInv'
  OBVIOUS
<1>1. ASSUME NEW r \in Request, Handle(r) PROVE IInv'
  BY <1>1, HandleKeeps
<1>2. ASSUME NEW r \in Request, Lose(r) PROVE IInv'
  BY <1>2 DEF Lose, server, streams, clients, IInv, FramesTypeOK,
              ShownIsRecorded, Latest, Present
<1>3. CASE Sweep
  BY <1>3, EvictKeeps DEF Sweep
<1>4. CASE TimePasses
  BY <1>4, TimePassesKeeps
<1>5. CASE Restart
  BY <1>5, RestartKeeps
<1>6. ASSUME NEW t \in Tab, Connect(t) PROVE IInv'
  BY <1>6, ConnectKeeps
<1>7. ASSUME NEW t \in Tab, Drop(t) PROVE IInv'
  BY <1>7, CloseKeeps DEF Drop, server, clients, IInv, FramesTypeOK
<1>8. ASSUME NEW t \in Tab, Deliver(t) PROVE IInv'
  BY <1>8, DeliverKeeps
<1>9. ASSUME NEW t \in Tab, StartPresence(t) \/ Beat(t)
                            \/ \E f \in OptBlock : SetFocusedBlock(t, f)
      PROVE  IInv'
  BY <1>9, ClientKeeps
<1>10. ASSUME NEW t \in Tab, CloseTab(t) PROVE IInv'
  <2>1. Nobody \in Frame
    BY DEF Nobody, Frame
  <2>2. Closed \in [at : {"closed", "open"}, focus : OptBlock]
    BY DEF Closed, OptBlock
  <2>3. /\ \A s \in Tab \ {t} : view'[s] = view[s]
        /\ view' \in [Tab -> Frame]
        /\ tab' \in [Tab -> [at : {"closed", "open"}, focus : OptBlock]]
    BY <1>10, <2>1, <2>2 DEF CloseTab, IInv, FramesTypeOK
  <2> QED BY <1>10, <2>3, CloseKeeps DEF CloseTab, server
<1>11. CASE UNCHANGED presenceVars
  BY <1>11 DEF presenceVars, server, streams, clients, IInv, FramesTypeOK,
               ShownIsRecorded, Latest, Present
<1> QED BY <1>1, <1>2, <1>3, <1>4, <1>5, <1>6, <1>7, <1>8, <1>9, <1>10, <1>11
        DEF PresenceNext, StopPresence, Vanish

(* With any number of users and tabs, requests lost and out of order,      *)
(* restarts and sweeps: what a listening tab shows, or is about to show,   *)
(* is on the service's record.                                             *)
THEOREM ShownMatchesRecord == PresenceSpec => []ShownIsRecorded
<1>1. IInv => ShownIsRecorded
  BY DEF IInv
<1> QED BY <1>1, InitHolds, NextKeeps, PTL DEF PresenceSpec

-----------------------------------------------------------------------------
(* The line of those on the page.                                          *)

\* Who is on the page, and the line, change together.
LEMMA LineSteps ==
  ASSUME FramesTypeOK, PresenceNext
  PROVE  \/ \E u \in User : /\ order' = OrderAfter(u)
                            /\ \A v \in User : Present(entry', v) <=> v = u \/ Present(entry, v)
         \/ \E gone : /\ order' = Remaining(gone)
                      /\ \A v \in User : Present(entry', v) <=> v \notin gone /\ Present(entry, v)
         \/ order' = {} /\ \A v \in User : ~Present(entry', v)
         \/ order' = order /\ \A v \in User : Present(entry', v) <=> Present(entry, v)
<1> DEFINE Same == order' = order /\ \A v \in User : Present(entry', v) <=> Present(entry, v)
           Goes == \E gone : /\ order' = Remaining(gone)
                             /\ \A v \in User : Present(entry', v) <=> v \notin gone /\ Present(entry, v)
<1>1. ASSUME NEW u \in User, NEW f \in OptBlock, Heartbeat(u, f)
      PROVE  /\ order' = OrderAfter(u)
             /\ \A v \in User : Present(entry', v) <=> v = u \/ Present(entry, v)
  BY <1>1, NewTables DEF Heartbeat, Present
<1>2. ASSUME NEW gone, Evict(gone) PROVE Goes
  BY <1>2 DEF Evict, EntryWithout, Present
<1>3. CASE \E r \in Request : Handle(r)
  <2>1. PICK r \in Request : Handle(r)
    BY <1>3
  <2>2. CASE r.kind = "heartbeat"
    <3>1. r.user \in User /\ r.focus \in OptBlock /\ Heartbeat(r.user, r.focus)
      BY <2>1, <2>2 DEF Handle, Request
    <3> QED
      BY <3>1, <1>1
  <2>3. CASE r.kind # "heartbeat"
    BY <2>1, <2>3, <1>2 DEF Handle, Leave, server
  <2> QED
    BY <2>2, <2>3
<1>4. CASE Sweep
  BY <1>4, <1>2 DEF Sweep
<1>5. CASE TimePasses
  <2>1. NoEntry \notin Entry
    BY NamesAssumption DEF Entry, OptBlock
  <2>2. ASSUME NEW u \in User, Present(entry, u) PROVE Older(entry[u]) \in Entry
    BY <2>2, TTLAssumption DEF Older, Entry, FramesTypeOK, Present
  <2> QED
    BY <1>5, <2>1, <2>2 DEF TimePasses, Present
<1>6. CASE Restart
  BY <1>6 DEF Restart, Present
<1>7. ASSUME UNCHANGED server PROVE Same
  BY <1>7 DEF server
<1>8. CASE \/ \E r \in Request : Lose(r)
           \/ \E t \in Tab : Connect(t) \/ Drop(t) \/ Deliver(t) \/ StartPresence(t) \/ Beat(t)
                             \/ StopPresence(t) \/ Vanish(t)
           \/ \E t \in Tab, f \in OptBlock : SetFocusedBlock(t, f)
  BY <1>7, <1>8 DEF Lose, Connect, Drop, Deliver, StartPresence, Beat, SetFocusedBlock,
                    StopPresence, Vanish, CloseTab
<1> QED
  BY <1>3, <1>4, <1>5, <1>6, <1>8 DEF PresenceNext

LEMMA OrderNext == FramesTypeOK /\ OrderTypeOK /\ [PresenceNext]_presenceVars => OrderTypeOK'
<1> SUFFICES ASSUME FramesTypeOK, OrderTypeOK, [PresenceNext]_presenceVars PROVE OrderTypeOK'
  OBVIOUS
<1>1. ASSUME NEW u \in User, order' = OrderAfter(u),
             \A v \in User : Present(entry', v) <=> v = u \/ Present(entry, v)
      PROVE  OrderTypeOK'
  BY <1>1 DEF OrderTypeOK, OrderAfter, LastInLine
<1>2. ASSUME NEW gone, order' = Remaining(gone),
             \A v \in User : Present(entry', v) <=> v \notin gone /\ Present(entry, v)
      PROVE  OrderTypeOK'
  BY <1>2 DEF OrderTypeOK, Remaining
<1>3. CASE order' = {} /\ \A v \in User : ~Present(entry', v)
  BY <1>3 DEF OrderTypeOK
<1>4. CASE order' = order /\ \A v \in User : Present(entry', v) <=> Present(entry, v)
  BY <1>4 DEF OrderTypeOK
<1>5. CASE UNCHANGED presenceVars
  BY <1>5, <1>4 DEF presenceVars, server
<1> QED
  BY <1>1, <1>2, <1>3, <1>4, <1>5, LineSteps

LEMMA OrderInit == PresenceInit => OrderTypeOK
  BY DEF PresenceInit, OrderTypeOK, Present

(* However heartbeats, leaves and sweeps are ordered, a lock passes to     *)
(* somebody else only when its holder gave it up or let it lapse, or to    *)
(* somebody who came earlier (lockHolder goes by the Map's order).         *)
THEOREM LocksStayPut == PresenceSpec => LockStaysPut
<1> DEFINE Stays == \A b \in Block, u, v \in User :
             u # v /\ HoldsLock(u, b) /\ HoldsLock(v, b)'
               => ~Holds(u, b)' \/ <<v, u>> \in order
<1>1. FramesTypeOK /\ OrderTypeOK /\ [PresenceNext]_presenceVars => [Stays]_presenceVars
  <2> SUFFICES ASSUME FramesTypeOK, OrderTypeOK, PresenceNext,
                      NEW b \in Block, NEW u \in User, NEW v \in User,
                      u # v, HoldsLock(u, b), HoldsLock(v, b)', Holds(u, b)'
               PROVE  <<v, u>> \in order
    OBVIOUS
  <2>1. Present(entry, u) /\ <<v, u>> \in order'
    BY DEF HoldsLock, Holds
  <2>2. ASSUME NEW w \in User, order' = OrderAfter(w) PROVE <<v, u>> \in order
    BY <2>1, <2>2 DEF OrderAfter, LastInLine
  <2>3. ASSUME NEW gone, order' = Remaining(gone) PROVE <<v, u>> \in order
    BY <2>1, <2>3 DEF Remaining
  <2> QED
    BY <2>1, <2>2, <2>3, LineSteps
<1>2. IInv => FramesTypeOK
  BY DEF IInv
<1> QED
  BY <1>1, <1>2, InitHolds, NextKeeps, OrderInit, OrderNext, PTL DEF PresenceSpec, LockStaysPut

\* What is on the wire.
OnTheWire == BagToSet(inflight) \subseteq Request

LEMMA WireNext == OnTheWire /\ FramesTypeOK /\ [PresenceNext]_presenceVars => OnTheWire'
<1> SUFFICES ASSUME OnTheWire, FramesTypeOK, [PresenceNext]_presenceVars
             PROVE  BagToSet(inflight)' \subseteq Request
  BY DEF OnTheWire
<1> USE DEF OnTheWire
<1>1. ASSUME NEW r \in Request, Send(r) PROVE BagToSet(inflight)' \subseteq Request
  BY <1>1 DEF Send, BagToSet, (+), SetToBag
<1>2. ASSUME NEW r, inflight' = inflight (-) SetToBag({r}) PROVE BagToSet(inflight)' \subseteq Request
  BY <1>2 DEF BagToSet, (-), SetToBag
<1>3. ASSUME NEW r \in Request, Handle(r) \/ Lose(r) PROVE BagToSet(inflight)' \subseteq Request
  BY <1>2, <1>3 DEF Handle, Lose
<1>4. ASSUME NEW t \in Tab, StartPresence(t) \/ Beat(t) \/ StopPresence(t)
                            \/ \E f \in OptBlock : SetFocusedBlock(t, f)
      PROVE  BagToSet(inflight)' \subseteq Request
  <2>1. UserOf[t] \in User /\ tab[t].focus \in OptBlock
    BY TabAssumption DEF FramesTypeOK
  <2>2. /\ \A f \in OptBlock : HeartbeatOf(t, f) \in Request
        /\ [kind |-> "leave", user |-> UserOf[t]] \in Request
    BY <2>1 DEF HeartbeatOf, Request
  <2>3. NoBlock \in OptBlock
    BY DEF OptBlock
  <2> QED
    BY <1>1, <1>4, <2>1, <2>2, <2>3 DEF StartPresence, Beat, StopPresence, SetFocusedBlock
<1>5. ASSUME UNCHANGED inflight PROVE BagToSet(inflight)' \subseteq Request
  BY <1>5
<1>6. CASE \/ Sweep \/ TimePasses \/ Restart
           \/ \E t \in Tab : Connect(t) \/ Drop(t) \/ Deliver(t) \/ Vanish(t)
           \/ UNCHANGED presenceVars
  BY <1>5, <1>6 DEF Sweep, TimePasses, Restart, Connect, Drop, Deliver, Vanish, presenceVars
<1> QED
  BY <1>3, <1>4, <1>6 DEF PresenceNext

(* Every variable keeps its type; the line in which users came to the page *)
(* is a total order on those who are there.                                *)
THEOREM PresenceTypeCorrect == PresenceSpec => []PresenceTypeOK
<1>1. PresenceInit => OnTheWire
  BY DEF PresenceInit, OnTheWire, BagToSet, EmptyBag, SetToBag
<1>2. IInv => FramesTypeOK
  BY DEF IInv
<1>3. PresenceTypeOK <=> FramesTypeOK /\ OrderTypeOK /\ OnTheWire
  BY DEF PresenceTypeOK, OnTheWire
<1> QED
  BY <1>1, <1>2, <1>3, InitHolds, NextKeeps, OrderInit, OrderNext, WireNext, PTL DEF PresenceSpec
=============================================================================
