------------------------- MODULE EditorSaved_proofs -------------------------
(***************************************************************************)
(* What the screen shows in the end is what the server has, and what it    *)
(* shows meanwhile reads as it did.                                        *)
(*                                                                         *)
(* Where no request met another that it does not commute with, and no      *)
(* Mod-Enter divided a block, every block's text is in the table, or on    *)
(* its way there (TextInv); and the store has the blocks at the indexes    *)
(* the table will have once it has done what is under way (OrderInv).      *)
(* Both rest on EditorInv and CalmInv, the invariants of Editor_proofs.    *)
(*                                                                         *)
(* While no request was refused, no listing went astray and no Mod-Enter   *)
(* divided a block, the editors show the store (LegibleInv), which has     *)
(* every block once, whatever Mod-Enter left in an editor (UniqueInv): a   *)
(* split, an insertion or a merge then moves text between neighbours.      *)
(*                                                                         *)
(* The undo stack, unwound, leads back to the page as it was loaded.  Its  *)
(* entries and those that requests under way will put there account for    *)
(* every block, and the first blocks stand as they did unless a move among *)
(* the entries knows how they stood (LeadsInv).                            *)
(***************************************************************************)
EXTENDS Editor_proofs, WellFoundedInduction

-----------------------------------------------------------------------------
(* What is on the screen is told to the server.                            *)

\* The editors show the store.
Mirrors(s, sh) == \A i \in DOMAIN s : s[i].html = sh[s[i].id]

\* Every block's text is the server's or will be, or its save is pending.
Told(f, h, t, ids, sh, sv, tm) ==
  \A b \in ids : Agreed(f, h, t, b, sh[b]) \/ (b \in tm /\ sh[b] # sv[b])

\* What an undo brings back is what its entry has.
Restores(F, t, row) ==
  \A q \in F : /\ q.kind = "recreate" => q.row.html = row.html
               /\ Brings(q) /\ (q.kind = "relist" \/ q.state = "done")
                    => row.id \in DOMAIN t /\ t[row.id].html = row.html

Text ==
  /\ saved = [b \in Block |-> saved[b]]
  /\ Waits(ToSet(flight), ToSet(held))
  /\ Mirrors(store, shown)
  /\ Told(flight, held, table, Ids(store), shown, saved, timers)
  /\ Restores(ToSet(flight), table, applying.inverse.row)

Clean == ~misread /\ ~refused /\ ~overtaken /\ ~returned /\ ~uncut
TextInv == Clean => Text

Orderly ==
  /\ Undisturbed(UnderWay, DOMAIN table, made, Back, Ids(store), timers)
  /\ InTurn(ToSet(flight), ToSet(held), DOMAIN table, Ids(store))

LEMMA CleanIsOrderly ==
  ASSUME CalmInv, ~misread, ~refused
  PROVE  Orderly
  BY DEF CalmInv, Orderly

LEMMA TextInit == EditorInit => TextInv
<1> SUFFICES ASSUME EditorInit PROVE Text
  BY DEF TextInv
<1>1. flight = <<>> /\ held = <<>> /\ opening \in Nat /\ opening \in 1..MaxOpening
  BY OpeningAssumption DEF EditorInit
<1>2. ToSet(flight) = {} /\ ToSet(held) = {} /\ \A b : Silent(flight, b) /\ Silent(held, b)
  BY <1>1 DEF ToSet, Silent
<1>3. 1..opening \subseteq Block
  BY <1>1, OpeningAssumption
<1>4. /\ DOMAIN store = 1..opening /\ DOMAIN table = 1..opening
      /\ \A b \in 1..opening : store[b].id = b /\ store[b].html = Para(<<b>>) /\ table[b].html = Para(<<b>>)
      /\ \A b \in 1..opening : shown[b] = Para(<<b>>)
  BY <1>3 DEF EditorInit, OpeningRow, StoreRow
<1>5. saved = [b \in Block |-> saved[b]]
  BY DEF EditorInit
<1>6. Mirrors(store, shown)
  <2> SUFFICES ASSUME NEW i \in 1..opening
               PROVE  store[i].html = shown[store[i].id]
    BY <1>4 DEF Mirrors
  <2>1. store[i].id = i /\ store[i].html = Para(<<i>>) /\ shown[i] = Para(<<i>>)
    BY <1>4
  <2> QED
    BY <2>1
<1>7. Ids(store) = 1..opening
  BY <1>4 DEF Ids
<1>8. Told(flight, held, table, Ids(store), shown, saved, timers)
  BY <1>2, <1>4, <1>7 DEF Told, Agreed, Born
<1> QED
  BY <1>2, <1>5, <1>6, <1>8 DEF Text, Waits, Restores

LEMMA RowOf ==
  ASSUME NEW s, NEW b \in Ids(s)
  PROVE  \E i \in DOMAIN s : s[i].id = b /\ RowIn(s, b) = s[i]
<1>1. \E i \in DOMAIN s : s[i].id = b
  BY DEF Ids
<1> QED
  BY <1>1 DEF RowIn

\* The editors show the rows that the store is given.
LEMMA ShowsRows ==
  ASSUME NEW s, NEW display, NEW known, NEW focus, ShowFrom(s, display, known, focus),
         Ids(s) \subseteq Block,
         \A i \in DOMAIN s : s[i].id \in Ids(store) => s[i].html = display[s[i].id],
         \A i, j \in DOMAIN s : s[i].id = s[j].id => s[i].html = s[j].html
  PROVE  /\ store' = s /\ Mirrors(s, shown')
         /\ saved' = [b \in Block |-> saved'[b]]
         /\ \A b \in Ids(s) \intersect Ids(store) : shown'[b] = display[b] /\ saved'[b] = known[b]
<1> DEFINE Mounts(b) == b \in Ids(s) \ Ids(store)
           Syncs(b)  == /\ b \in Ids(s) \intersect Ids(store) /\ b # focus
                        /\ RowIn(s, b) # RowIn(store, b)
<1>1. /\ store' = s
      /\ shown' = [b \in Block |-> IF Mounts(b) \/ Syncs(b) THEN RowIn(s, b).html ELSE display[b]]
      /\ saved' = [b \in Block |-> IF Mounts(b) THEN RowIn(s, b).html ELSE known[b]]
  BY DEF ShowFrom
<1>2. \A b \in Block : Mounts(b) <=> b \in Ids(s) /\ b \notin Ids(store)
  OBVIOUS
<1> HIDE DEF Mounts, Syncs
<1>3. ASSUME NEW i \in DOMAIN s
      PROVE  s[i].id \in Ids(s) /\ s[i].html = RowIn(s, s[i].id).html
  <2>1. s[i].id \in Ids(s)
    BY DEF Ids
  <2> QED
    BY <2>1, RowOf
<1>4. ASSUME NEW i \in DOMAIN s PROVE s[i].html = shown'[s[i].id]
  <2>1. s[i].id \in Block /\ s[i].html = RowIn(s, s[i].id).html
    BY <1>3
  <2>2. CASE Mounts(s[i].id)
    BY <1>1, <2>1, <2>2
  <2>3. CASE ~Mounts(s[i].id)
    <3>1. s[i].html = display[s[i].id]
      BY <1>2, <1>3, <2>1, <2>3
    <3> QED
      BY <1>1, <2>1, <3>1
  <2> QED
    BY <2>2, <2>3
<1>5. ASSUME NEW b \in Ids(s) \intersect Ids(store)
      PROVE  shown'[b] = display[b] /\ saved'[b] = known[b]
  <2>1. b \in Block /\ ~Mounts(b)
    BY <1>2
  <2>2. PICK i \in DOMAIN s : s[i].id = b /\ RowIn(s, b) = s[i]
    BY RowOf
  <2>3. RowIn(s, b).html = display[b]
    BY <2>2
  <2> QED
    BY <1>1, <2>1, <2>3
<1>6. saved' = [b \in Block |-> saved'[b]]
  BY <1>1
<1> QED
  BY <1>1, <1>4, <1>5, <1>6 DEF Mirrors

\* What a gesture that sends R may do to a block: its new text is sent, or is
\* as it was, or is that of a creation sent, or its save is pending.
Tells(R, b, html, was, new) ==
  \/ Ends(R, b, html)
  \/ Silent(R, b) /\ was
  \/ Silent(R, b) /\ b = new /\ \E p \in DOMAIN R : Creating(R[p], b) /\ R[p].row.html = html

\* Nobody has written to an id not chosen yet.
LEMMA NewIsSilent ==
  ASSUME EditorInv, Orderly
  PROVE  Silent(flight, made + 1) /\ Silent(held, made + 1)
<1>1. made \in Nat
  BY DEF EditorInv, IsTable
<1>2. \A p \in DOMAIN UnderWay : Writes(UnderWay[p]) => UnderWay[p].row.id \in 1..made
  BY DEF Orderly, Undisturbed
<1>3. ASSUME NEW i \in DOMAIN flight PROVE ~Updating(flight[i], made + 1)
  <2>1. <<1, i>> \in DOMAIN UnderWay /\ UnderWay[<<1, i>>] = flight[i]
    BY DEF UnderWay, Beside
  <2> QED
    BY <1>1, <1>2, <2>1 DEF Updating, Writes
<1>4. ASSUME NEW i \in DOMAIN held PROVE ~Updating(held[i], made + 1)
  <2>1. <<2, i>> \in DOMAIN UnderWay /\ UnderWay[<<2, i>>] = held[i]
    BY DEF UnderWay, Beside
  <2> QED
    BY <1>1, <1>2, <2>1 DEF Updating, Writes
<1> QED
  BY <1>3, <1>4 DEF Silent

\* Where the requests of a gesture go.
LEMMA SentWhere ==
  ASSUME NEW R, Send(R)
  PROVE  Posts(flight, held, R, flight', held')
<1> DEFINE W == {p \in DOMAIN R : AsksCreation(ToSet(flight), R[p])}
<1>1. W = {p \in DOMAIN R : AfterCreate(R[p])}
  BY DEF AfterCreate, InFlightCreate, Writes, ToSet, AsksCreation
<1>2. W \subseteq DOMAIN R
  OBVIOUS
<1> HIDE DEF W
<1>3. flight' = flight \o Picked(R, DOMAIN R \ W) /\ held' = held \o Picked(R, W)
  BY <1>1 DEF Send
<1> QED
  BY <1>3 DEF W, Posts

LEMMA SentSet ==
  ASSUME EditorInv, NEW R, IsSeq(R), Send(R)
  PROVE  /\ \A q \in ToSet(flight') : q \in ToSet(flight) \/ \E p \in DOMAIN R : q = R[p]
         /\ \A q \in ToSet(flight) : q \in ToSet(flight')
<1>1. PICK W : W = {p \in DOMAIN R : AsksCreation(ToSet(flight), R[p])}
  OBVIOUS
<1>2. PICK O : O = DOMAIN R \ W
  OBVIOUS
<1>3. flight' = flight \o Picked(R, O)
  BY <1>1, <1>2, SentWhere DEF Posts
<1>4. O \subseteq DOMAIN R /\ IsSeq(flight)
  BY <1>2 DEF EditorInv
<1>5. IsSeq(Picked(R, O)) /\ ToSet(Picked(R, O)) = {R[p] : p \in O}
  BY <1>4, PickedIs, SetOfPicked, Zenon
<1>6. ToSet(flight') = ToSet(flight) \union {R[p] : p \in O}
  BY <1>3, <1>4, <1>5, SetOfCat
<1> QED
  BY <1>4, <1>6

LEMMA NothingBrought ==
  ASSUME EditorInv, applying = Idle
  PROVE  \A q \in ToSet(flight) : ~Brings(q) /\ q.kind # "recreate"
<1>1. OneUndo(UnderWay, Idle)
  BY DEF EditorInv, Sound
<1>2. \A p \in DOMAIN UnderWay : ~Brings(UnderWay[p]) /\ UnderWay[p].kind # "recreate"
  BY <1>1, NoUndo, Zenon
<1>3. ASSUME NEW i \in DOMAIN flight PROVE ~Brings(flight[i]) /\ flight[i].kind # "recreate"
  <2>1. <<1, i>> \in DOMAIN UnderWay /\ UnderWay[<<1, i>>] = flight[i]
    BY DEF UnderWay, Beside
  <2> QED
    BY <1>2, <2>1
<1> QED
  BY <1>3 DEF ToSet

SameAsBefore(b) ==
  /\ b \in Ids(store) /\ shown'[b] = shown[b] /\ saved'[b] = saved[b]
  /\ b \in timers => b \in timers'
SpeaksOut(R) ==
  \A b \in Ids(store') : \/ Tells(R, b, shown'[b], SameAsBefore(b), made + 1)
                         \/ b \in timers' /\ shown'[b] # saved'[b]
SendsPlainly(R) ==
  \A p \in DOMAIN R : /\ R[p].state = "sent" /\ R[p].kind # "relist"
                      /\ R[p].kind = "recreate" => R[p].row.html = applying'.inverse.row.html

LEMMA GestureTells ==
  ASSUME EditorInv, Orderly, Text, NEW R, IsSeq(R), Send(R), UNCHANGED table,
         saved' = [b \in Block |-> saved'[b]], Mirrors(store', shown'),
         SpeaksOut(R), SendsPlainly(R),
         applying' = applying \/ applying = Idle
  PROVE  Text'
<1>1. PICK f2 : f2 = flight'
  OBVIOUS
<1>2. PICK h2 : h2 = held'
  OBVIOUS
<1>3. Posts(flight, held, R, f2, h2)
  BY <1>1, <1>2, SentWhere
<1>4. IsSeq(flight) /\ IsSeq(held) /\ Waits(ToSet(flight), ToSet(held))
  BY DEF EditorInv, Text
<1>5. PostsWell(flight, held, R, f2, h2)
  BY <1>3, <1>4, PostedAgrees
<1>6. /\ Waits(ToSet(f2), ToSet(h2))
      /\ \A t, b, html : Ends(R, b, html) => Agreed(f2, h2, t, b, html)
      /\ \A t, b, html : Silent(R, b) /\ Agreed(flight, held, t, b, html) => Agreed(f2, h2, t, b, html)
      /\ \A t, b : \A p \in DOMAIN R :
           Creating(R[p], b) /\ Silent(R, b) /\ Silent(flight, b) /\ Silent(held, b)
             => Agreed(f2, h2, t, b, R[p].row.html)
  BY <1>5 DEF PostsWell
<1>7. ASSUME NEW b \in Ids(store')
      PROVE  Agreed(f2, h2, table, b, shown'[b]) \/ (b \in timers' /\ shown'[b] # saved'[b])
  <2>1. CASE Ends(R, b, shown'[b])
    BY <1>6, <2>1
  <2>2. CASE /\ Silent(R, b) /\ b \in Ids(store) /\ shown'[b] = shown[b] /\ saved'[b] = saved[b]
             /\ b \in timers => b \in timers'
    BY <1>6, <2>2 DEF Text, Told
  <2>3. CASE Silent(R, b) /\ b = made + 1 /\ \E p \in DOMAIN R : Creating(R[p], b) /\ R[p].row.html = shown'[b]
    <3>1. Silent(flight, b) /\ Silent(held, b)
      BY <2>3, NewIsSilent
    <3>2. PICK p \in DOMAIN R : Creating(R[p], b) /\ R[p].row.html = shown'[b]
      BY <2>3
    <3>3. Agreed(f2, h2, table, b, R[p].row.html)
      BY <1>6, <2>3, <3>1, <3>2
    <3> QED
      BY <3>2, <3>3
  <2> QED
    BY <2>1, <2>2, <2>3 DEF Tells, SpeaksOut, SameAsBefore
<1>8. Told(flight', held', table', Ids(store'), shown', saved', timers')
  BY <1>1, <1>2, <1>7 DEF Told
<1>9. Restores(ToSet(flight'), table', applying'.inverse.row)
  <2>1. ASSUME NEW q \in ToSet(flight')
        PROVE  /\ q.kind = "recreate" => q.row.html = applying'.inverse.row.html
               /\ Brings(q) /\ (q.kind = "relist" \/ q.state = "done")
                    => /\ applying'.inverse.row.id \in DOMAIN table
                       /\ table[applying'.inverse.row.id].html = applying'.inverse.row.html
    <3>1. CASE q \in ToSet(flight)
      <4>1. CASE applying' = applying
        BY <3>1, <4>1 DEF Text, Restores
      <4>2. CASE applying = Idle
        BY <3>1, <4>2, NothingBrought
      <4> QED
        BY <4>1, <4>2
    <3>2. CASE \E p \in DOMAIN R : q = R[p]
      BY <3>2 DEF Brings, SendsPlainly
    <3> QED
      BY <2>1, <3>1, <3>2, SentSet
  <2> QED
    BY <2>1 DEF Restores
<1> QED
  BY <1>1, <1>2, <1>6, <1>8, <1>9 DEF Text

-----------------------------------------------------------------------------
(* The rows that the store's operations leave.                             *)

Up(x, k) == IF x >= k THEN x + 1 ELSE x

\* Every row in its place, one with other contents.
PutsRows(u, s, b, html) ==
  /\ DOMAIN u = DOMAIN s
  /\ \A i \in DOMAIN s : /\ u[i].id = s[i].id /\ u[i].index = s[i].index
                         /\ u[i].html = IF s[i].id = b THEN html ELSE s[i].html

LEMMA PutRows ==
  ASSUME NEW s, IsRows(s), NEW b, NEW html, NEW type
  PROVE  PutsRows(Put(s, b, html, type), s, b, html)
<1> DEFINE u == Put(s, b, html, type)
           written(i) == [s[i] EXCEPT !.html = html, !.type = type]
<1>1. DOMAIN u = DOMAIN s /\ \A i \in DOMAIN s : u[i] = IF s[i].id = b THEN written(i) ELSE s[i]
  BY DEF Put
<1>2. ASSUME NEW i \in DOMAIN s
      PROVE  Overwrites(written(i), s[i]) /\ written(i).html = html
  <2>1. IsRow(s[i])
    BY DEF IsRows
  <2> QED
    BY <2>1, RowWritten, Zenon
<1> HIDE DEF u, written
<1>3. PutsRows(u, s, b, html)
  BY <1>1, <1>2 DEF PutsRows, Overwrites
<1> QED
  BY <1>3 DEF u

\* The rows of other blocks, in their order.
Drops(u, s, b, g) ==
  /\ \A k \in DOMAIN u : g[k] \in DOMAIN s /\ u[k] = s[g[k]] /\ u[k].id # b
  /\ \A k, l \in DOMAIN u : k < l => g[k] < g[l]

LEMMA DropRows ==
  ASSUME NEW s, IsRows(s), NEW b
  PROVE  \E g : Drops(Drop(s, b), s, b, g)
<1> DEFINE I == {i \in DOMAIN s : s[i].id # b}
           u == Drop(s, b)
<1>1. u = Picked(s, I)
  BY DEF Drop
<1>2. I \subseteq DOMAIN s /\ \A i \in I : s[i].id # b
  OBVIOUS
<1> HIDE DEF I, u
<1>3. PICK g : Picks(u, s, I, g) /\ Rising(g, u)
  BY <1>1, <1>2, PickedIs DEF IsRows
<1>4. Drops(u, s, b, g)
  BY <1>2, <1>3 DEF Drops, Picks, Rising
<1> QED
  BY <1>4 DEF u

\* Room at an index, and a new row there, last in the array.
Inserts(u, s, row) ==
  /\ Len(s) \in Nat /\ DOMAIN s = 1..Len(s) /\ DOMAIN u = 1..Len(s) + 1
  /\ \A i \in 1..Len(s) : /\ u[i].id = s[i].id /\ u[i].html = s[i].html
                          /\ u[i].index = Up(s[i].index, row.index)
  /\ u[Len(s) + 1] = row

LEMMA InsertRows ==
  ASSUME NEW s, IsRows(s), NEW row, IsRow(row)
  PROVE  Inserts(Append(Opened(s, row.index), row), s, row)
<1> DEFINE index == row.index
           o == Opened(s, index)
           u == Append(o, row)
           moved(i) == [s[i] EXCEPT !.index = s[i].index + 1]
<1>1. /\ DOMAIN o = DOMAIN s /\ o = [i \in DOMAIN s |-> o[i]]
      /\ \A i \in DOMAIN s : o[i] = IF s[i].index >= index THEN moved(i) ELSE s[i]
  BY DEF Opened, Shift
<1>2. Len(s) \in Nat /\ DOMAIN s = 1..Len(s)
  BY IsSeqDomain DEF IsRows
<1>4. ASSUME NEW i \in DOMAIN s
      PROVE  moved(i).id = s[i].id /\ moved(i).html = s[i].html /\ moved(i).index = s[i].index + 1
  <2>1. IsRow(s[i])
    BY DEF IsRows
  <2>2. moved(i) = [id |-> s[i].id, html |-> s[i].html, type |-> s[i].type, index |-> s[i].index + 1]
    BY <2>1 DEF IsRow
  <2> QED
    BY <2>2
<1> HIDE DEF o, moved
<1>5. IsSeq(o) /\ Len(o) = Len(s)
  BY <1>1, <1>2, TableIsSeq
<1>6. /\ IsSeq(u) /\ Len(u) = Len(s) + 1 /\ u[Len(s) + 1] = row
      /\ \A i \in 1..Len(s) : u[i] = o[i]
  BY <1>5, AppendIs
<1>7. DOMAIN u = 1..Len(s) + 1
  BY <1>6, IsSeqDomain
<1> HIDE DEF u, index
<1>8. \A i \in 1..Len(s) : /\ u[i].id = s[i].id /\ u[i].html = s[i].html
                           /\ u[i].index = Up(s[i].index, index)
  BY <1>1, <1>2, <1>4, <1>6 DEF Up
<1> QED
  BY <1>2, <1>6, <1>7, <1>8 DEF Inserts, u, o, index

-----------------------------------------------------------------------------
(* The gestures tell the server what they show.                            *)

LEMMA IdsAreBlocks ==
  ASSUME CalmInv, Orderly
  PROVE  Ids(store) \subseteq Block
  BY DEF CalmInv, Orderly, Undisturbed

LEMMA StaysTold ==
  ASSUME Text, UNCHANGED <<table, flight, held, applying>>,
         saved' = [b \in Block |-> saved'[b]], Mirrors(store', shown'),
         \A b \in Ids(store') :
           \/ Agreed(flight, held, table, b, shown'[b])
           \/ b \in timers' /\ shown'[b] # saved'[b]
  PROVE  Text'
<1>1. Waits(ToSet(flight'), ToSet(held')) /\ Restores(ToSet(flight'), table', applying'.inverse.row)
  BY DEF Text
<1>2. Told(flight', held', table', Ids(store'), shown', saved', timers')
  BY DEF Told
<1> QED
  BY <1>1, <1>2 DEF Text

\* One editor shows something else.
Redraws(sh, b, html) == \A c \in Ids(store) : sh[c] = IF c = b THEN html ELSE shown[c]

LEMMA PutMirrors ==
  ASSUME IsRows(store), NEW b, NEW html, NEW type, NEW sh,
         Redraws(sh, b, html), Mirrors(store, shown)
  PROVE  Mirrors(Put(store, b, html, type), sh)
<1> DEFINE u == Put(store, b, html, type)
<1>1. PutsRows(u, store, b, html)
  BY PutRows
<1>2. \A i \in DOMAIN store : store[i].id \in Ids(store)
  BY DEF Ids
<1> HIDE DEF u
<1>3. Mirrors(u, sh)
  BY <1>1, <1>2 DEF PutsRows, Mirrors, Redraws
<1> QED
  BY <1>3 DEF u

LEMMA EditTells ==
  ASSUME EditorInv, CalmInv, Orderly, Text, NEW b \in Ids(store), NEW html, Edit(b, html), ~returned'
  PROVE  Text'
<1>1. /\ UNCHANGED <<table, flight, held, applying, saved>> /\ html # saved[b]
      /\ shown' = [shown EXCEPT ![b] = html] /\ timers' = timers \union {b}
      /\ store' = Put(store, b, html, TypeOf(html))
  BY DEF Edit, history, SetLocalContent
<1>2. IsRows(store) /\ Ids(store') = Ids(store)
  BY <1>1, PutIs DEF EditorInv
<1>3. PICK sh : sh = shown'
  OBVIOUS
<1>4. Redraws(sh, b, html)
  <2>1. Ids(store) \subseteq Block /\ DOMAIN shown = Block
    BY IdsAreBlocks DEF CalmInv
  <2> QED
    BY <1>1, <1>3, <2>1 DEF Redraws
<1>7. Mirrors(store', shown')
  <2>1. Mirrors(Put(store, b, html, TypeOf(html)), sh)
    BY <1>2, <1>4, PutMirrors DEF Text
  <2> QED
    BY <1>1, <1>3, <2>1
<1>5. saved' = [c \in Block |-> saved'[c]]
  BY <1>1 DEF Text
<1>6. ASSUME NEW c \in Ids(store')
      PROVE  Agreed(flight, held, table, c, shown'[c]) \/ (c \in timers' /\ shown'[c] # saved'[c])
  BY <1>1, <1>2, <1>3, <1>4, <1>6 DEF Text, Told, Redraws
<1> QED
  BY <1>1, <1>5, <1>6, <1>7, StaysTold

LEMMA OneIs ==
  ASSUME NEW r
  PROVE  IsSeq(<<r>>) /\ DOMAIN <<r>> = {1} /\ <<r>>[1] = r
  BY DEF IsSeq

LEMMA TwoAre ==
  ASSUME NEW q, NEW r
  PROVE  IsSeq(<<q, r>>) /\ DOMAIN <<q, r>> = {1, 2} /\ <<q, r>>[1] = q /\ <<q, r>>[2] = r
  BY DEF IsSeq

\* A gesture that sends the new text of a block.
LEMMA UpdateTells ==
  ASSUME EditorInv, CalmInv, Orderly, Text, NEW b, NEW html, NEW type, NEW column,
         Send(<<Update(b, html, type)>>), store' = Put(store, b, html, column),
         UNCHANGED <<table, applying>>,
         saved' = [c \in Block |-> saved'[c]],
         \A c \in Ids(store) : shown'[c] = IF c = b THEN html ELSE shown[c],
         \A c \in Ids(store) : c # b => SameAsBefore(c)
  PROVE  Text'
<1> DEFINE r == Update(b, html, type)
           R == <<r>>
<1>1. r.kind = "update" /\ r.state = "sent" /\ r.row.id = b /\ r.row.html = html
  BY UpdateIs DEF EditorInv
<1>2. IsSeq(R) /\ DOMAIN R = {1} /\ R[1] = r
  BY OneIs
<1>3. /\ Ends(R, b, html)
      /\ \A c : c # b => Silent(R, c)
  <2>1. Updating(r, b) /\ \A c : c # b => ~Updating(r, c)
    BY <1>1 DEF Updating
  <2> HIDE DEF r
  <2> QED
    BY <1>1, <2>1, OneEnds
<1>4. Send(R)
  OBVIOUS
<1> HIDE DEF R, r
<1>5. IsRows(store) /\ Ids(store') = Ids(store)
  BY PutIs DEF EditorInv
<1>6. SpeaksOut(R)
  BY <1>3, <1>5 DEF SpeaksOut, Tells
<1>7. SendsPlainly(R)
  BY <1>1, <1>2 DEF SendsPlainly
<1>8. Mirrors(store', shown')
  <2>1. PICK sh : sh = shown'
    OBVIOUS
  <2>2. Redraws(sh, b, html)
    BY <2>1 DEF Redraws
  <2>3. Mirrors(Put(store, b, html, column), sh)
    BY <1>5, <2>2, PutMirrors DEF Text
  <2> QED
    BY <2>1, <2>3
<1> QED
  BY <1>2, <1>4, <1>6, <1>7, <1>8, GestureTells

LEMMA TimerTells ==
  ASSUME EditorInv, CalmInv, Orderly, Text, NEW b, TimerFires(b)
  PROVE  Text'
<1>1. /\ UNCHANGED <<table, applying, shown>> /\ b \in timers /\ timers' = timers \ {b}
  BY DEF TimerFires, history
<1>2. CASE SaveNeeded(b)
  <2>1. /\ Send(<<Update(b, shown[b], LiveType(b))>>)
        /\ store' = Put(store, b, shown[b], TypeOf(shown[b]))
        /\ saved' = [saved EXCEPT ![b] = shown[b]]
    BY <1>2 DEF TimerFires, SetLocalContent
  <2>2. saved' = [c \in Block |-> saved'[c]] /\ \A c : c # b => saved'[c] = saved[c]
    BY <2>1 DEF Text
  <2>3. \A c \in Ids(store) : shown'[c] = IF c = b THEN shown[b] ELSE shown[c]
    BY <1>1
  <2>4. \A c \in Ids(store) : c # b => SameAsBefore(c)
    BY <1>1, <2>2 DEF SameAsBefore
  <2> QED
    BY <1>1, <2>1, <2>2, <2>3, <2>4, UpdateTells
<1>3. CASE ~SaveNeeded(b)
  <2>1. UNCHANGED <<store, saved, flight, held>> /\ shown[b] = saved[b]
    BY <1>3 DEF TimerFires, SaveNeeded
  <2>2. saved' = [c \in Block |-> saved'[c]] /\ Mirrors(store', shown')
    BY <1>1, <2>1 DEF Text
  <2>3. ASSUME NEW c \in Ids(store')
        PROVE  Agreed(flight, held, table, c, shown'[c]) \/ (c \in timers' /\ shown'[c] # saved'[c])
    BY <1>1, <2>1, <2>3 DEF Text, Told
  <2> QED
    BY <1>1, <2>1, <2>2, <2>3, StaysTold
<1> QED
  BY <1>2, <1>3

LEMMA LeaveListTells ==
  ASSUME EditorInv, CalmInv, Orderly, Text, NEW b, LeaveList(b)
  PROVE  Text'
<1> DEFINE html == Para(shown[b].text)
<1>1. /\ store' = Put(store, b, html, "paragraph") /\ Send(<<Update(b, html, "paragraph")>>)
      /\ UNCHANGED <<table, timers, applying, saved>> /\ shown' = [shown EXCEPT ![b] = html]
  BY DEF LeaveList, history
<1> HIDE DEF html
<1>2. \A c \in Ids(store) : shown'[c] = IF c = b THEN html ELSE shown[c]
  <2>1. Ids(store) \subseteq Block /\ DOMAIN shown = Block
    BY IdsAreBlocks DEF CalmInv
  <2> QED
    BY <1>1, <2>1
<1>3. saved' = [c \in Block |-> saved'[c]]
  BY <1>1 DEF Text
<1>4. \A c \in Ids(store) : c # b => SameAsBefore(c)
  BY <1>1, <1>2 DEF SameAsBefore
<1> QED
  BY <1>1, <1>2, <1>3, <1>4, UpdateTells

\* Rows of blocks as the editors have them, and of others with html.
Fits(s, display, html) ==
  \A i \in DOMAIN s : s[i].html = IF s[i].id \in Ids(store) THEN display[s[i].id] ELSE html

LEMMA FitsShow ==
  ASSUME NEW s, NEW display, NEW known, NEW focus, ShowFrom(s, display, known, focus),
         Ids(s) \subseteq Block,
         NEW html, Fits(s, display, html)
  PROVE  /\ store' = s /\ Mirrors(s, shown')
         /\ saved' = [b \in Block |-> saved'[b]]
         /\ \A b \in Ids(s) \intersect Ids(store) : shown'[b] = display[b] /\ saved'[b] = known[b]
<1>1. \A i \in DOMAIN s : s[i].id \in Ids(store) => s[i].html = display[s[i].id]
  BY DEF Fits
<1>2. \A i, j \in DOMAIN s : s[i].id = s[j].id => s[i].html = s[j].html
  BY DEF Fits
<1> QED
  BY <1>1, <1>2, ShowsRows

LEMMA InsertFits ==
  ASSUME NEW s, IsRows(s), Ids(s) = Ids(store), NEW display, Mirrors(s, display),
         NEW row, IsRow(row), row.id \notin Ids(store)
  PROVE  Fits(Append(Opened(s, row.index), row), display, row.html)
<1> DEFINE u == Append(Opened(s, row.index), row)
<1>1. Inserts(u, s, row)
  BY InsertRows
<1>2. \A i \in DOMAIN s : s[i].id \in Ids(store) /\ s[i].html = display[s[i].id]
  BY DEF Ids, Mirrors
<1> HIDE DEF u
<1>3. ASSUME NEW i \in DOMAIN u
      PROVE  u[i].html = IF u[i].id \in Ids(store) THEN display[u[i].id] ELSE row.html
  <2>1. CASE i \in 1..Len(s)
    BY <1>1, <1>2, <2>1 DEF Inserts
  <2>2. CASE i = Len(s) + 1
    BY <1>1, <2>2 DEF Inserts
  <2> QED
    BY <1>1, <2>1, <2>2 DEF Inserts
<1>4. Fits(u, display, row.html)
  BY <1>3 DEF Fits
<1> QED
  BY <1>4 DEF u

LEMMA DropFits ==
  ASSUME NEW s, IsRows(s), Ids(s) = Ids(store), NEW display, Mirrors(s, display), NEW b
  PROVE  Fits(Drop(s, b), display, display[b])
<1> DEFINE u == Drop(s, b)
<1>1. PICK g : Drops(u, s, b, g)
  BY DropRows
<1>2. \A i \in DOMAIN s : s[i].id \in Ids(store) /\ s[i].html = display[s[i].id]
  BY DEF Ids, Mirrors
<1> HIDE DEF u
<1>3. Fits(u, display, display[b])
  BY <1>1, <1>2 DEF Drops, Fits
<1> QED
  BY <1>3 DEF u

\* A gesture that sends a move, a deletion, or the new creation of a block.
LEMMA SilentTells ==
  ASSUME EditorInv, Orderly, Text, NEW r, Send(<<r>>), r.state = "sent",
         r.kind \in {"delete", "reorder", "recreate"},
         r.kind = "recreate" => r.row.html = applying'.inverse.row.html,
         UNCHANGED table, saved' = [b \in Block |-> saved'[b]], Mirrors(store', shown'),
         \A b \in Ids(store') : SameAsBefore(b),
         applying' = applying \/ applying = Idle
  PROVE  Text'
<1> DEFINE R == <<r>>
<1>1. IsSeq(R) /\ DOMAIN R = {1} /\ R[1] = r
  BY OneIs
<1>2. \A b : Silent(R, b)
  BY OneEnds DEF Updating
<1>3. Send(R)
  OBVIOUS
<1> HIDE DEF R
<1>4. SpeaksOut(R)
  BY <1>2 DEF SpeaksOut, Tells
<1>5. SendsPlainly(R)
  BY <1>1 DEF SendsPlainly
<1> QED
  BY <1>1, <1>3, <1>4, <1>5, GestureTells

LEMMA DropShows ==
  ASSUME EditorInv, CalmInv, Orderly, Text, NEW b, Show(Drop(store, b)), UNCHANGED timers
  PROVE  /\ saved' = [c \in Block |-> saved'[c]] /\ Mirrors(store', shown')
         /\ \A c \in Ids(store') : SameAsBefore(c)
<1> DEFINE s == Drop(store, b)
<1>1. Ids(s) \subseteq Ids(store) /\ Ids(s) \subseteq Block
  BY DropIs, IdsAreBlocks DEF EditorInv
<1>2. Fits(s, shown, shown[b])
  BY DropFits DEF EditorInv, Text
<1>3. ShowFrom(s, shown, saved, caret)
  BY DEF Show
<1> HIDE DEF s
<1>4. /\ store' = s /\ Mirrors(s, shown') /\ saved' = [c \in Block |-> saved'[c]]
      /\ \A c \in Ids(s) \intersect Ids(store) : shown'[c] = shown[c] /\ saved'[c] = saved[c]
  BY <1>1, <1>2, <1>3, FitsShow
<1> QED
  BY <1>1, <1>4 DEF SameAsBefore

LEMMA StoreShows ==
  ASSUME Text, UNCHANGED <<store, shown, saved, timers>>
  PROVE  /\ saved' = [c \in Block |-> saved'[c]] /\ Mirrors(store', shown')
         /\ \A c \in Ids(store') : SameAsBefore(c)
  BY DEF Text, SameAsBefore

LEMMA MoveTells ==
  ASSUME EditorInv, Orderly, Text, NEW i, MoveBlock(i)
  PROVE  Text'
<1> DEFINE r == Reorder(Swapped(Order(store), i))
<1>1. Send(<<r>>) /\ UNCHANGED <<table, store, shown, saved, timers, applying>>
  BY DEF MoveBlock, history, screen
<1>2. r.kind = "reorder" /\ r.state = "sent"
  BY DEF Reorder, Request
<1> HIDE DEF r
<1> QED
  BY <1>1, <1>2, StoreShows, SilentTells

LEMMA RemoveTells ==
  ASSUME EditorInv, CalmInv, Orderly, Text, NEW b, RemoveBlock(b)
  PROVE  Text'
<1> DEFINE r == Delete(b)
<1>1. b \in Ids(store) /\ Send(<<r>>) /\ Show(Drop(store, b)) /\ UNCHANGED <<table, timers, applying>>
  BY DEF RemoveBlock, At, history
<1>2. r.kind = "delete" /\ r.state = "sent"
  BY <1>1, DeleteIs DEF EditorInv
<1> HIDE DEF r
<1> QED
  BY <1>1, <1>2, DropShows, SilentTells

LEMMA CreateLocallyTells ==
  ASSUME EditorInv, CalmInv, Orderly, Text, NEW row, NEW focus, IsRow(row), row.id = made + 1,
         CreateLocally(row, focus)
  PROVE  Text'
<1> DEFINE r == Create(row)
           R == <<r>>
           s == Append(Opened(store, row.index), row)
<1>1. /\ ShowFrom(s, shown, saved, focus) /\ Send(R) /\ made + 1 \in Block
      /\ UNCHANGED <<table, timers, applying>>
  BY DEF CreateLocally, ChooseId, history, Fresh
<1>2. IsRows(store) /\ Ids(store) \subseteq 1..made /\ made \in Nat /\ Ids(store) \subseteq Block
  BY IdsAreBlocks DEF EditorInv, IsTable, Orderly, Undisturbed
<1>3. row.id \notin Ids(store)
  BY <1>2
<1>4. Fits(s, shown, row.html)
  BY <1>2, <1>3, InsertFits DEF Text
<1>5. Ids(s) = Ids(store) \union {row.id}
  BY <1>2, OpenedIs, AppendedIs
<1>6. Inserts(s, store, row)
  BY <1>2, InsertRows
<1>7. r.kind = "create" /\ r.state = "sent" /\ r.row = row
  BY DEF Create, Request
<1>8. IsSeq(R) /\ DOMAIN R = {1} /\ R[1] = r
  BY OneIs
<1>9. \A b : Silent(R, b)
  BY <1>7, OneEnds DEF Updating
<1> HIDE DEF s, R, r
<1>10. /\ store' = s /\ Mirrors(s, shown') /\ saved' = [c \in Block |-> saved'[c]]
       /\ \A c \in Ids(s) \intersect Ids(store) : shown'[c] = shown[c] /\ saved'[c] = saved[c]
  BY <1>1, <1>2, <1>4, <1>5, FitsShow
<1>11. shown'[row.id] = row.html
  <2>1. Len(store) + 1 \in DOMAIN s /\ s[Len(store) + 1] = row
    BY <1>6 DEF Inserts
  <2> QED
    BY <1>10, <2>1 DEF Mirrors
<1>12. Creating(R[1], row.id) /\ R[1].row.html = row.html
  BY <1>7, <1>8 DEF Creating
<1>13. ASSUME NEW b \in Ids(store') PROVE Tells(R, b, shown'[b], SameAsBefore(b), made + 1)
  <2>1. CASE b \in Ids(store)
    BY <1>1, <1>5, <1>9, <1>10, <2>1 DEF Tells, SameAsBefore
  <2>2. CASE b = row.id
    <3>1. \E p \in DOMAIN R : Creating(R[p], b) /\ R[p].row.html = shown'[b]
      BY <1>8, <1>11, <1>12, <2>2
    <3> QED
      BY <1>9, <2>2, <3>1 DEF Tells
  <2> QED
    BY <1>5, <1>10, <2>1, <2>2
<1>14. SpeaksOut(R)
  BY <1>13 DEF SpeaksOut
<1>15. SendsPlainly(R)
  BY <1>7, <1>8 DEF SendsPlainly
<1> QED
  BY <1>1, <1>8, <1>10, <1>14, <1>15, GestureTells

LEMMA CreationTells ==
  ASSUME EditorInv, CalmInv, Orderly, Text, NEW b, InsertBlockAfter(b) \/ DuplicateBlock(b)
  PROVE  Text'
<1>1. PICK row, focus : IsRow(row) /\ row.id = made + 1 /\ CreateLocally(row, focus)
  BY InsertCreates, DuplicateCreates
<1> QED
  BY <1>1, CreateLocallyTells

LEMMA SplitTells ==
  ASSUME EditorInv, CalmInv, Orderly, Text, NEW b \in Ids(store), NEW before, NEW after,
         NEW type, SplitBlock(b, before, after, type, Cut(b, before))
  PROVE  Text'
<1> DEFINE current == RowIn(store, b)
           new == StoreRow(Fresh, after, TypeOf(after), current.index + 1)
           kept == Put(store, b, before, IF type = Keep THEN current.type ELSE type)
           display == Cut(b, before)
           c == Create(new)
           u == Update(b, before, type)
           R == <<c, u>>
           s == Append(Opened(kept, new.index), new)
<1>1. /\ ShowFrom(s, display, saved, b) /\ Send(R) /\ made + 1 \in Block
      /\ UNCHANGED <<table, timers, applying>>
  BY DEF SplitBlock, ChooseId, history, Fresh
<1>2. IsRows(store) /\ Ids(store) \subseteq 1..made /\ made \in Nat /\ Ids(store) \subseteq Block
  BY IdsAreBlocks DEF EditorInv, IsTable, Orderly, Undisturbed
<1>3. current.index + 1 \in Int
  BY <1>2, RowInIs DEF IsRow
<1> HIDE DEF current
<1>4. IsRow(new) /\ new.id = made + 1 /\ new.html = after
  BY <1>3, StoreRowIs DEF Fresh
<1> HIDE DEF new
<1>5. \A x \in Ids(store) : display[x] = IF x = b THEN before ELSE shown[x]
  <2>1. DOMAIN shown = Block
    BY DEF CalmInv
  <2> QED
    BY <1>2, <2>1 DEF Cut
<1> HIDE DEF display
<1>6. IsRows(kept) /\ Ids(kept) = Ids(store) /\ Mirrors(kept, display)
  <2>1. Redraws(display, b, before)
    BY <1>5 DEF Redraws
  <2> QED
    BY <1>2, <2>1, PutIs, PutMirrors DEF Text
<1> HIDE DEF kept
<1>7. new.id \notin Ids(store) /\ new.id # b
  BY <1>2, <1>4
<1>8. Fits(s, display, new.html)
  BY <1>4, <1>6, <1>7, InsertFits
<1>9. Ids(s) = Ids(store) \union {new.id}
  BY <1>4, <1>6, OpenedIs, AppendedIs
<1>10. Inserts(s, kept, new)
  BY <1>4, <1>6, InsertRows
<1>11. c.kind = "create" /\ c.state = "sent" /\ c.row = new
  BY DEF Create, Request
<1>12. u.kind = "update" /\ u.state = "sent" /\ u.row.id = b /\ u.row.html = before
  BY <1>2, UpdateIs
<1>13. IsSeq(R) /\ DOMAIN R = {1, 2} /\ R[1] = c /\ R[2] = u
  BY TwoAre
<1>14. Ends(R, b, before) /\ \A x : x # b => Silent(R, x)
  <2>1. Updating(u, b) /\ (\A x : ~Updating(c, x)) /\ \A x : x # b => ~Updating(u, x)
    BY <1>11, <1>12 DEF Updating
  <2> HIDE DEF c, u
  <2> QED
    BY <1>12, <2>1, TwoEnd
<1> HIDE DEF s, R, c, u
<1>15. /\ store' = s /\ Mirrors(s, shown') /\ saved' = [x \in Block |-> saved'[x]]
       /\ \A x \in Ids(s) \intersect Ids(store) : shown'[x] = display[x] /\ saved'[x] = saved[x]
  <2>1. Ids(s) \subseteq Block
    BY <1>1, <1>2, <1>4, <1>9
  <2> QED
    BY <1>1, <1>8, <2>1, FitsShow
<1>16. shown'[new.id] = new.html
  <2>1. Len(kept) + 1 \in DOMAIN s /\ s[Len(kept) + 1] = new
    BY <1>10 DEF Inserts
  <2> QED
    BY <1>15, <2>1 DEF Mirrors
<1>17. Creating(R[1], new.id) /\ R[1].row.html = new.html
  BY <1>11, <1>13 DEF Creating
<1>18. ASSUME NEW x \in Ids(store') PROVE Tells(R, x, shown'[x], SameAsBefore(x), made + 1)
  <2>1. CASE x = b
    <3>1. shown'[x] = before
      BY <1>5, <1>9, <1>15, <2>1
    <3> QED
      BY <1>14, <2>1, <3>1 DEF Tells
  <2>2. CASE x \in Ids(store) /\ x # b
    BY <1>1, <1>5, <1>9, <1>14, <1>15, <2>2 DEF Tells, SameAsBefore
  <2>3. CASE x = new.id
    <3>1. \E p \in DOMAIN R : Creating(R[p], x) /\ R[p].row.html = shown'[x]
      BY <1>13, <1>16, <1>17, <2>3
    <3> QED
      BY <1>4, <1>7, <1>14, <2>3, <3>1 DEF Tells
  <2> QED
    BY <1>9, <1>15, <2>1, <2>2, <2>3
<1>19. SpeaksOut(R)
  BY <1>18 DEF SpeaksOut
<1>20. SendsPlainly(R)
  BY <1>11, <1>12, <1>13 DEF SendsPlainly
<1> QED
  BY <1>1, <1>13, <1>15, <1>19, <1>20, GestureTells

LEMMA EnterTells ==
  ASSUME EditorInv, CalmInv, Orderly, Text, NEW b, NEW k, Enter(b, k)
  PROVE  Text'
<1>1. b \in Ids(store) /\ \E before, after, type :
                               SplitBlock(b, before, after, type, Cut(b, before))
  BY DEF Enter, At
<1> QED
  BY <1>1, SplitTells

LEMMA MergeTells ==
  ASSUME EditorInv, CalmInv, Orderly, Text, NEW p, NEW c \in Ids(store), MergeBlocks(p, c)
  PROVE  Text'
<1> DEFINE html == Merged(RowIn(store, p), RowIn(store, c))
           kept == Put(store, p, html, RowIn(store, p).type)
           display == [shown EXCEPT ![p] = html]
           known == [saved EXCEPT ![p] = html]
           u == Update(p, html, Keep)
           d == Delete(c)
           R == <<u, d>>
           s == Drop(kept, c)
<1>1. ShowFrom(s, display, known, p) /\ Send(R) /\ UNCHANGED <<table, timers, applying>>
  BY DEF MergeBlocks, history
<1>2. IsRows(store) /\ Ids(store) \subseteq Block
  BY IdsAreBlocks DEF EditorInv
<1> HIDE DEF html
<1>3. \A x \in Ids(store) : /\ display[x] = IF x = p THEN html ELSE shown[x]
                            /\ x # p => known[x] = saved[x]
  <2>1. DOMAIN shown = Block /\ DOMAIN saved = Block
    BY DEF CalmInv, Text
  <2> QED
    BY <1>2, <2>1
<1> HIDE DEF display, known
<1>4. IsRows(kept) /\ Ids(kept) = Ids(store) /\ Mirrors(kept, display)
  <2>1. Redraws(display, p, html)
    BY <1>3 DEF Redraws
  <2> QED
    BY <1>2, <2>1, PutIs, PutMirrors DEF Text
<1> HIDE DEF kept
<1>5. Fits(s, display, display[c])
  BY <1>4, DropFits
<1>6. Ids(s) = Ids(store) \ {c}
  BY <1>4, DropIs
<1>7. u.kind = "update" /\ u.state = "sent" /\ u.row.id = p /\ u.row.html = html
  BY <1>2, UpdateIs
<1>8. d.kind = "delete" /\ d.state = "sent"
  BY <1>2, DeleteIs
<1>9. IsSeq(R) /\ DOMAIN R = {1, 2} /\ R[1] = u /\ R[2] = d
  BY TwoAre
<1>10. Ends(R, p, html) /\ \A x : x # p => Silent(R, x)
  <2>1. Updating(u, p) /\ (\A x : ~Updating(d, x)) /\ \A x : x # p => ~Updating(u, x)
    BY <1>7, <1>8 DEF Updating
  <2> HIDE DEF d, u
  <2> QED
    BY <1>7, <2>1, TwoEnd
<1> HIDE DEF s, R, d, u
<1>11. /\ store' = s /\ Mirrors(s, shown') /\ saved' = [x \in Block |-> saved'[x]]
       /\ \A x \in Ids(s) \intersect Ids(store) : shown'[x] = display[x] /\ saved'[x] = known[x]
  <2>1. Ids(s) \subseteq Block
    BY <1>2, <1>6
  <2> QED
    BY <1>1, <1>5, <2>1, FitsShow
<1>12. ASSUME NEW x \in Ids(store') PROVE Tells(R, x, shown'[x], SameAsBefore(x), made + 1)
  <2>1. x \in Ids(store) /\ shown'[x] = display[x] /\ saved'[x] = known[x]
    BY <1>6, <1>11
  <2>2. CASE x = p
    BY <1>3, <1>10, <2>1, <2>2 DEF Tells
  <2>3. CASE x # p
    BY <1>1, <1>3, <1>10, <2>1, <2>3 DEF Tells, SameAsBefore
  <2> QED
    BY <2>2, <2>3
<1>13. SpeaksOut(R)
  BY <1>12 DEF SpeaksOut
<1>14. SendsPlainly(R)
  BY <1>7, <1>8, <1>9 DEF SendsPlainly
<1> QED
  BY <1>1, <1>9, <1>11, <1>13, <1>14, GestureTells

LEMMA BackspaceTells ==
  ASSUME EditorInv, CalmInv, Orderly, Text, NEW i, Backspace(i) \/ ForwardDelete(i)
  PROVE  Text'
<1>1. Len(store) \in Nat /\ DOMAIN store = 1..Len(store)
  BY IsSeqDomain DEF EditorInv, IsRows
<1>2. \A k \in 1..Len(store) : Order(store)[k] \in Ids(store)
  BY <1>1, OrderIs DEF EditorInv
<1>3. CASE Backspace(i)
  <2>1. i \in 2..Len(store) /\ MergeBlocks(Order(store)[i - 1], Order(store)[i])
    BY <1>3 DEF Backspace
  <2>2. Order(store)[i] \in Ids(store)
    BY <1>1, <1>2, <2>1
  <2> QED
    BY <2>1, <2>2, MergeTells
<1>4. CASE ForwardDelete(i)
  <2>1. i \in 1..Len(store) - 1 /\ MergeBlocks(Order(store)[i], Order(store)[i + 1])
    BY <1>4 DEF ForwardDelete
  <2>2. Order(store)[i + 1] \in Ids(store)
    BY <1>1, <1>2, <2>1
  <2> QED
    BY <2>1, <2>2, MergeTells
<1> QED
  BY <1>3, <1>4

LEMMA ApplyTells ==
  ASSUME EditorInv, CalmInv, Orderly, Text, NEW way \in {"undo", "redo"}, NEW op, IsOp(op), Apply(way, op)
  PROVE  Text'
<1> DEFINE b == op.row.id
           again == [op.row EXCEPT !.id = Fresh]
           del == Delete(b)
           ord == Reorder(op.ids)
           rec == Request("recreate", again)
           s(r) == [r EXCEPT !.by = way]
           deletes == b \in Ids(store) /\ Show(Drop(store, b)) /\ Send(<<s(del)>>)
           finishes == applying' = Idle /\ UNCHANGED <<store, shown, saved, flight, held>>
           recreates == /\ Send(<<s(rec)>>) /\ UNCHANGED <<store, shown, saved>>
                        /\ applying' = [way |-> way, inverse |-> Op("create", again, <<>>)]
           reorders == Send(<<s(ord)>>) /\ UNCHANGED <<store, shown, saved>>
<1>1. deletes \/ finishes \/ recreates \/ reorders
  BY DEF Apply, Revert, Finish
<1>2. applying = Idle /\ UNCHANGED <<table, timers>>
  BY DEF Apply
<1>3. \A r : IsRequest(r) => s(r).kind = r.kind /\ s(r).row = r.row /\ s(r).state = r.state
  BY PostIs
<1> HIDE DEF s
<1>4. CASE deletes
  <2>1. IsRequest(del) /\ del.kind = "delete" /\ del.state = "sent"
    BY <1>4, DeleteIs DEF EditorInv
  <2>2. Show(Drop(store, b)) /\ Send(<<s(del)>>)
    BY <1>4
  <2> HIDE DEF del, b
  <2> DEFINE r == s(del)
  <2>3. r.kind = "delete" /\ r.state = "sent" /\ Send(<<r>>)
    BY <1>3, <2>1, <2>2
  <2> HIDE DEF r
  <2> QED
    BY <1>2, <2>2, <2>3, DropShows, SilentTells
<1>5. CASE finishes
  <2>1. UNCHANGED <<table, flight, held, applying>>
    BY <1>2, <1>5
  <2>2. saved' = [c \in Block |-> saved'[c]] /\ Mirrors(store', shown')
    BY <1>5 DEF Text
  <2>3. ASSUME NEW c \in Ids(store')
        PROVE  Agreed(flight, held, table, c, shown'[c]) \/ (c \in timers' /\ shown'[c] # saved'[c])
    BY <1>2, <1>5, <2>3 DEF Text, Told
  <2> QED
    BY <2>1, <2>2, <2>3, StaysTold
<1>6. CASE recreates
  <2>1. IsRow(again)
    <3>1. IsRow(op.row)
      BY DEF IsOp
    <3>2. again = [id |-> Fresh, html |-> op.row.html, type |-> op.row.type, index |-> op.row.index]
      BY <3>1 DEF IsRow
    <3> HIDE DEF again
    <3> QED
      BY <3>1, <3>2 DEF IsRow
  <2>2. /\ Send(<<s(rec)>>) /\ UNCHANGED <<store, shown, saved>>
        /\ applying' = [way |-> way, inverse |-> Op("create", again, <<>>)]
    BY <1>6
  <2> HIDE DEF again
  <2>3. applying'.inverse.row = again
    BY <2>2 DEF Op
  <2>4. IsRequest(rec) /\ rec.kind = "recreate" /\ rec.row = again /\ rec.state = "sent"
    BY <2>1, RequestIs
  <2> HIDE DEF rec
  <2> DEFINE r == s(rec)
  <2>5. r.kind = "recreate" /\ r.row = again /\ r.state = "sent" /\ Send(<<r>>)
    BY <1>3, <2>2, <2>4
  <2> HIDE DEF r
  <2>6. r.row.html = applying'.inverse.row.html
    BY <2>3, <2>5
  <2> QED
    BY <1>2, <2>2, <2>5, <2>6, StoreShows, SilentTells
<1>7. CASE reorders
  <2>1. IsRequest(ord) /\ ord.kind = "reorder" /\ ord.state = "sent"
    BY ReorderIs DEF EditorInv, IsOp
  <2>2. Send(<<s(ord)>>) /\ UNCHANGED <<store, shown, saved>>
    BY <1>7
  <2> HIDE DEF ord
  <2> DEFINE r == s(ord)
  <2>3. r.kind = "reorder" /\ r.state = "sent" /\ Send(<<r>>)
    BY <1>3, <2>1, <2>2
  <2> HIDE DEF r
  <2> QED
    BY <1>2, <2>2, <2>3, StoreShows, SilentTells
<1> QED
  BY <1>1, <1>4, <1>5, <1>6, <1>7

LEMMA UndoTells ==
  ASSUME EditorInv, CalmInv, Orderly, Text, Undo \/ Redo
  PROVE  Text'
<1>1. IsOps(past) /\ IsOps(future)
  BY DEF EditorInv, HistoryInv
<1>2. CASE Undo
  BY <1>1, <1>2, LastIs, ApplyTells DEF Undo
<1>3. CASE Redo
  BY <1>1, <1>3, LastIs, ApplyTells DEF Redo
<1> QED
  BY <1>2, <1>3

-----------------------------------------------------------------------------
(* What the server's statements do to the columns.                         *)

InsertsBlock(u, t, b, html, index) ==
  /\ DOMAIN u = DOMAIN t \union {b} /\ u[b].html = html /\ u[b].index = index
  /\ \A c \in DOMAIN t : /\ u[c].html = t[c].html /\ u[c].index = Up(t[c].index, index)
                         /\ u[c].rowid = t[c].rowid /\ t[c].rowid < u[b].rowid

LEMMA InsertedColumns ==
  ASSUME NEW t, NEW n, IsTable(t, n), NEW b, b \notin DOMAIN t,
         NEW html, NEW type, NEW index \in Int
  PROVE  InsertsBlock(Inserted(t, b, html, type, index), t, b, html, index)
<1> DEFINE u == Inserted(t, b, html, type, index)
           new == [html |-> html, type |-> type, index |-> index, rowid |-> NextRowid(t)]
           s == ShiftedFrom(t, index)
<1>1. \A c \in DOMAIN t : t[c].rowid < NextRowid(t)
  BY NextRowidIs
<1>2. new.html = html /\ new.index = index /\ new.rowid = NextRowid(t)
  OBVIOUS
<1>3. ASSUME NEW c \in DOMAIN t
      PROVE  /\ s[c].html = t[c].html /\ s[c].index = Up(t[c].index, index)
             /\ s[c].rowid = t[c].rowid
  <2>1. IsTableRow(t[c])
    BY DEF IsTable
  <2>2. CASE t[c].index >= index
    <3>1. s[c] = [t[c] EXCEPT !.index = @ + 1]
      BY <2>2 DEF ShiftedFrom
    <3> HIDE DEF s
    <3>2. s[c] = [html |-> t[c].html, type |-> t[c].type, index |-> t[c].index + 1,
                  rowid |-> t[c].rowid]
      BY <2>1, <3>1 DEF IsTableRow
    <3> QED
      BY <2>2, <3>2 DEF Up
  <2>3. CASE ~(t[c].index >= index)
    <3>1. s[c] = t[c]
      BY <2>3 DEF ShiftedFrom
    <3> QED
      BY <2>3, <3>1 DEF Up
  <2> QED
    BY <2>2, <2>3
<1>4. u = [x \in DOMAIN t \union {b} |-> IF x = b THEN new ELSE s[x]]
  BY DEF Inserted
<1> HIDE DEF u, new, s
<1>5. DOMAIN u = DOMAIN t \union {b} /\ u[b] = new /\ \A c \in DOMAIN t : u[c] = s[c]
  BY <1>4
<1>6. InsertsBlock(u, t, b, html, index)
  BY <1>1, <1>2, <1>3, <1>5 DEF InsertsBlock
<1> QED
  BY <1>6 DEF u

RewritesBlock(u, t, b, html) ==
  /\ DOMAIN u = DOMAIN t
  /\ \A c \in DOMAIN t : /\ u[c].html = IF c = b THEN html ELSE t[c].html
                         /\ u[c].index = t[c].index /\ u[c].rowid = t[c].rowid

LEMMA RewrittenColumns ==
  ASSUME NEW t, NEW n, IsTable(t, n), NEW b, NEW html, NEW type
  PROVE  RewritesBlock(Rewritten(t, b, html, type), t, b, html)
<1> DEFINE u == Rewritten(t, b, html, type)
<1>1. DOMAIN u = DOMAIN t
  BY DEF Rewritten
<1>2. ASSUME NEW c \in DOMAIN t
      PROVE  /\ u[c].html = IF c = b THEN html ELSE t[c].html
             /\ u[c].index = t[c].index /\ u[c].rowid = t[c].rowid
  <2>1. IsTableRow(t[c])
    BY DEF IsTable
  <2>2. u[c] = IF c = b THEN [[t[c] EXCEPT !.html = html] EXCEPT !.type = type] ELSE t[c]
    BY DEF Rewritten
  <2> HIDE DEF u
  <2>3. CASE c # b
    BY <2>2, <2>3
  <2>4. CASE c = b
    <3>1. u[c] = [html |-> html, type |-> type, index |-> t[c].index, rowid |-> t[c].rowid]
      BY <2>1, <2>2, <2>4 DEF IsTableRow
    <3> QED
      BY <2>4, <3>1
  <2> QED
    BY <2>3, <2>4
<1> HIDE DEF u
<1>3. RewritesBlock(u, t, b, html)
  BY <1>1, <1>2 DEF RewritesBlock
<1> QED
  BY <1>3 DEF u

ReordersBlocks(u, t, ids) ==
  /\ DOMAIN u = DOMAIN t
  /\ \A c \in DOMAIN t : /\ u[c].html = t[c].html /\ u[c].rowid = t[c].rowid
                         /\ c \notin {ids[i] : i \in DOMAIN ids} => u[c].index = t[c].index

LEMMA ReorderedColumns ==
  ASSUME NEW t, NEW n, IsTable(t, n), NEW ids, IsPlaces(ids)
  PROVE  ReordersBlocks(Reordered(t, ids), t, ids)
<1> DEFINE u == Reordered(t, ids)
           place(b) == CHOOSE i \in DOMAIN ids : ids[i] = b
<1>1. u = [b \in DOMAIN t |-> IF \E i \in DOMAIN ids : ids[i] = b
                              THEN [t[b] EXCEPT !.index = place(b) - 1] ELSE t[b]]
  BY DEF Reordered
<1> HIDE DEF u, place
<1>2. ASSUME NEW c \in DOMAIN t
      PROVE  /\ u[c].html = t[c].html /\ u[c].rowid = t[c].rowid
             /\ c \notin {ids[i] : i \in DOMAIN ids} => u[c].index = t[c].index
  <2>1. IsTableRow(t[c])
    BY DEF IsTable
  <2>2. CASE ~\E i \in DOMAIN ids : ids[i] = c
    BY <1>1, <2>2
  <2>3. CASE \E i \in DOMAIN ids : ids[i] = c
    <3>1. u[c] = [t[c] EXCEPT !.index = place(c) - 1]
      BY <1>1, <2>3
    <3>2. u[c] = [html |-> t[c].html, type |-> t[c].type, index |-> place(c) - 1,
                  rowid |-> t[c].rowid]
      BY <2>1, <3>1 DEF IsTableRow
    <3> QED
      BY <2>3, <3>2
  <2> QED
    BY <2>2, <2>3
<1>3. DOMAIN u = DOMAIN t
  BY <1>1
<1>4. ReordersBlocks(u, t, ids)
  BY <1>2, <1>3 DEF ReordersBlocks
<1> QED
  BY <1>4 DEF u

-----------------------------------------------------------------------------
(* The server does what it was told.                                       *)

LEMMA AnsweredIs ==
  ASSUME EditorInv, NEW i \in DOMAIN flight, NEW state, NEW rows, Answer(i, state, rows)
  PROVE  /\ DOMAIN flight' = DOMAIN flight
         /\ \A j \in DOMAIN flight : j # i => flight'[j] = flight[j]
         /\ flight'[i].kind = flight[i].kind /\ flight'[i].row = flight[i].row
         /\ flight'[i].by = flight[i].by /\ flight'[i].ids = flight[i].ids
         /\ flight'[i].state = state /\ flight'[i].rows = rows
<1> DEFINE q == flight[i]
<1>1. IsRequest(q)
  BY ToldApart
<1>2. flight' = [flight EXCEPT ![i] = [[flight[i] EXCEPT !.state = state] EXCEPT !.rows = rows]]
  BY DEF Answer
<1>3. DOMAIN flight' = DOMAIN flight /\ \A j \in DOMAIN flight : j # i => flight'[j] = flight[j]
  BY <1>2
<1>4. flight'[i] = [[q EXCEPT !.state = state] EXCEPT !.rows = rows]
  BY <1>2
<1> HIDE DEF q
<1>5. flight'[i] = [kind |-> q.kind, row |-> q.row, old |-> q.old, ids |-> q.ids,
                    prev |-> q.prev, by |-> q.by, state |-> state, rows |-> rows]
  BY <1>1, <1>4 DEF IsRequest
<1> QED
  BY <1>3, <1>5 DEF q

KeepsOthers(u, t, q) ==
  \A b \in DOMAIN t : (Writes(q) /\ b = q.row.id) \/ (b \in DOMAIN u /\ u[b].html = t[b].html)
Stores(u, q) == q.row.id \in DOMAIN u /\ u[q.row.id].html = q.row.html

\* What serving a request comes to.
ServedText(i) ==
  LET q == flight[i]
  IN  /\ UNCHANGED <<store, shown, saved, timers, held, applying>> /\ q.state = "sent"
      /\ KeepsOthers(table', table, q)
      /\ Creates(q) => Stores(table', q)
      /\ \/ \E state, rows : Answer(i, state, rows) /\ (q.kind = "update" => q.row.id \notin DOMAIN table)
         \/ q.kind = "update" /\ flight' = RemoveAt(flight, i) /\ Stores(table', q)

LEMMA ServeText ==
  ASSUME EditorInv, NEW i \in DOMAIN flight, Serve(i)
  PROVE  ServedText(i)
<1> DEFINE q == flight[i]
<1>1. UNCHANGED <<store, shown, saved, timers, held, applying>> /\ q.state = "sent"
  BY DEF Serve, screen, history
<1>2. IsTable(table, made) /\ IsRequest(q)
  BY ToldApart DEF EditorInv
<1>3. CASE /\ q.kind \in {"create", "recreate"}
           /\ CreateBlock(q.row.id, q.row.html, q.row.type, q.row.index)
           /\ Answer(i, "done", <<>>)
  <2>1. /\ q.row.id \notin DOMAIN table
        /\ table' = Inserted(table, q.row.id, q.row.html, q.row.type, q.row.index)
    BY <1>3 DEF CreateBlock
  <2>2. q.row.index \in Int
    BY <1>2 DEF IsRequest, IsRow
  <2>3. InsertsBlock(table', table, q.row.id, q.row.html, q.row.index)
    <3> HIDE DEF q
    <3> QED
      BY <1>2, <2>1, <2>2, InsertedColumns
  <2>4. KeepsOthers(table', table, q) /\ Stores(table', q)
    BY <2>3 DEF InsertsBlock, KeepsOthers, Stores
  <2> QED
    BY <1>1, <1>3, <2>4 DEF ServedText
<1>4. CASE q.kind = "update" /\ ServeUpdate(i)
  <2>1. /\ q.row.id \in DOMAIN table /\ flight' = RemoveAt(flight, i)
        /\ \E type : table' = Rewritten(table, q.row.id, q.row.html, type)
    BY <1>4 DEF ServeUpdate, UpdateBlock
  <2>2. RewritesBlock(table', table, q.row.id, q.row.html)
    <3> HIDE DEF q
    <3> QED
      BY <1>2, <2>1, RewrittenColumns
  <2>3. KeepsOthers(table', table, q) /\ Stores(table', q) /\ ~Creates(q)
    BY <1>4, <2>1, <2>2 DEF RewritesBlock, KeepsOthers, Stores, Creates, Writes
  <2> QED
    BY <1>1, <1>4, <2>1, <2>3 DEF ServedText
<1>5. CASE q.kind = "delete" /\ DeleteBlock(q.row.id) /\ Answer(i, "done", <<>>)
  <2>1. table' = Without(table, q.row.id)
    BY <1>5 DEF DeleteBlock
  <2>2. KeepsOthers(table', table, q) /\ ~Creates(q)
    BY <1>5, <2>1 DEF Without, KeepsOthers, Creates, Writes
  <2> QED
    BY <1>1, <1>5, <2>2 DEF ServedText
<1>6. CASE /\ q.kind \in {"update", "delete"} /\ q.row.id \notin DOMAIN table
           /\ Answer(i, "refused", <<>>) /\ UNCHANGED table
  <2>1. KeepsOthers(table', table, q) /\ ~Creates(q)
    BY <1>6 DEF KeepsOthers, Creates
  <2> QED
    BY <1>1, <1>6, <2>1 DEF ServedText
<1>7. CASE q.kind = "reorder" /\ ReorderBlocks(q.ids) /\ Answer(i, "done", Adopted(table'))
  <2>1. table' = Reordered(table, q.ids) /\ IsPlaces(q.ids)
    BY <1>2, <1>7 DEF ReorderBlocks, IsRequest
  <2>2. ReordersBlocks(table', table, q.ids)
    <3> HIDE DEF q
    <3> QED
      BY <1>2, <2>1, ReorderedColumns
  <2>3. KeepsOthers(table', table, q) /\ ~Creates(q)
    BY <1>7, <2>2 DEF ReordersBlocks, KeepsOthers, Creates
  <2> QED
    BY <1>1, <1>7, <2>3 DEF ServedText
<1>8. CASE q.kind = "relist" /\ Answer(i, "done", Adopted(table)) /\ UNCHANGED table
  <2>1. KeepsOthers(table', table, q) /\ ~Creates(q)
    BY <1>8 DEF KeepsOthers, Creates
  <2> QED
    BY <1>1, <1>8, <2>1 DEF ServedText
<1> QED
  BY <1>3, <1>4, <1>5, <1>6, <1>7, <1>8 DEF Serve

LEMMA AnsweredBorn ==
  ASSUME EditorInv, NEW i \in DOMAIN flight, NEW state, NEW rows, Answer(i, state, rows),
         NEW b, ~(Writes(flight[i]) /\ b = flight[i].row.id), KeepsOthers(table', table, flight[i]),
         Creates(flight[i]) => Stores(table', flight[i]),
         NEW html, Born(ToSet(flight), table, b, html)
  PROVE  Born(ToSet(flight'), table', b, html)
<1>1. CASE b \in DOMAIN table /\ table[b].html = html
  BY <1>1 DEF Born, KeepsOthers
<1>2. CASE \E j \in DOMAIN flight : Creating(flight[j], b) /\ flight[j].row.html = html
  <2>1. PICK j \in DOMAIN flight : Creating(flight[j], b) /\ flight[j].row.html = html
    BY <1>2
  <2>2. CASE j = i
    BY <2>1, <2>2 DEF Creates, Creating, Stores, Born
  <2>3. CASE j # i
    <3>1. flight'[j] = flight[j] /\ j \in DOMAIN flight'
      BY <2>3, AnsweredIs
    <3>2. flight'[j] \in ToSet(flight')
      BY <3>1 DEF ToSet
    <3> QED
      BY <2>1, <3>1, <3>2 DEF Born
  <2> QED
    BY <2>2, <2>3
<1>3. \A q \in ToSet(flight) : \E j \in DOMAIN flight : q = flight[j]
  BY DEF ToSet
<1> QED
  BY <1>1, <1>2, <1>3 DEF Born

LEMMA AnsweredAgrees ==
  ASSUME EditorInv, NEW i \in DOMAIN flight, NEW state, NEW rows, Answer(i, state, rows), UNCHANGED held,
         NEW b, ~(Writes(flight[i]) /\ b = flight[i].row.id), KeepsOthers(table', table, flight[i]),
         Creates(flight[i]) => Stores(table', flight[i]),
         NEW html, Agreed(flight, held, table, b, html)
  PROVE  Agreed(flight', held', table', b, html)
<1>1. /\ DOMAIN flight' = DOMAIN flight /\ \A j \in DOMAIN flight : j # i => flight'[j] = flight[j]
      /\ flight'[i].kind = flight[i].kind /\ flight'[i].row = flight[i].row
  BY AnsweredIs
<1>2. ~Updating(flight[i], b) /\ ~Updating(flight'[i], b)
  BY <1>1 DEF Updating, Writes
<1>3. PICK t : t = flight'
  OBVIOUS
<1>4. /\ Silent(flight, b) => Silent(t, b)
      /\ \A x : Ends(flight, b, x) => Ends(t, b, x)
  <2>1. ~Updating(t[i], b) /\ DOMAIN t = DOMAIN flight /\ \A j \in DOMAIN flight : j # i => t[j] = flight[j]
    BY <1>1, <1>2, <1>3
  <2> QED
    BY <1>2, <2>1, ChangedEnds
<1>5. Born(ToSet(flight), table, b, html) => Born(ToSet(flight'), table', b, html)
  BY AnsweredBorn
<1> QED
  BY <1>3, <1>4, <1>5 DEF Agreed

LEMMA WrittenAgrees ==
  ASSUME EditorInv, NEW i \in DOMAIN flight, flight[i].kind = "update", flight[i].state = "sent",
         flight' = RemoveAt(flight, i), ~Overtakes(i), UNCHANGED held,
         KeepsOthers(table', table, flight[i]), Stores(table', flight[i]),
         NEW b, NEW html, Agreed(flight, held, table, b, html)
  PROVE  Agreed(flight', held', table', b, html)
<1> DEFINE q == flight[i]
<1>1. IsSeq(flight) /\ ToSet(flight') = Rest(flight, i) /\ ToSet(flight) = Rest(flight, i) \union {q}
  BY SetOfRest DEF EditorInv
<1>2. DOMAIN flight = 1..Len(flight) /\ Len(flight) \in Nat
  BY <1>1, IsSeqDomain
<1>3. \A j \in 1..i - 1 : ~Updating(flight[j], q.row.id)
  BY <1>2 DEF Overtakes, Disturbs, Updating
<1>4. PICK t : t = flight'
  OBVIOUS
<1>5. /\ Silent(flight, b) => Silent(t, b)
      /\ ~Updating(q, b) => \A x : Ends(flight, b, x) => Ends(t, b, x)
      /\ (\A j \in 1..i - 1 : ~Updating(flight[j], b)) =>
           \A x : Ends(flight, b, x) =>
             Ends(t, b, x) \/ (Silent(t, b) /\ Updating(q, b) /\ q.row.html = x)
  BY <1>1, <1>4, RemovedEnds
<1>6. CASE b = q.row.id
  <2>1. ~Silent(flight, b)
    BY <1>6 DEF Silent, Updating
  <2>2. Ends(held, b, html) \/ (Silent(held, b) /\ Ends(flight, b, html))
    BY <2>1 DEF Agreed
  <2>3. q.row.html = html => Born(ToSet(flight'), table', b, html)
    BY <1>6 DEF Born, Stores
  <2> QED
    BY <1>3, <1>4, <1>5, <1>6, <2>2, <2>3 DEF Agreed
<1>7. CASE b # q.row.id
  <2>1. ~Updating(q, b)
    BY <1>7 DEF Updating
  <2>2. Born(ToSet(flight), table, b, html) => Born(ToSet(flight'), table', b, html)
    <3>1. b \in DOMAIN table /\ table[b].html = html => b \in DOMAIN table' /\ table'[b].html = html
      BY <1>7 DEF KeepsOthers
    <3>2. \A g \in ToSet(flight) : Creating(g, b) => g \in ToSet(flight')
      <4>1. ~Creating(q, b)
        BY DEF Creating
      <4> HIDE DEF q
      <4> QED
        BY <1>1, <4>1
    <3> QED
      BY <3>1, <3>2 DEF Born
  <2> QED
    BY <1>4, <1>5, <2>1, <2>2 DEF Agreed
<1> QED
  BY <1>6, <1>7

LEMMA SentOnTheWire ==
  ASSUME EditorInv, NEW i \in DOMAIN flight
  PROVE  /\ <<1, i>> \in DOMAIN UnderWay /\ UnderWay[<<1, i>>] = flight[i]
         /\ flight[i] \in ToSet(flight) /\ OfUndo(flight[i], applying)
<1>1. <<1, i>> \in DOMAIN UnderWay /\ UnderWay[<<1, i>>] = flight[i]
  BY DEF UnderWay, Beside
<1>2. \A p \in DOMAIN UnderWay : OfUndo(UnderWay[p], applying)
  BY DEF EditorInv, Sound, OneUndo
<1> QED
  BY <1>1, <1>2 DEF ToSet

\* What is served writes to no block of the screen, an update that is written
\* apart, and never to the block that an undo brings back.
LEMMA ServedElsewhere ==
  ASSUME EditorInv, Orderly, NEW i \in DOMAIN flight, flight[i].state = "sent", Writes(flight[i])
  PROVE  /\ flight[i].kind = "delete" \/ flight[i].row.id \notin DOMAIN table
              => flight[i].row.id \notin Ids(store)
         /\ \A j \in DOMAIN flight : Brings(flight[j]) => flight[i].row.id # Back
<1>1. flight[i].kind = "delete" => flight[i].row.id \notin Ids(store)
  BY SentOnTheWire DEF Orderly, Undisturbed, Removing
<1>2. flight[i].row.id \notin DOMAIN table => flight[i].row.id \notin Ids(store)
  <2>1. flight[i] \in ToSet(flight)
    BY SentOnTheWire
  <2>2. InTurn(ToSet(flight), ToSet(held), DOMAIN table, Ids(store))
    BY DEF Orderly
  <2> QED
    BY <2>1, <2>2, NotFoundIs
<1>3. ASSUME NEW j \in DOMAIN flight, Brings(flight[j]) PROVE flight[i].row.id # Back
  <2>1. /\ <<1, i>> \in DOMAIN UnderWay /\ UnderWay[<<1, i>>] = flight[i]
        /\ <<1, j>> \in DOMAIN UnderWay /\ UnderWay[<<1, j>>] = flight[j]
    BY SentOnTheWire
  <2> QED
    BY <1>3, <2>1 DEF Orderly, Undisturbed
<1> QED
  BY <1>1, <1>2, <1>3

LEMMA ServeRestores ==
  ASSUME EditorInv, Orderly, Text, NEW i \in DOMAIN flight, ServedText(i)
  PROVE  Restores(ToSet(flight'), table', applying'.inverse.row)
<1> DEFINE q == flight[i]
<1>1. applying' = applying /\ KeepsOthers(table', table, q) /\ (Creates(q) => Stores(table', q))
  BY DEF ServedText
<1>2. ASSUME NEW j \in DOMAIN flight
      PROVE  /\ flight[j].kind = "recreate" => flight[j].row.html = applying.inverse.row.html
             /\ Brings(flight[j]) /\ (flight[j].kind = "relist" \/ flight[j].state = "done")
                  => Back \in DOMAIN table' /\ table'[Back].html = applying.inverse.row.html
  <2>1. flight[j] \in ToSet(flight)
    BY DEF ToSet
  <2>2. /\ flight[j].kind = "recreate" => flight[j].row.html = applying.inverse.row.html
        /\ Brings(flight[j]) /\ (flight[j].kind = "relist" \/ flight[j].state = "done")
             => Back \in DOMAIN table /\ table[Back].html = applying.inverse.row.html
    BY <2>1 DEF Text, Restores, Back
  <2>3. Brings(flight[j]) => ~(Writes(q) /\ Back = q.row.id)
    BY ServedElsewhere DEF ServedText
  <2> QED
    BY <1>1, <2>2, <2>3 DEF KeepsOthers
<1>3. CASE \E state, rows : Answer(i, state, rows)
  <2>1. /\ DOMAIN flight' = DOMAIN flight /\ \A j \in DOMAIN flight : j # i => flight'[j] = flight[j]
        /\ flight'[i].kind = q.kind /\ flight'[i].row = q.row
    BY <1>3, AnsweredIs
  <2>2. ASSUME NEW j \in DOMAIN flight
        PROVE  /\ flight'[j].kind = "recreate" => flight'[j].row.html = applying.inverse.row.html
               /\ Brings(flight'[j]) /\ (flight'[j].kind = "relist" \/ flight'[j].state = "done")
                    => Back \in DOMAIN table' /\ table'[Back].html = applying.inverse.row.html
    <3>1. CASE j # i
      BY <1>2, <2>1, <3>1
    <3>2. CASE j = i
      <4>1. q.kind = "recreate" => q.row.id = Back
        BY SentOnTheWire DEF OfUndo, Back
      <4>2. q.kind = "recreate" => Creates(q)
        BY DEF Creates
      <4> QED
        BY <1>1, <1>2, <2>1, <3>2, <4>1, <4>2 DEF Brings, Stores
    <3> QED
      BY <3>1, <3>2
  <2> QED
    BY <1>1, <2>1, <2>2 DEF Restores, ToSet, Back
<1>4. CASE flight' = RemoveAt(flight, i)
  <2>1. ToSet(flight') = Rest(flight, i)
    BY <1>4, SetOfRest DEF EditorInv
  <2> QED
    BY <1>1, <1>2, <2>1 DEF Restores, Rest, Back
<1> QED
  BY <1>3, <1>4 DEF ServedText

LEMMA ServeTells ==
  ASSUME EditorInv, CalmInv, Orderly, Text, NEW i \in DOMAIN flight, Serve(i), ~overtaken'
  PROVE  Text'
<1> DEFINE q == flight[i]
<1>1. ServedText(i) /\ ~Overtakes(i)
  BY ServeText DEF Serve
<1>2. /\ UNCHANGED <<store, shown, saved, timers, held, applying>> /\ q.state = "sent"
      /\ KeepsOthers(table', table, q) /\ (Creates(q) => Stores(table', q))
  BY <1>1 DEF ServedText
<1>3. CASE /\ q.kind = "update" => q.row.id \notin DOMAIN table
           /\ \E state, rows : Answer(i, state, rows)
  <2>1. PICK state, rows : Answer(i, state, rows)
    BY <1>3
  <2>2. ASSUME NEW b \in Ids(store), NEW html, Agreed(flight, held, table, b, html)
        PROVE  Agreed(flight', held', table', b, html)
    <3>1. ~(Writes(q) /\ b = q.row.id)
      BY <1>2, <1>3, ServedElsewhere DEF Writes
    <3> QED
      BY <1>2, <2>1, <2>2, <3>1, AnsweredAgrees
  <2>3. ASSUME NEW g \in ToSet(flight), g.kind = "create"
        PROVE  \E r \in ToSet(flight') : r.kind = "create" /\ r.row.id = g.row.id
    <3>1. PICK j \in DOMAIN flight : g = flight[j]
      BY DEF ToSet
    <3>2. j \in DOMAIN flight' /\ flight'[j].kind = g.kind /\ flight'[j].row = g.row
      BY <2>1, <3>1, AnsweredIs
    <3> QED
      BY <2>3, <3>2 DEF ToSet
  <2>4. Waits(ToSet(flight'), ToSet(held'))
    BY <1>2, <2>3 DEF Text, Waits
  <2>5. Told(flight', held', table', Ids(store'), shown', saved', timers')
    BY <1>2, <2>2 DEF Text, Told
  <2> QED
    BY <1>1, <1>2, <2>4, <2>5, ServeRestores DEF Text
<1>4. CASE q.kind = "update" /\ flight' = RemoveAt(flight, i) /\ Stores(table', q)
  <2>1. ASSUME NEW b \in Ids(store), NEW html, Agreed(flight, held, table, b, html)
        PROVE  Agreed(flight', held', table', b, html)
    BY <1>1, <1>2, <1>4, <2>1, WrittenAgrees
  <2>2. \A g \in ToSet(flight) : g.kind = "create" => g \in ToSet(flight')
    BY <1>4, SetOfRest DEF EditorInv
  <2>3. Waits(ToSet(flight'), ToSet(held'))
    BY <1>2, <2>2 DEF Text, Waits
  <2>4. Told(flight', held', table', Ids(store'), shown', saved', timers')
    BY <1>2, <2>1 DEF Text, Told
  <2> QED
    BY <1>1, <1>2, <2>3, <2>4, ServeRestores DEF Text
<1> QED
  BY <1>1, <1>3, <1>4 DEF ServedText

-----------------------------------------------------------------------------
(* Taking an answer in, the client stays in accord with the server.        *)

\* An answered request is gone: for the blocks it changes nothing.
LEMMA GoneAgrees ==
  ASSUME EditorInv, NEW i \in DOMAIN flight, flight[i].state # "sent", NEW b
  PROVE  LET g == RemoveAt(flight, i)
         IN  /\ Silent(flight, b) => Silent(g, b)
             /\ \A html : Ends(flight, b, html) => Ends(g, b, html)
             /\ \A t, html : Born(ToSet(flight), t, b, html) => Born(ToSet(g), t, b, html)
             /\ \A t, html : Agreed(flight, held, t, b, html) => Agreed(g, held, t, b, html)
<1> DEFINE g == RemoveAt(flight, i)
           q == flight[i]
<1>1. IsSeq(flight) /\ ToSet(g) = Rest(flight, i) /\ ToSet(flight) = Rest(flight, i) \union {q}
  BY SetOfRest DEF EditorInv
<1>2. ~Updating(q, b) /\ ~Creating(q, b)
  BY DEF Updating, Creating
<1>3. /\ Silent(flight, b) => Silent(g, b)
      /\ \A html : Ends(flight, b, html) => Ends(g, b, html)
  BY <1>1, <1>2, RemovedEnds
<1> HIDE DEF g, q
<1>4. \A t, html : Born(ToSet(flight), t, b, html) => Born(ToSet(g), t, b, html)
  BY <1>1, <1>2 DEF Born
<1>5. \A t, html : Agreed(flight, held, t, b, html) => Agreed(g, held, t, b, html)
  BY <1>3, <1>4 DEF Agreed
<1> QED
  BY <1>3, <1>4, <1>5 DEF g

LEMMA GoneWaits ==
  ASSUME EditorInv, NEW i \in DOMAIN flight, flight[i].kind # "create", NEW H, Waits(ToSet(flight), H)
  PROVE  Waits(ToSet(RemoveAt(flight, i)), H)
<1>1. /\ ToSet(RemoveAt(flight, i)) = Rest(flight, i)
      /\ ToSet(flight) = Rest(flight, i) \union {flight[i]}
  BY SetOfRest DEF EditorInv
<1> QED
  BY <1>1 DEF Waits

LEMMA GoneRestores ==
  ASSUME EditorInv, Text, NEW i \in DOMAIN flight, UNCHANGED table,
         applying' = applying \/ Undoes(flight[i])
  PROVE  Restores(Rest(flight, i), table', applying'.inverse.row)
<1>1. CASE applying' = applying
  <2>1. \A q \in Rest(flight, i) : q \in ToSet(flight)
    BY DEF Rest, ToSet
  <2> QED
    BY <1>1, <2>1 DEF Text, Restores
<1>2. CASE Undoes(flight[i])
  <2>1. \A q \in Rest(flight, i) : ~Brings(q)
    BY <1>2, NoOtherUndo, OthersAre
  <2> QED
    BY <2>1 DEF Restores, Brings
<1> QED
  BY <1>1, <1>2

LEMMA SettledTells ==
  ASSUME EditorInv, Text, NEW i \in DOMAIN flight,
         flight[i].state # "sent", flight[i].kind # "create", Settled(i),
         UNCHANGED <<table, timers>>,
         saved' = [b \in Block |-> saved'[b]], Mirrors(store', shown'),
         applying' = applying \/ Undoes(flight[i]),
         \A b \in Ids(store') : SameAsBefore(b) \/ Agreed(flight', held', table', b, shown'[b])
  PROVE  Text'
<1>1. flight' = RemoveAt(flight, i) /\ held' = held
  BY DEF Settled
<1>2. Waits(ToSet(flight'), ToSet(held'))
  BY <1>1, GoneWaits DEF Text
<1>3. Restores(ToSet(flight'), table', applying'.inverse.row)
  <2>1. ToSet(flight') = Rest(flight, i)
    BY <1>1, SetOfRest DEF EditorInv
  <2> QED
    BY <2>1, GoneRestores
<1>4. ASSUME NEW b \in Ids(store')
      PROVE  Agreed(flight', held', table', b, shown'[b]) \/ (b \in timers' /\ shown'[b] # saved'[b])
  <2>1. CASE SameAsBefore(b)
    <3>1. Agreed(flight, held, table, b, shown[b]) \/ (b \in timers /\ shown[b] # saved[b])
      BY <2>1 DEF SameAsBefore, Text, Told
    <3>2. Agreed(flight, held, table, b, shown[b]) => Agreed(flight', held', table', b, shown[b])
      <4>1. PICK g : g = RemoveAt(flight, i)
        OBVIOUS
      <4>2. \A t, html : Agreed(flight, held, t, b, html) => Agreed(g, held, t, b, html)
        BY <4>1, GoneAgrees
      <4> QED
        BY <1>1, <4>1, <4>2
    <3> QED
      BY <2>1, <3>1, <3>2 DEF SameAsBefore
  <2> QED
    BY <1>4, <2>1
<1>5. Told(flight', held', table', Ids(store'), shown', saved', timers')
  BY <1>4 DEF Told
<1> QED
  BY <1>2, <1>3, <1>5 DEF Text

LEMMA CreatedTells ==
  ASSUME EditorInv, CalmInv, Orderly, Text, NEW i \in DOMAIN flight, Reply(i), Created(i)
  PROVE  Text'
<1> DEFINE q == flight[i]
           I == {j \in DOMAIN held : held[j].row.id = q.row.id}
           J == DOMAIN held \ I
           g == RemoveAt(flight, i)
           A == Picked(held, I)
           B == Picked(held, J)
<1>1. /\ UNCHANGED <<table, timers, store, shown, saved>> /\ q.kind = "create" /\ q.state = "done"
      /\ flight' = g \o A /\ held' = B
  BY DEF Reply, Created, Answered, Released
<1>2. applying' = applying
  BY RecordKeeps, ReplyIs DEF Created, Record, history
<1>3. /\ IsSeq(flight) /\ IsSeq(held) /\ IsSeq(g)
      /\ ToSet(g) = Rest(flight, i) /\ ToSet(flight) = Rest(flight, i) \union {q}
  BY IsSeqDomain, RemoveAtIs, SetOfRest DEF EditorInv
<1>4. I \subseteq DOMAIN held /\ J \subseteq DOMAIN held /\ DOMAIN held \ I = J /\ DOMAIN held \ J = I
  OBVIOUS
<1>5. IsSeq(A) /\ IsSeq(B) /\ ToSet(A) = {held[j] : j \in I} /\ ToSet(B) = {held[j] : j \in J}
  BY <1>3, <1>4, PickedIs, SetOfPicked, Zenon
<1>6. /\ \A j \in I : held[j].row.id = q.row.id /\ held[j] \in ToSet(held)
      /\ \A j \in J : held[j].row.id # q.row.id /\ held[j] \in ToSet(held)
  BY DEF ToSet
<1>7. ASSUME NEW b
      PROVE  /\ (\A j \in I : ~Updating(held[j], b)) =>
                   Silent(A, b) /\ \A html : Ends(held, b, html) => Ends(B, b, html)
             /\ (\A j \in J : ~Updating(held[j], b)) =>
                   Silent(B, b) /\ \A html : Ends(held, b, html) => Ends(A, b, html)
  <2>1. PICK a : a = A
    OBVIOUS
  <2>2. PICK c : c = B
    OBVIOUS
  <2>3. /\ (\A j \in I : ~Updating(held[j], b)) => Silent(a, b)
        /\ (\A j \in DOMAIN held \ I : ~Updating(held[j], b)) =>
              \A html : Ends(held, b, html) => Ends(a, b, html)
    <3> HIDE DEF I
    <3> QED
      BY <1>3, <1>4, <2>1, PickedEnds
  <2>4. /\ (\A j \in J : ~Updating(held[j], b)) => Silent(c, b)
        /\ (\A j \in DOMAIN held \ J : ~Updating(held[j], b)) =>
              \A html : Ends(held, b, html) => Ends(c, b, html)
    <3> HIDE DEF J
    <3> QED
      BY <1>3, <1>4, <2>2, PickedEnds
  <2> QED
    BY <1>4, <2>1, <2>2, <2>3, <2>4
<1> HIDE DEF A, B, I, J
<1>8. ASSUME NEW b
      PROVE  /\ Silent(flight, b) => Silent(g, b)
             /\ \A html : Ends(flight, b, html) => Ends(g, b, html)
             /\ \A t, html : Born(ToSet(flight), t, b, html) => Born(ToSet(g), t, b, html)
  BY <1>1, GoneAgrees
<1>9. PICK f2 : f2 = flight'
  OBVIOUS
<1>10. ASSUME NEW b
       PROVE  /\ Silent(g, b) /\ Silent(A, b) => Silent(f2, b)
              /\ \A html : Ends(A, b, html) => Ends(f2, b, html)
              /\ \A html : Ends(g, b, html) /\ Silent(A, b) => Ends(f2, b, html)
  <2> HIDE DEF g
  <2> QED
    BY <1>1, <1>3, <1>5, <1>9, CatEnds
<1>11. ToSet(f2) = ToSet(g) \union ToSet(A)
  BY <1>1, <1>3, <1>5, <1>9, SetOfCat
<1> HIDE DEF g
<1>12. ASSUME NEW b, NEW html, Agreed(flight, held, table, b, html)
       PROVE  Agreed(f2, B, table, b, html)
  <2>1. Born(ToSet(flight), table, b, html) => Born(ToSet(f2), table, b, html)
    <3>1. Born(ToSet(flight), table, b, html) => Born(ToSet(g), table, b, html)
      BY <1>8
    <3> QED
      BY <1>11, <3>1 DEF Born
  <2>2. CASE b = q.row.id
    <3>1. Silent(flight, b)
      <4>1. \A r \in ToSet(flight) : Writes(r) => r.row.id # b
        BY <1>1, <1>3, <2>2 DEF Orderly, InTurn
      <4> QED
        BY <4>1 DEF Silent, ToSet, Updating, Writes
    <3>2. \A j \in J : ~Updating(held[j], b)
      BY <1>6, <2>2 DEF Updating
    <3>3. ~Ends(flight, b, html)
      BY <3>1, EndsNot
    <3>4. Silent(held, b) => Silent(A, b)
      BY <1>3, <1>4, <1>6, PickedEnds DEF A, Silent
    <3> QED
      BY <1>7, <1>8, <1>10, <1>12, <2>1, <3>1, <3>2, <3>3, <3>4 DEF Agreed
  <2>3. CASE b # q.row.id
    <3>1. \A j \in I : ~Updating(held[j], b)
      BY <1>6, <2>3 DEF Updating
    <3>2. Silent(held, b) => Silent(B, b)
      BY <1>3, <1>4, <1>6, PickedEnds DEF B, Silent
    <3> QED
      BY <1>7, <1>8, <1>10, <1>12, <2>1, <3>1, <3>2 DEF Agreed
  <2> QED
    BY <2>2, <2>3
<1>13. Told(flight', held', table', Ids(store'), shown', saved', timers')
  BY <1>1, <1>9, <1>12 DEF Text, Told
<1>14. Waits(ToSet(flight'), ToSet(held'))
  <2>1. ASSUME NEW w \in ToSet(B) PROVE \E r \in ToSet(f2) : r.kind = "create" /\ r.row.id = w.row.id
    <3>1. w \in ToSet(held) /\ w.row.id # q.row.id
      BY <1>5, <1>6, <2>1
    <3>2. PICK r \in ToSet(flight) : r.kind = "create" /\ r.row.id = w.row.id
      BY <3>1 DEF Text, Waits
    <3> QED
      BY <1>3, <1>11, <3>1, <3>2
  <2> QED
    BY <1>1, <1>9, <2>1 DEF Waits
<1>15. Restores(ToSet(flight'), table', applying'.inverse.row)
  <2>1. Restores(Rest(flight, i), table', applying'.inverse.row)
    BY <1>1, <1>2, GoneRestores
  <2>2. \A w \in ToSet(A) : ~Brings(w)
    BY <1>5, <1>6 DEF Orderly, InTurn, Writes, Brings
  <2> QED
    BY <1>3, <1>9, <1>11, <2>1, <2>2 DEF Restores, Brings
<1> QED
  BY <1>1, <1>13, <1>14, <1>15 DEF Text

LEMMA UpdateFailedTells ==
  ASSUME EditorInv, CalmInv, Orderly, Text, NEW i \in DOMAIN flight, Reply(i), UpdateFailed(i)
  PROVE  Text'
<1> DEFINE r == flight[i]
<1>1. /\ r.kind = "update" /\ r.state = "refused" /\ Show(RolledBack(r)) /\ Settled(i)
      /\ UNCHANGED <<table, timers, applying>>
  BY DEF Reply, UpdateFailed, Answered, history
<1>2. r.row.id \notin Ids(store)
  <2>1. r \in ToSet(flight)
    BY DEF ToSet
  <2> QED
    BY <1>1, <2>1 DEF Orderly, InTurn
<1>3. RolledBack(r) = store
  <2>1. \A k \in DOMAIN store : store[k].id # r.row.id
    BY <1>2 DEF Ids
  <2>2. RolledBack(r) = [k \in DOMAIN store |-> store[k]]
    BY <2>1 DEF RolledBack
  <2>3. store = [k \in DOMAIN store |-> store[k]]
    BY IsSeqDomain DEF EditorInv, IsRows, IsSeq
  <2> QED
    BY <2>2, <2>3
<1>4. store' = store /\ shown' = shown /\ saved' = saved
  <2>1. Show(store)
    BY <1>1, <1>3
  <2>2. saved' = [b \in Block |-> IF b \in Ids(store) \ Ids(store) THEN RowIn(store, b).html ELSE saved[b]]
    BY <2>1 DEF Show, ShowFrom
  <2>3. saved' = [b \in Block |-> saved[b]]
    BY <2>2
  <2> QED
    BY <2>1, <2>3, ShowAgain DEF Text
<1> QED
  BY <1>1, <1>4, StoreShows, SettledTells

LEMMA DeletedTells ==
  ASSUME EditorInv, Text, NEW i \in DOMAIN flight, Reply(i), Deleted(i)
  PROVE  Text'
<1> DEFINE r == flight[i]
<1>1. /\ r.kind = "delete" /\ r.state = "done" /\ Settled(i)
      /\ UNCHANGED <<table, timers, store, shown, saved>>
  BY DEF Reply, Deleted, Answered
<1>2. applying' = applying \/ Undoes(r)
  BY DEF Deleted, Record, history, Undoes
<1> QED
  BY <1>1, <1>2, StoreShows, SettledTells

\* These rows have contents the store has, and maybe one more.
TakesOver(rows, row) ==
  \A k \in DOMAIN rows : \/ <<rows[k].id, rows[k].html>> \in Contents(store)
                         \/ /\ <<rows[k].id, rows[k].html>> = <<row.id, row.html>>
                            /\ row.id \in Block /\ row.id \notin Ids(store)

\* The editors, after a listing: the focused one as it was.
Taken(rows) ==
  [b \in Block |-> IF b \in Ids(rows) /\ b # caret THEN RowIn(rows, b).html ELSE shown[b]]

LEMMA TakenFits ==
  ASSUME CalmInv, Orderly, NEW rows, NEW row,
         \A k \in DOMAIN rows :
           \/ rows[k].id \in Ids(store) /\ rows[k].html = shown[rows[k].id]
           \/ /\ rows[k].id = row.id /\ rows[k].html = row.html
              /\ row.id \in Block /\ row.id \notin Ids(store)
  PROVE  /\ Fits(rows, Taken(rows), row.html)
         /\ \A b \in Ids(rows) \intersect Ids(store) : Taken(rows)[b] = shown[b]
<1>1. ASSUME NEW b \in Ids(rows) \intersect Ids(store) PROVE Taken(rows)[b] = shown[b]
  <2>1. PICK k \in DOMAIN rows : rows[k].id = b /\ RowIn(rows, b) = rows[k]
    BY RowOf
  <2>2. b \in Block /\ RowIn(rows, b).html = shown[b]
    BY <2>1, IdsAreBlocks
  <2> QED
    BY <2>2 DEF Taken
<1>2. \A k \in DOMAIN rows : rows[k].id \in Ids(rows)
  BY DEF Ids
<1> QED
  BY <1>1, <1>2 DEF Fits

LEMMA AdoptTells ==
  ASSUME EditorInv, CalmInv, Orderly, Text, NEW rows, Adopt(rows), UNCHANGED timers,
         NEW row, TakesOver(rows, row)
  PROVE  /\ saved' = [b \in Block |-> saved'[b]] /\ Mirrors(store', shown')
         /\ \A b \in Ids(store') : SameAsBefore(b) \/ (b = row.id /\ shown'[b] = row.html)
<1> DEFINE display == Taken(rows)
<1>1. ShowFrom(rows, display, saved, caret)
  BY DEF Adopt, Taken
<1>2. \A c \in Contents(store) : c[1] \in Ids(store) /\ c[2] = shown[c[1]]
  BY DEF Contents, Ids, Text, Mirrors
<1>3. ASSUME NEW k \in DOMAIN rows
      PROVE  \/ rows[k].id \in Ids(store) /\ rows[k].html = shown[rows[k].id]
             \/ rows[k].id = row.id /\ rows[k].html = row.html /\ row.id \in Block /\ row.id \notin Ids(store)
  <2>1. PICK c : c = <<rows[k].id, rows[k].html>>
    OBVIOUS
  <2>2. c[1] = rows[k].id /\ c[2] = rows[k].html
    BY <2>1
  <2>3. c \in Contents(store) \/ (c = <<row.id, row.html>> /\ row.id \in Block /\ row.id \notin Ids(store))
    BY <2>1 DEF TakesOver
  <2> QED
    BY <1>2, <2>2, <2>3
<1>4. Fits(rows, display, row.html) /\ \A b \in Ids(rows) \intersect Ids(store) : display[b] = shown[b]
  BY <1>3, TakenFits
<1>5. Ids(rows) \subseteq Block /\ \A b \in Ids(rows) : b \in Ids(store) \/ b = row.id
  BY <1>3, IdsAreBlocks DEF Ids
<1>6. /\ store' = rows /\ Mirrors(rows, shown') /\ saved' = [b \in Block |-> saved'[b]]
      /\ \A b \in Ids(rows) \intersect Ids(store) : shown'[b] = display[b] /\ saved'[b] = saved[b]
  BY <1>1, <1>4, <1>5, FitsShow
<1>7. ASSUME NEW b \in Ids(rows) PROVE SameAsBefore(b) \/ (b = row.id /\ shown'[b] = row.html)
  <2>1. CASE b \in Ids(store)
    BY <1>4, <1>6, <1>7, <2>1 DEF SameAsBefore
  <2>2. CASE b \notin Ids(store)
    <3>1. PICK k \in DOMAIN rows : rows[k].id = b
      BY <1>7 DEF Ids
    <3>2. rows[k].html = row.html /\ b = row.id
      BY <1>3, <2>2, <3>1
    <3> QED
      BY <1>6, <3>1, <3>2 DEF Mirrors
  <2> QED
    BY <2>1, <2>2
<1> QED
  BY <1>6, <1>7

LEMMA ReorderAnsweredTells ==
  ASSUME EditorInv, CalmInv, Orderly, Text, NEW i \in DOMAIN flight, Reply(i), ReorderAnswered(i), ~misread'
  PROVE  Text'
<1> DEFINE r == flight[i]
<1>1. /\ r.kind = "reorder" /\ r.state # "sent" /\ Settled(i) /\ UNCHANGED <<table, timers>>
      /\ ~ReplacesMore(r)
  BY DEF Reply, ReorderAnswered
<1>2. applying' = applying \/ Undoes(r)
  BY DEF ReorderAnswered, Record, history, Undoes
<1>3. CASE r.state = "done"
  <2>1. Adopt(r.rows)
    BY <1>3 DEF ReorderAnswered
  <2>2. Contents(r.rows) = Contents(store)
    BY <1>1, <1>3 DEF ReplacesMore, Listing
  <2>3. \A k \in DOMAIN r.rows : <<r.rows[k].id, r.rows[k].html>> \in Contents(store)
    BY <2>2 DEF Contents
  <2>4. PICK row : row.id \notin Block
    <3>1. [id |-> CHOOSE x : x \notin Block].id \notin Block
      BY NoSetContainsEverything
    <3> QED
      BY <3>1
  <2>5. PICK rows : rows = r.rows
    OBVIOUS
  <2>9. TakesOver(rows, row)
    BY <2>3, <2>5 DEF TakesOver
  <2>10. Adopt(rows) /\ UNCHANGED timers
    BY <1>1, <2>1, <2>5
  <2>6. /\ saved' = [b \in Block |-> saved'[b]] /\ Mirrors(store', shown')
        /\ \A b \in Ids(store') : SameAsBefore(b) \/ (b = row.id /\ shown'[b] = row.html)
    BY <2>9, <2>10, AdoptTells
  <2>7. Ids(store') \subseteq Ids(store)
    <3>1. store' = r.rows
      BY <2>1 DEF Adopt, ShowFrom
    <3>2. \A b \in Ids(r.rows) : b \in Ids(store)
      BY <2>2, ContentsTell
    <3> QED
      BY <3>1, <3>2
  <2>8. \A b \in Ids(store') : SameAsBefore(b)
    BY <2>4, <2>6, <2>7, IdsAreBlocks
  <2> QED
    BY <1>1, <1>2, <2>6, <2>8, SettledTells
<1>4. CASE r.state # "done"
  <2>1. UNCHANGED <<store, shown, saved>>
    BY <1>4 DEF ReorderAnswered
  <2> QED
    BY <1>1, <1>2, <2>1, StoreShows, SettledTells
<1> QED
  BY <1>3, <1>4

LEMMA RelistedTells ==
  ASSUME EditorInv, CalmInv, Orderly, Text, NEW i \in DOMAIN flight, Reply(i), Relisted(i), ~misread'
  PROVE  Text'
<1> DEFINE r == flight[i]
           row == applying.inverse.row
<1>1. /\ r.kind = "relist" /\ r.state = "done" /\ Settled(i) /\ UNCHANGED <<table, timers>>
      /\ ~ReplacesMore(r) /\ Adopt(r.rows)
  BY DEF Reply, Relisted, Answered
<1>2. Brings(r) /\ Undoes(r) /\ Back = row.id /\ r \in ToSet(flight)
  BY <1>1, SentOnTheWire DEF OfUndo, Brings, Back
<1>3. Back \in 1..made /\ Back \notin Ids(store) /\ \A p \in DOMAIN UnderWay : Writes(UnderWay[p]) => UnderWay[p].row.id # Back
  <2>1. <<1, i>> \in DOMAIN UnderWay /\ UnderWay[<<1, i>>] = r
    BY SentOnTheWire
  <2> HIDE DEF r
  <2> QED
    BY <1>2, <2>1 DEF Orderly, Undisturbed
<1>4. row.id \in Block /\ row.id \notin Ids(store)
  BY <1>2, <1>3 DEF CalmInv
<1>5. Silent(flight, Back) /\ Silent(held, Back)
  <2>1. ASSUME NEW j \in DOMAIN flight PROVE ~Updating(flight[j], Back)
    <3>1. <<1, j>> \in DOMAIN UnderWay /\ UnderWay[<<1, j>>] = flight[j]
      BY SentOnTheWire
    <3> QED
      BY <1>3, <3>1 DEF Updating, Writes
  <2>2. ASSUME NEW j \in DOMAIN held PROVE ~Updating(held[j], Back)
    <3>1. <<2, j>> \in DOMAIN UnderWay /\ UnderWay[<<2, j>>] = held[j]
      BY DEF UnderWay, Beside
    <3> QED
      BY <1>3, <3>1 DEF Updating, Writes
  <2> QED
    BY <2>1, <2>2 DEF Silent
<1>6. Back \in DOMAIN table /\ table[Back].html = row.html
  BY <1>1, <1>2 DEF Text, Restores
<1>7. Agreed(flight', held', table', Back, row.html)
  <2>1. PICK g : g = RemoveAt(flight, i)
    OBVIOUS
  <2>2. Silent(g, Back)
    BY <1>1, <1>5, <2>1, GoneAgrees
  <2>3. flight' = g /\ held' = held /\ table' = table
    BY <1>1, <2>1 DEF Settled
  <2> QED
    BY <1>5, <1>6, <2>2, <2>3 DEF Agreed, Born
<1>8. \A k \in DOMAIN r.rows : \/ <<r.rows[k].id, r.rows[k].html>> \in Contents(store)
                               \/ <<r.rows[k].id, r.rows[k].html>> = <<row.id, row.html>>
  <2> DEFINE again == <<row>>
  <2>1. Contents(r.rows) = Contents(store) \union Contents(again)
    BY <1>1 DEF ReplacesMore, Listing
  <2>2. DOMAIN again = {1} /\ again[1] = row
    OBVIOUS
  <2> HIDE DEF again, row
  <2>3. Contents(again) = {<<row.id, row.html>>}
    BY <2>2 DEF Contents
  <2>4. \A k \in DOMAIN r.rows : <<r.rows[k].id, r.rows[k].html>> \in Contents(r.rows)
    BY DEF Contents
  <2> QED
    BY <2>1, <2>3, <2>4
<1>9. PICK rows : rows = r.rows
  OBVIOUS
<1>10. PICK w : w = row
  OBVIOUS
<1>11. TakesOver(rows, w)
  BY <1>4, <1>8, <1>9, <1>10 DEF TakesOver
<1>14. Adopt(rows) /\ UNCHANGED timers
  BY <1>1, <1>9
<1>12. /\ saved' = [b \in Block |-> saved'[b]] /\ Mirrors(store', shown')
       /\ \A b \in Ids(store') : SameAsBefore(b) \/ (b = w.id /\ shown'[b] = w.html)
  BY <1>11, <1>14, AdoptTells
<1>13. \A b \in Ids(store') : SameAsBefore(b) \/ Agreed(flight', held', table', b, shown'[b])
  BY <1>2, <1>7, <1>10, <1>12
<1> QED
  BY <1>1, <1>2, <1>12, <1>13, SettledTells

LEMMA RecreatedTells ==
  ASSUME EditorInv, CalmInv, Orderly, Text, NEW i \in DOMAIN flight, Reply(i), Recreated(i)
  PROVE  Text'
<1> DEFINE q == flight[i]
           r == Relisting(i)
           R == <<r>>
           g == RemoveAt(flight, i)
<1>1. /\ q.kind = "recreate" /\ q.state = "done"
      /\ UNCHANGED <<table, timers, store, shown, saved, held, applying>>
  BY DEF Reply, Recreated, Answered, history
<1>2. IsSeq(g) /\ IsSeq(R) /\ flight' = g \o R
  BY RecreatedIs, Zenon
<1>3. r.kind = "relist"
  BY DEF Relisting, Request
<1>4. \A b : Silent(R, b)
  BY <1>3, OneEnds DEF Updating
<1>5. ToSet(R) = {r}
  BY OneIs DEF ToSet
<1> HIDE DEF R, r
<1>6. /\ ToSet(g) = Rest(flight, i) /\ ToSet(flight) = Rest(flight, i) \union {q}
      /\ ToSet(flight') = ToSet(g) \union {r}
  BY <1>2, <1>5, SetOfRest, SetOfCat DEF EditorInv
<1>7. PICK f2 : f2 = flight'
  OBVIOUS
<1>8. ASSUME NEW b, NEW html, Agreed(flight, held, table, b, html) PROVE Agreed(f2, held, table, b, html)
  <2>1. Agreed(g, held, table, b, html)
    BY <1>1, <1>8, GoneAgrees
  <2> HIDE DEF g
  <2>2. /\ Silent(g, b) => Silent(f2, b)
        /\ Ends(g, b, html) => Ends(f2, b, html)
    BY <1>2, <1>4, <1>7, CatEnds
  <2>3. Born(ToSet(g), table, b, html) => Born(ToSet(f2), table, b, html)
    BY <1>6, <1>7 DEF Born
  <2> QED
    BY <2>1, <2>2, <2>3 DEF Agreed
<1>9. Told(flight', held', table', Ids(store'), shown', saved', timers')
  BY <1>1, <1>7, <1>8 DEF Text, Told
<1>10. Waits(ToSet(flight'), ToSet(held'))
  <2>1. Waits(ToSet(g), ToSet(held))
    BY <1>1, GoneWaits DEF Text
  <2> QED
    BY <1>1, <1>6, <2>1 DEF Waits
<1>11. Restores(ToSet(flight'), table', applying'.inverse.row)
  <2>1. Restores(ToSet(flight), table, applying.inverse.row)
    BY DEF Text
  <2>2. q \in ToSet(flight) /\ Brings(q)
    BY <1>1 DEF ToSet, Brings
  <2>3. Back \in DOMAIN table /\ table[Back].html = applying.inverse.row.html
    BY <1>1, <2>1, <2>2 DEF Restores, Back
  <2> QED
    BY <1>1, <1>3, <1>6, <2>1, <2>3 DEF Restores, Back
<1> QED
  BY <1>1, <1>9, <1>10, <1>11 DEF Text

LEMMA ReplyTells ==
  ASSUME EditorInv, CalmInv, Orderly, Text, NEW i \in DOMAIN flight, Reply(i), ~misread'
  PROVE  Text'
<1>1. flight[i] \in ToSet(flight)
  BY DEF ToSet
<1>2. ~CreateFailed(i) /\ ~DeleteFailed(i) /\ ~UndoFailed(i)
  BY <1>1 DEF CreateFailed, DeleteFailed, UndoFailed, Answered, Orderly, InTurn, Creates, Reply
<1> QED
  BY <1>2, CreatedTells, UpdateFailedTells, DeletedTells, ReorderAnsweredTells,
     RecreatedTells, RelistedTells DEF Reply

\* The marks stay.
LEMMA RestructureMarks ==
  ASSUME Restructure
  PROVE  /\ UNCHANGED <<refused, overtaken, misread, tangled, returned>>
         /\ uncut' = uncut \/ (uncut' /\ \E b, k : ModEnter(b, k))
<1>1. ASSUME NEW b, NEW k, Enter(b, k) \/ ModEnter(b, k)
      PROVE  /\ UNCHANGED <<refused, overtaken, misread, tangled, returned>>
             /\ uncut' = uncut \/ (uncut' /\ ModEnter(b, k))
  BY <1>1 DEF Enter, ModEnter, SplitBlock
<1>2. ASSUME NEW b, InsertBlockAfter(b) PROVE UNCHANGED marks
  BY <1>2 DEF InsertBlockAfter, CreateLocally
<1>3. ASSUME NEW i, Backspace(i) \/ ForwardDelete(i) PROVE UNCHANGED marks
  BY <1>3 DEF Backspace, ForwardDelete, MergeBlocks
<1> QED
  BY <1>1, <1>2, <1>3 DEF Restructure, marks

LEMMA CleanBefore ==
  ASSUME [EditorNext]_editorVars, Clean'
  PROVE  Clean
<1>1. ASSUME NEW b, Type(b) \/ MakeList(b)
      PROVE  Clean
  <2>1. PICK html : Edit(b, html)
    BY <1>1 DEF Type, MakeList
  <2>2. UNCHANGED <<refused, overtaken, misread, uncut>> /\ returned' = (returned \/ html = saved[b])
    BY <2>1 DEF Edit
  <2> QED
    BY <2>2, Zenon DEF Clean
<1>2. CASE Blur \/ (\E b : Click(b)) \/ UNCHANGED editorVars \/ \E i : MoveBlock(i)
  <2>1. UNCHANGED marks
    BY <1>2 DEF Blur, Click, MoveBlock, editorVars
  <2> QED
    BY <2>1 DEF marks, Clean
<1>3. CASE Restructure
  BY <1>3, RestructureMarks DEF Clean
<1>4. ASSUME NEW i, Serve(i) \/ Refuse(i) \/ Reply(i)
      PROVE  Clean
  <2>1. CASE Serve(i)
    <3>1. UNCHANGED <<refused, misread, returned, uncut>> /\ overtaken' = (overtaken \/ Overtakes(i))
      BY <2>1 DEF Serve
    <3> QED
      BY <3>1, Zenon DEF Clean
  <2>2. CASE Refuse(i)
    <3>1. refused' = TRUE
      BY <2>2 DEF Refuse
    <3> QED
      BY <3>1 DEF Clean
  <2>3. CASE Reply(i)
    <3>1. /\ UNCHANGED <<refused, returned, uncut>> /\ overtaken' = (overtaken \/ AnswerOvertakes(i))
          /\ misread' = (misread \/ ReplacesMore(flight[i]) \/ Answered(i, "relist", "refused"))
      BY <2>3 DEF Reply
    <3> QED
      BY <3>1, Zenon DEF Clean
  <2> QED
    BY <1>4, <2>1, <2>2, <2>3
<1>5. ASSUME NEW b, TimerFires(b) \/ LeaveList(b) \/ DuplicateBlock(b) \/ RemoveBlock(b)
      PROVE  Clean
  <2>1. UNCHANGED marks
    BY <1>5 DEF TimerFires, LeaveList, DuplicateBlock, CreateLocally, RemoveBlock
  <2> QED
    BY <2>1 DEF marks, Clean
<1>6. CASE Undo \/ Redo
  BY <1>6 DEF Undo, Redo, Apply, Clean
<1> QED
  BY <1>1, <1>2, <1>3, <1>4, <1>5, <1>6 DEF EditorNext, Saving

LEMMA TextStep ==
  ASSUME EditorInv, CalmInv, TextInv, [EditorNext]_editorVars
  PROVE  TextInv'
<1> SUFFICES ASSUME Clean' PROVE Text'
  BY DEF TextInv
<1>0. Clean
  BY CleanBefore
<1>c. Text /\ Orderly /\ ~refused' /\ ~misread' /\ ~overtaken' /\ ~returned' /\ ~uncut'
  BY <1>0, CleanIsOrderly DEF TextInv, Clean
<1>1. ASSUME NEW b, Type(b) \/ MakeList(b)
      PROVE  Text'
  <2>1. PICK html : b \in Ids(store) /\ Edit(b, html)
    BY <1>1 DEF Type, MakeList, At
  <2> QED
    BY <1>c, <2>1, EditTells
<1>2. CASE Blur \/ (\E b \in Block : Click(b)) \/ UNCHANGED editorVars
  <2>1. UNCHANGED <<table, store, shown, saved, timers, flight, held, applying>>
    BY <1>2 DEF Blur, Click, editorVars, screen, history
  <2> QED
    BY <1>c, <2>1 DEF Text, Told, Agreed, Born
<1>4. CASE Restructure
  <2>1. CASE \E b \in Block, k \in 0..typed : Enter(b, k) \/ ModEnter(b, k)
    BY <1>c, <2>1, EnterTells DEF ModEnter
  <2>2. CASE \E b \in Block : InsertBlockAfter(b)
    BY <1>c, <2>2, CreationTells
  <2>3. CASE \E i \in DOMAIN store : Backspace(i) \/ ForwardDelete(i)
    BY <1>c, <2>3, BackspaceTells
  <2> QED
    BY <1>4, <2>1, <2>2, <2>3 DEF Restructure
<1>5. CASE Saving
  <2>1. ASSUME NEW i \in DOMAIN flight, Serve(i)
        PROVE  Text'
    BY <1>c, <2>1, ServeTells
  <2>2. ASSUME NEW i \in DOMAIN flight, Reply(i)
        PROVE  Text'
    BY <1>c, <2>2, ReplyTells
  <2>3. ASSUME NEW i \in DOMAIN flight, Refuse(i)
        PROVE  Text'
    BY <1>c, <2>3 DEF Refuse
  <2>4. CASE \E b \in Block : TimerFires(b)
    BY <1>c, <2>4, TimerTells
  <2> QED
    BY <1>5, <2>1, <2>2, <2>3, <2>4 DEF Saving
<1>6. ASSUME NEW b \in Block, LeaveList(b) \/ DuplicateBlock(b) \/ RemoveBlock(b)
      PROVE  Text'
  BY <1>c, <1>6, LeaveListTells, CreationTells, RemoveTells
<1>7. ASSUME NEW i \in DOMAIN store, MoveBlock(i)
      PROVE  Text'
  BY <1>c, <1>7, MoveTells
<1> QED
  BY <1>1, <1>2, <1>4, <1>5, <1>6, <1>7, <1>c, UndoTells DEF EditorNext

\* With nothing under way, every block's text is the server's.
LEMMA QuietTextIsSaved ==
  ASSUME Text, Quiet
  PROVE  /\ \A b \in Ids(store) : b \in DOMAIN table /\ table[b].html = shown[b]
         /\ \A b \in Ids(store) : RowIn(store, b).html = shown[b]
<1>1. flight = <<>> /\ held = <<>> /\ timers = {}
  BY DEF Quiet
<1>2. ToSet(flight) = {} /\ \A b, html : ~Ends(flight, b, html) /\ ~Ends(held, b, html)
  BY <1>1 DEF ToSet, Ends
<1>3. ASSUME NEW b \in Ids(store) PROVE b \in DOMAIN table /\ table[b].html = shown[b]
  <2>1. Agreed(flight, held, table, b, shown[b])
    BY <1>1, <1>3 DEF Text, Told
  <2> QED
    BY <1>2, <2>1 DEF Agreed, Born
<1>4. ASSUME NEW b \in Ids(store) PROVE RowIn(store, b).html = shown[b]
  BY <1>4, RowOf DEF Text, Mirrors
<1> QED
  BY <1>3, <1>4

-----------------------------------------------------------------------------
(* The order of the blocks: the requests that change it are served in the  *)
(* order they were sent, and a listing that none follows is as the server  *)
(* has it.                                                                 *)

Restructures(r) == r.kind \in Structural
Lists(r) == r.kind \in Listing /\ r.state = "done"

\* What was sent before a request that is served is served as well.
ServedInOrder(f) ==
  \A i, j \in DOMAIN f : j < i /\ Restructures(f[i]) /\ Restructures(f[j]) /\ f[i].state = "done"
                           => f[j].state # "sent"
\* Creations are sent in the order of their ids.
CreatedInOrder(f) ==
  \A i, j \in DOMAIN f : j < i /\ f[i].kind = "create" /\ f[j].kind = "create"
                           => f[j].row.id < f[i].row.id

\* These rows are in the table's order.
RowsMatch(rows, t) ==
  /\ \A k, l \in DOMAIN rows : rows[k].id = rows[l].id => k = l
  /\ \A k \in DOMAIN rows : rows[k].id \in DOMAIN t => rows[k].index = t[rows[k].id].index
  /\ \A k, l \in DOMAIN rows : k < l /\ rows[k].id \in DOMAIN t /\ rows[l].id \in DOMAIN t
                                 => Above(t, rows[k].id, rows[l].id)
LastToRestructure(f, i) == \A j \in DOMAIN f : i < j => ~Restructures(f[j])
ListsMatch(f, t) ==
  \A i \in DOMAIN f : Lists(f[i]) /\ LastToRestructure(f, i) => RowsMatch(f[i].rows, t)

NoneRefused(f) == \A i \in DOMAIN f : Restructures(f[i]) => f[i].state # "refused"

Lined(f, t) == NoneRefused(f) /\ ServedInOrder(f) /\ CreatedInOrder(f) /\ ListsMatch(f, t)

\* Blocks go, none moves.
StaysPut(u, t) ==
  \A b \in DOMAIN u : b \in DOMAIN t /\ u[b].index = t[b].index /\ u[b].rowid = t[b].rowid

LEMMA RowsStillMatch ==
  ASSUME NEW t, NEW u, StaysPut(u, t), NEW rows, RowsMatch(rows, t)
  PROVE  RowsMatch(rows, u)
<1>1. \A b, c \in DOMAIN u : Above(t, b, c) => Above(u, b, c)
  BY DEF StaysPut, Above
<1>2. \A k \in DOMAIN rows : rows[k].id \in DOMAIN u => rows[k].id \in DOMAIN t /\ u[rows[k].id].index = t[rows[k].id].index
  BY DEF StaysPut
<1> QED
  BY <1>1, <1>2 DEF RowsMatch

\* The requests of g that change the order are those of f, but perhaps for the
\* first of them.
Carries(e, g, f) ==
  /\ \A k \in DOMAIN g : Restructures(g[k]) => e[k] \in DOMAIN f /\ f[e[k]] = g[k]
  /\ \A k, l \in DOMAIN g : Restructures(g[k]) /\ Restructures(g[l]) /\ k < l => e[k] < e[l]
  /\ \A j \in DOMAIN f : Restructures(f[j]) =>
       \/ \E k \in DOMAIN g : Restructures(g[k]) /\ e[k] = j
       \/ \A i \in DOMAIN f : i < j => ~Restructures(f[i])

LEMMA ListsRestructure ==
  ASSUME NEW r, r.kind \in Listing \/ r.kind = "create"
  PROVE  Restructures(r)
  BY DEF Listing, Restructures, Structural

LEMMA CarriedLines ==
  ASSUME NEW f, DOMAIN f \subseteq Int, NEW g, DOMAIN g \subseteq Int, NEW e, Carries(e, g, f),
         NEW t, NEW u, StaysPut(u, t), Lined(f, t)
  PROVE  Lined(g, u)
<1>0. NoneRefused(g)
  BY DEF Lined, NoneRefused, Carries
<1>1. ServedInOrder(g)
  BY DEF Lined, ServedInOrder, Carries
<1>2. CreatedInOrder(g)
  <2> SUFFICES ASSUME NEW i \in DOMAIN g, NEW j \in DOMAIN g, j < i, g[i].kind = "create", g[j].kind = "create"
               PROVE  g[j].row.id < g[i].row.id
    BY DEF CreatedInOrder
  <2>1. Restructures(g[i]) /\ Restructures(g[j])
    BY ListsRestructure
  <2> QED
    BY <2>1 DEF Lined, CreatedInOrder, Carries
<1>3. ListsMatch(g, u)
  <2> SUFFICES ASSUME NEW k \in DOMAIN g, Lists(g[k]), LastToRestructure(g, k)
               PROVE  RowsMatch(g[k].rows, u)
    BY DEF ListsMatch
  <2>1. Restructures(g[k])
    BY ListsRestructure DEF Lists
  <2>2. e[k] \in DOMAIN f /\ f[e[k]] = g[k]
    BY <2>1 DEF Carries
  <2>3. ASSUME NEW j \in DOMAIN f, e[k] < j, Restructures(f[j]) PROVE FALSE
    <3>1. PICK l \in DOMAIN g : Restructures(g[l]) /\ e[l] = j
      BY <2>1, <2>2, <2>3 DEF Carries
    <3>2. CASE k < l
      BY <3>1, <3>2 DEF LastToRestructure
    <3>3. CASE k = l
      BY <2>2, <2>3, <3>1, <3>3
    <3>4. CASE l < k
      <4>1. e[l] < e[k]
        BY <2>1, <3>1, <3>4 DEF Carries
      <4> QED
        BY <2>2, <2>3, <3>1, <4>1
    <3> QED
      BY <3>2, <3>3, <3>4
  <2>4. RowsMatch(g[k].rows, t)
    BY <2>2, <2>3 DEF Lined, ListsMatch, LastToRestructure
  <2> QED
    BY <2>4, RowsStillMatch
<1> QED
  BY <1>0, <1>1, <1>2, <1>3 DEF Lined

\* A request leaves the wire, of those that change the order the first.
LEMMA RemovedLines ==
  ASSUME NEW f, IsSeq(f), NEW i \in DOMAIN f,
         Restructures(f[i]) => \A j \in DOMAIN f : j < i => ~Restructures(f[j]),
         NEW t, NEW u, StaysPut(u, t), Lined(f, t)
  PROVE  Lined(RemoveAt(f, i), u)
<1> DEFINE g == RemoveAt(f, i)
           n == Len(f)
           e == [k \in 1..n |-> IF k < i THEN k ELSE k + 1]
<1>1. n \in Nat /\ DOMAIN f = 1..n /\ i \in 1..n
  BY IsSeqDomain
<1>2. DOMAIN g = 1..n - 1 /\ \A j \in 1..n - 1 : g[j] = IF j < i THEN f[j] ELSE f[j + 1]
  BY <1>1, RemoveAtIs, IsSeqDomain
<1>3. \A k \in 1..n - 1 : e[k] = IF k < i THEN k ELSE k + 1
  BY <1>1
<1> HIDE DEF g, n, e
<1>4. \A k \in DOMAIN g : e[k] \in DOMAIN f /\ f[e[k]] = g[k]
  BY <1>1, <1>2, <1>3
<1>5. \A k, l \in DOMAIN g : k < l => e[k] < e[l]
  BY <1>1, <1>2, <1>3
<1>6. ASSUME NEW j \in DOMAIN f, j # i PROVE \E k \in DOMAIN g : e[k] = j
  <2>1. PICK k : k = IF j < i THEN j ELSE j - 1
    OBVIOUS
  <2>2. k \in 1..n - 1 /\ e[k] = j
    BY <1>1, <1>3, <1>6, <2>1
  <2> QED
    BY <1>2, <2>2
<1>7. ASSUME NEW j \in DOMAIN f, Restructures(f[j])
      PROVE  \/ \E k \in DOMAIN g : Restructures(g[k]) /\ e[k] = j
             \/ \A l \in DOMAIN f : l < j => ~Restructures(f[l])
  BY <1>4, <1>6, <1>7
<1>8. Carries(e, g, f)
  BY <1>4, <1>5, <1>7 DEF Carries
<1> QED
  BY <1>1, <1>2, <1>8, CarriedLines DEF g

\* A request that changes no order is answered.
LEMMA AnsweredLines ==
  ASSUME NEW f, IsSeq(f), NEW i \in DOMAIN f, NEW g, DOMAIN g = DOMAIN f,
         \A j \in DOMAIN f : j # i => g[j] = f[j],
         ~Restructures(f[i]), ~Restructures(g[i]),
         NEW t, NEW u, StaysPut(u, t), Lined(f, t)
  PROVE  Lined(g, u)
<1> DEFINE e == [k \in DOMAIN f |-> k]
<1>1. DOMAIN f \subseteq Int
  BY IsSeqDomain
<1>2. \A k \in DOMAIN f : e[k] = k
  OBVIOUS
<1> HIDE DEF e
<1>3. Carries(e, g, f)
  BY <1>1, <1>2 DEF Carries
<1> QED
  BY <1>1, <1>3, CarriedLines

\* Requests join at the end, at most one of which changes the order.
JoinsLast(A, n) ==
  /\ \A p, q \in DOMAIN A : Restructures(A[p]) /\ Restructures(A[q]) => p = q
  /\ \A p \in DOMAIN A : Restructures(A[p]) => A[p].state = "sent"
  /\ \A p \in DOMAIN A : A[p].kind = "create" => A[p].row.id = n + 1
CreatedUpTo(f, n) == \A i \in DOMAIN f : f[i].kind = "create" => f[i].row.id \in 1..n

LEMMA JoinedLines ==
  ASSUME NEW f, IsSeq(f), NEW A, IsSeq(A), NEW n \in Nat, JoinsLast(A, n), CreatedUpTo(f, n),
         NEW t, Lined(f, t)
  PROVE  Lined(f \o A, t)
<1> DEFINE u == f \o A
           m == Len(f)
           l == Len(A)
<1>1. m \in Nat /\ l \in Nat /\ DOMAIN f = 1..m /\ DOMAIN A = 1..l
  BY IsSeqDomain
<1>2. DOMAIN u = 1..m + l /\ \A i \in 1..m + l : u[i] = IF i <= m THEN f[i] ELSE A[i - m]
  BY CatIs, IsSeqDomain
<1> HIDE DEF u, m, l
<1>3. \A i \in 1..m + l : i \in 1..m \/ (m < i /\ i - m \in 1..l /\ u[i] = A[i - m])
  BY <1>1, <1>2
<1>4. \A i \in 1..m : i \in 1..m + l /\ u[i] = f[i]
  BY <1>1, <1>2
<1>5. \A i, j \in 1..m + l : i <= m /\ j < i => j \in 1..m
  BY <1>1
<1>0. NoneRefused(u)
  <2> SUFFICES ASSUME NEW i \in 1..m + l, Restructures(u[i]) PROVE u[i].state # "refused"
    BY <1>2 DEF NoneRefused
  <2>1. CASE i \in 1..m
    BY <1>1, <1>4, <2>1 DEF Lined, NoneRefused
  <2>2. CASE m < i /\ i - m \in 1..l /\ u[i] = A[i - m]
    BY <1>1, <2>2 DEF JoinsLast
  <2> QED
    BY <1>3, <2>1, <2>2
<1>6. ServedInOrder(u)
  <2> SUFFICES ASSUME NEW i \in 1..m + l, NEW j \in 1..m + l, j < i, Restructures(u[i]), Restructures(u[j]),
                      u[i].state = "done"
               PROVE  u[j].state # "sent"
    BY <1>2 DEF ServedInOrder
  <2>1. i \in 1..m
    BY <1>1, <1>3 DEF JoinsLast
  <2>2. j \in 1..m
    BY <1>1, <2>1
  <2> QED
    BY <1>1, <1>4, <2>1, <2>2 DEF Lined, ServedInOrder
<1>7. CreatedInOrder(u)
  <2> SUFFICES ASSUME NEW i \in 1..m + l, NEW j \in 1..m + l, j < i, u[i].kind = "create", u[j].kind = "create"
               PROVE  u[j].row.id < u[i].row.id
    BY <1>2 DEF CreatedInOrder
  <2>1. CASE i \in 1..m
    <3>1. j \in 1..m
      BY <1>1, <2>1
    <3> QED
      BY <1>1, <1>4, <2>1, <3>1 DEF Lined, CreatedInOrder
  <2>2. CASE m < i /\ i - m \in 1..l /\ u[i] = A[i - m]
    <3>1. u[i].row.id = n + 1
      BY <1>1, <2>2 DEF JoinsLast
    <3>2. CASE j \in 1..m
      <4>1. u[j].row.id \in 1..n
        BY <1>1, <1>4, <3>2 DEF CreatedUpTo
      <4> QED
        BY <3>1, <4>1
    <3>3. CASE m < j /\ j - m \in 1..l /\ u[j] = A[j - m]
      <4>1. Restructures(A[i - m]) /\ Restructures(A[j - m])
        BY <2>2, <3>3, ListsRestructure
      <4>2. i - m = j - m
        BY <1>1, <2>2, <3>3, <4>1 DEF JoinsLast
      <4> QED
        BY <1>1, <4>2
    <3> QED
      BY <1>3, <3>2, <3>3
  <2> QED
    BY <1>3, <2>1, <2>2
<1>8. ListsMatch(u, t)
  <2> SUFFICES ASSUME NEW i \in 1..m + l, Lists(u[i]), LastToRestructure(u, i)
               PROVE  RowsMatch(u[i].rows, t)
    BY <1>2 DEF ListsMatch
  <2>1. i \in 1..m
    <3>1. Restructures(u[i]) /\ u[i].state = "done"
      BY ListsRestructure DEF Lists
    <3> QED
      BY <1>1, <1>3, <3>1 DEF JoinsLast
  <2>2. LastToRestructure(f, i)
    BY <1>1, <1>2, <1>4 DEF LastToRestructure
  <2> QED
    BY <1>1, <1>4, <2>1, <2>2 DEF Lined, ListsMatch
<1>9. Lined(u, t)
  BY <1>0, <1>6, <1>7, <1>8 DEF Lined
<1> QED
  BY <1>9 DEF u

\* A request that changes the order is answered, in its turn.
LEMMA RestructuredLines ==
  ASSUME NEW f, IsSeq(f), NEW i \in DOMAIN f, NEW g, DOMAIN g = DOMAIN f,
         \A j \in DOMAIN f : j # i => g[j] = f[j],
         Restructures(f[i]), f[i].state = "sent",
         \A j \in DOMAIN f : j < i /\ Restructures(f[j]) => f[j].state # "sent",
         g[i].kind = f[i].kind, g[i].row = f[i].row, g[i].state = "done",
         NEW t, NEW u, g[i].kind \in Listing => RowsMatch(g[i].rows, u), Lined(f, t)
  PROVE  Lined(g, u)
<1>1. DOMAIN f \subseteq Int
  BY IsSeqDomain
<1>2. \A j \in DOMAIN f : Restructures(g[j]) <=> Restructures(f[j])
  BY DEF Restructures
<1>0. NoneRefused(g)
  BY <1>2 DEF Lined, NoneRefused
<1>3. ServedInOrder(g)
  <2> SUFFICES ASSUME NEW k \in DOMAIN f, NEW j \in DOMAIN f, j < k, Restructures(g[k]), Restructures(g[j]),
                      g[k].state = "done"
               PROVE  g[j].state # "sent"
    BY DEF ServedInOrder
  <2>1. CASE j = i
    BY <2>1
  <2>2. CASE j # i /\ k = i
    BY <1>2, <2>2
  <2>3. CASE j # i /\ k # i
    BY <2>3 DEF Lined, ServedInOrder
  <2> QED
    BY <2>1, <2>2, <2>3
<1>4. CreatedInOrder(g)
  <2>1. \A j \in DOMAIN f : g[j].kind = f[j].kind /\ g[j].row = f[j].row
    OBVIOUS
  <2> QED
    BY <2>1 DEF Lined, CreatedInOrder
<1>5. ListsMatch(g, u)
  <2> SUFFICES ASSUME NEW k \in DOMAIN f, Lists(g[k]), LastToRestructure(g, k)
               PROVE  RowsMatch(g[k].rows, u)
    BY DEF ListsMatch
  <2>1. CASE k = i
    BY <2>1 DEF Lists
  <2>2. CASE k # i
    <3>1. Restructures(f[k]) /\ f[k].state = "done"
      BY <2>2, ListsRestructure DEF Lists
    <3>2. ~(i < k)
      BY <3>1 DEF Lined, ServedInOrder
    <3>3. k < i
      BY <1>1, <2>2, <3>2
    <3> QED
      BY <1>2, <3>3 DEF LastToRestructure
  <2> QED
    BY <2>1, <2>2
<1> QED
  BY <1>0, <1>3, <1>4, <1>5 DEF Lined

-----------------------------------------------------------------------------
(* The indexes the server will have: H[m] once the creations with ids up   *)
(* to m are served, each of which makes room for its block.                *)

Pending(F) == {q \in F : q.kind = "create" /\ q.state = "sent"}

Opens(h, g, r) == h[r.id] = r.index /\ \A b \in Nat \ {r.id} : h[b] = Up(g[b], r.index)

Stages(H, P, t, n) ==
  /\ n \in Nat /\ DOMAIN t \subseteq 1..n
  /\ \A q \in P : q.row.id \in 1..n
  /\ \A b \in DOMAIN t : H[0][b] = t[b].index
  /\ \A m, k \in 0..n : m <= k /\ (\A q \in P : q.row.id <= m \/ k < q.row.id) => H[k] = H[m]
  /\ \A q \in P : Opens(H[q.row.id], H[q.row.id - 1], q.row)

LEMMA StagesEnd ==
  ASSUME NEW H, NEW t, NEW n, Stages(H, {}, t, n)
  PROVE  \A b \in DOMAIN t : H[n][b] = t[b].index
<1>1. 0 \in 0..n /\ n \in 0..n /\ 0 <= n
  BY DEF Stages
<1>2. H[n] = H[0]
  BY <1>1 DEF Stages
<1> QED
  BY <1>2 DEF Stages

LEMMA StagesStart ==
  ASSUME NEW n \in Nat, NEW t, DOMAIN t \subseteq 1..n
  PROVE  \E H : Stages(H, {}, t, n)
<1> DEFINE h == [b \in DOMAIN t |-> t[b].index]
           H == [k \in 0..n |-> h]
<1>1. \A k \in 0..n : H[k] = h
  OBVIOUS
<1>2. \A b \in DOMAIN t : h[b] = t[b].index
  OBVIOUS
<1> HIDE DEF H, h
<1>3. Stages(H, {}, t, n)
  BY <1>1, <1>2 DEF Stages
<1> QED
  BY <1>3

LEMMA StagesStay ==
  ASSUME NEW H, NEW P, NEW t, NEW n, Stages(H, P, t, n), NEW u, StaysPut(u, t)
  PROVE  Stages(H, P, u, n)
  BY DEF Stages, StaysPut

\* A block is created, the last one so far.
LEMMA StagesGrow ==
  ASSUME NEW H, NEW P, NEW t, NEW n, Stages(H, P, t, n), NEW q, q.row.id = n + 1
  PROVE  \E G : /\ Stages(G, P \union {q}, t, n + 1)
                /\ Opens(G[n + 1], H[n], q.row)
<1> DEFINE h == [b \in Nat |-> IF b = n + 1 THEN q.row.index ELSE Up(H[n][b], q.row.index)]
           G == [k \in 0..n + 1 |-> IF k = n + 1 THEN h ELSE H[k]]
<1>1. n \in Nat
  BY DEF Stages
<1>2. G[n + 1] = h /\ \A k \in 0..n : k \in 0..n + 1 /\ G[k] = H[k]
  BY <1>1
<1>3. Opens(h, H[n], q.row)
  <2>1. q.row.id \in Nat
    BY <1>1
  <2> QED
    BY <2>1 DEF Opens
<1> HIDE DEF G, h
<1>4. DOMAIN t \subseteq 1..n + 1 /\ \A p \in P \union {q} : p.row.id \in 1..n + 1
  BY <1>1 DEF Stages
<1>5. \A b \in DOMAIN t : G[0][b] = t[b].index
  <2>1. 0 \in 0..n
    BY <1>1
  <2>2. G[0] = H[0]
    BY <1>2, <2>1
  <2> QED
    BY <2>2 DEF Stages
<1>6. ASSUME NEW m \in 0..n + 1, NEW k \in 0..n + 1, m <= k,
             \A p \in P \union {q} : p.row.id <= m \/ k < p.row.id
      PROVE  G[k] = G[m]
  <2>1. CASE k = n + 1
    <3>1. q.row.id <= m \/ k < q.row.id
      BY <1>6
    <3>2. m = n + 1
      BY <1>1, <2>1, <3>1
    <3> QED
      BY <2>1, <3>2
  <2>2. CASE k # n + 1
    <3>1. m \in 0..n /\ k \in 0..n
      BY <1>1, <1>6, <2>2
    <3>2. H[k] = H[m]
      BY <1>6, <3>1 DEF Stages
    <3> QED
      BY <1>2, <3>1, <3>2
  <2> QED
    BY <2>1, <2>2
<1>7. ASSUME NEW p \in P \union {q} PROVE Opens(G[p.row.id], G[p.row.id - 1], p.row)
  <2>1. CASE p \in P
    <3>1. p.row.id \in 0..n /\ p.row.id - 1 \in 0..n
      BY <1>1, <2>1 DEF Stages
    <3>2. G[p.row.id] = H[p.row.id] /\ G[p.row.id - 1] = H[p.row.id - 1]
      BY <1>2, <3>1
    <3> QED
      BY <2>1, <3>2 DEF Stages
  <2>2. CASE p = q
    <3>1. p.row.id = n + 1 /\ p.row.id - 1 = n /\ n \in 0..n
      BY <1>1, <2>2
    <3>2. G[p.row.id] = h /\ G[p.row.id - 1] = H[n]
      BY <1>2, <3>1
    <3> QED
      BY <1>3, <2>2, <3>2
  <2> QED
    BY <2>1, <2>2
<1>8. Stages(G, P \union {q}, t, n + 1)
  BY <1>1, <1>4, <1>5, <1>6, <1>7 DEF Stages
<1> QED
  BY <1>2, <1>3, <1>8

\* Of the creations P, q is the first; Q are the others.
Foremost(q, P, Q) ==
  /\ q \in P /\ \A p \in P : q.row.id <= p.row.id
  /\ Q \subseteq P /\ \A p \in P : p \in Q \/ p.row.id = q.row.id
  /\ \A p \in Q : p.row.id # q.row.id

\* The first of the pending creations is served.
LEMMA StagesServe ==
  ASSUME NEW H, NEW P, NEW t, NEW n, Stages(H, P, t, n), NEW q, NEW Q, Foremost(q, P, Q),
         NEW html, NEW u, InsertsBlock(u, t, q.row.id, html, q.row.index)
  PROVE  \E G : Stages(G, Q, u, n) /\ G[n] = H[n]
<1> DEFINE c == q.row.id
           G == [k \in 0..n |-> IF k < c THEN H[c] ELSE H[k]]
<1>0. /\ q \in P /\ Q \subseteq P /\ \A p \in P : q.row.id <= p.row.id
      /\ \A p \in P : p \in Q \/ p.row.id = q.row.id
      /\ \A p \in Q : p.row.id # q.row.id
  BY DEF Foremost
<1>1. n \in Nat /\ c \in 1..n
  BY <1>0 DEF Stages
<1>2. \A k \in 0..n : G[k] = IF k < c THEN H[c] ELSE H[k]
  OBVIOUS
<1>3. Opens(H[c], H[c - 1], q.row)
  BY <1>0 DEF Stages
<1> HIDE DEF G
<1>4. DOMAIN u \subseteq 1..n /\ \A p \in Q : p.row.id \in 1..n
  BY <1>0, <1>1 DEF Stages, InsertsBlock
<1>5. H[c - 1] = H[0]
  <2>1. 0 \in 0..n /\ c - 1 \in 0..n /\ 0 <= c - 1
    BY <1>1
  <2>2. \A p \in P : p.row.id <= 0 \/ c - 1 < p.row.id
    <3>1. \A p \in P : p.row.id \in 1..n
      BY DEF Stages
    <3> QED
      BY <1>0, <1>1, <3>1
  <2> QED
    BY <2>1, <2>2 DEF Stages
<1>6. ASSUME NEW b \in DOMAIN u PROVE G[0][b] = u[b].index
  <2>1. G[0] = H[c]
    BY <1>1, <1>2
  <2>2. CASE b = c
    BY <1>3, <2>1, <2>2 DEF Opens, InsertsBlock
  <2>3. CASE b # c
    <3>1. b \in DOMAIN t /\ u[b].index = Up(t[b].index, q.row.index)
      BY <2>3 DEF InsertsBlock
    <3>2. b \in Nat \ {c}
      BY <1>1, <2>3, <3>1 DEF Stages
    <3>3. H[c][b] = Up(H[0][b], q.row.index)
      BY <1>3, <1>5, <3>2 DEF Opens
    <3> QED
      BY <2>1, <3>1, <3>3 DEF Stages
  <2> QED
    BY <2>2, <2>3
<1>7. ASSUME NEW m \in 0..n, NEW k \in 0..n, m <= k, \A p \in Q : p.row.id <= m \/ k < p.row.id
      PROVE  G[k] = G[m]
  <2>1. CASE k < c
    BY <1>1, <1>2, <1>7, <2>1
  <2>2. CASE ~(k < c)
    <3>1. PICK l : l = IF m < c THEN c ELSE m
      OBVIOUS
    <3>2. l \in 0..n /\ l <= k /\ c <= l /\ m <= l
      BY <1>1, <1>7, <2>2, <3>1
    <3>3. ASSUME NEW p \in P PROVE p.row.id <= l \/ k < p.row.id
      <4>1. p.row.id \in 1..n
        BY DEF Stages
      <4> QED
        BY <1>0, <1>1, <1>7, <3>2, <4>1
    <3>4. H[k] = H[l]
      BY <3>2, <3>3 DEF Stages
    <3>5. G[k] = H[k]
      BY <1>2, <2>2
    <3>6. G[m] = H[l]
      BY <1>2, <3>1
    <3> QED
      BY <3>4, <3>5, <3>6
  <2> QED
    BY <2>1, <2>2
<1>8. ASSUME NEW p \in Q PROVE Opens(G[p.row.id], G[p.row.id - 1], p.row)
  <2>1. p \in P /\ p.row.id \in 1..n /\ c <= p.row.id /\ p.row.id # c
    BY <1>0, <1>4
  <2>2. PICK k : k = p.row.id
    OBVIOUS
  <2>3. k \in 0..n /\ k - 1 \in 0..n /\ ~(k < c) /\ ~(k - 1 < c)
    BY <1>1, <2>1, <2>2
  <2>4. G[k] = H[k] /\ G[k - 1] = H[k - 1]
    BY <1>2, <2>3
  <2> QED
    BY <2>1, <2>2, <2>4 DEF Stages
<1>9. G[n] = H[n]
  BY <1>1, <1>2
<1>10. Stages(G, Q, u, n)
  BY <1>1, <1>4, <1>6, <1>7, <1>8 DEF Stages
<1> QED
  BY <1>9, <1>10

-----------------------------------------------------------------------------
(* The store's rows at the indexes the server will have.                   *)

Placed(h, s, t) ==
  /\ \A i, j \in DOMAIN s : s[i].id = s[j].id => i = j
  /\ \A i \in DOMAIN s : h[s[i].id] = s[i].index
  /\ \A i, j \in DOMAIN s : i < j /\ s[i].index = s[j].index =>
       /\ s[i].id \in DOMAIN t /\ s[j].id \in DOMAIN t
       /\ t[s[i].id].rowid < t[s[j].id].rowid

\* Rows of s, at their indexes and in their order.
Thins(g, u, s) ==
  /\ \A k \in DOMAIN u : /\ g[k] \in DOMAIN s
                         /\ u[k].id = s[g[k]].id /\ u[k].index = s[g[k]].index
  /\ \A k, l \in DOMAIN u : k < l => g[k] < g[l]

LEMMA ThinnedPlaced ==
  ASSUME NEW h, NEW s, DOMAIN s \subseteq Int, NEW t, Placed(h, s, t),
         NEW u, DOMAIN u \subseteq Int, NEW g, Thins(g, u, s)
  PROVE  Placed(h, u, t)
<1>1. \A i, j \in DOMAIN u : u[i].id = u[j].id => i = j
  <2> SUFFICES ASSUME NEW i \in DOMAIN u, NEW j \in DOMAIN u, u[i].id = u[j].id PROVE i = j
    OBVIOUS
  <2>1. g[i] = g[j] /\ g[i] \in Int
    BY DEF Placed, Thins
  <2>2. ~(i < j) /\ ~(j < i)
    BY <2>1 DEF Thins
  <2> QED
    BY <2>2
<1>2. \A i \in DOMAIN u : h[u[i].id] = u[i].index
  BY DEF Placed, Thins
<1>3. ASSUME NEW i \in DOMAIN u, NEW j \in DOMAIN u, i < j, u[i].index = u[j].index
      PROVE  /\ u[i].id \in DOMAIN t /\ u[j].id \in DOMAIN t
             /\ t[u[i].id].rowid < t[u[j].id].rowid
  BY <1>3 DEF Placed, Thins
<1> QED
  BY <1>1, <1>2, <1>3 DEF Placed

LEMMA PutPlaced ==
  ASSUME NEW h, NEW s, IsRows(s), NEW t, Placed(h, s, t), NEW b, NEW html, NEW type
  PROVE  Placed(h, Put(s, b, html, type), t)
<1>1. PICK u : u = Put(s, b, html, type)
  OBVIOUS
<1>2. PutsRows(u, s, b, html)
  BY <1>1, PutRows
<1> DEFINE g == [k \in DOMAIN s |-> k]
<1>3. \A k \in DOMAIN s : g[k] = k
  OBVIOUS
<1> HIDE DEF g
<1>4. DOMAIN s \subseteq Int
  BY IsSeqDomain DEF IsRows
<1>5. Thins(g, u, s)
  BY <1>2, <1>3 DEF Thins, PutsRows
<1> QED
  BY <1>1, <1>2, <1>4, <1>5, ThinnedPlaced DEF PutsRows

LEMMA DropPlaced ==
  ASSUME NEW h, NEW s, IsRows(s), NEW t, Placed(h, s, t), NEW b
  PROVE  Placed(h, Drop(s, b), t)
<1>1. PICK u : u = Drop(s, b)
  OBVIOUS
<1>2. PICK g : Drops(u, s, b, g)
  BY <1>1, DropRows
<1>3. IsRows(u)
  BY <1>1, DropIs
<1>4. DOMAIN s \subseteq Int /\ DOMAIN u \subseteq Int
  BY <1>3, IsSeqDomain DEF IsRows
<1>5. Thins(g, u, s)
  BY <1>2 DEF Thins, Drops
<1> QED
  BY <1>1, <1>4, <1>5, ThinnedPlaced

LEMMA UpApart ==
  ASSUME NEW k \in Int, NEW x \in Int, NEW y \in Int
  PROVE  Up(x, k) # k /\ (Up(x, k) = Up(y, k) => x = y)
  BY DEF Up

LEMMA InsertPlaced ==
  ASSUME NEW h, NEW s, IsRows(s), NEW t, Placed(h, s, t), NEW n \in Nat, Ids(s) \subseteq 1..n,
         NEW row, IsRow(row), row.id = n + 1, NEW u, Inserts(u, s, row), NEW g, Opens(g, h, row)
  PROVE  Placed(g, u, t)
<1> DEFINE m == Len(s)
<1>1. /\ m \in Nat /\ DOMAIN s = 1..m /\ DOMAIN u = 1..m + 1
      /\ \A i \in 1..m : u[i].id = s[i].id /\ u[i].index = Up(s[i].index, row.index)
      /\ u[m + 1] = row /\ row.index \in Int /\ \A i \in 1..m : s[i].index \in Int
  BY DEF Inserts, IsRows, IsRow
<1> HIDE DEF m
<1>2. \A i \in 1..m : s[i].id \in 1..n
  BY <1>1 DEF Ids
<1>3. \A i \in 1..m + 1 : i \in 1..m \/ i = m + 1
  BY <1>1
<1>4. \A i, j \in DOMAIN u : u[i].id = u[j].id => i = j
  <2> SUFFICES ASSUME NEW i \in 1..m + 1, NEW j \in 1..m + 1, u[i].id = u[j].id PROVE i = j
    BY <1>1
  <2>1. CASE i \in 1..m /\ j \in 1..m
    BY <1>1, <2>1 DEF Placed
  <2>2. \A k \in 1..m : u[k].id # u[m + 1].id
    BY <1>1, <1>2
  <2> QED
    BY <1>3, <2>1, <2>2
<1>5. \A i \in DOMAIN u : g[u[i].id] = u[i].index
  <2> SUFFICES ASSUME NEW i \in 1..m + 1 PROVE g[u[i].id] = u[i].index
    BY <1>1
  <2>1. CASE i \in 1..m
    <3>1. s[i].id \in Nat \ {row.id}
      BY <1>2, <2>1
    <3>2. g[s[i].id] = Up(h[s[i].id], row.index)
      BY <3>1 DEF Opens
    <3>3. h[s[i].id] = s[i].index
      BY <1>1, <2>1 DEF Placed
    <3> QED
      BY <1>1, <2>1, <3>2, <3>3
  <2>2. CASE i = m + 1
    BY <1>1, <2>2 DEF Opens
  <2> QED
    BY <1>3, <2>1, <2>2
<1>6. ASSUME NEW i \in 1..m + 1, NEW j \in 1..m + 1, i < j, u[i].index = u[j].index
      PROVE  /\ u[i].id \in DOMAIN t /\ u[j].id \in DOMAIN t
             /\ t[u[i].id].rowid < t[u[j].id].rowid
  <2>1. i \in 1..m
    BY <1>1, <1>6
  <2>2. CASE j \in 1..m
    <3>1. s[i].index = s[j].index
      <4>1. s[i].index \in Int /\ s[j].index \in Int /\ row.index \in Int
        BY <1>1, <2>1, <2>2
      <4>2. Up(s[i].index, row.index) = Up(s[j].index, row.index)
        BY <1>1, <1>6, <2>1, <2>2
      <4> QED
        BY <4>1, <4>2, UpApart
    <3> QED
      BY <1>1, <1>6, <2>1, <2>2, <3>1 DEF Placed
  <2>3. CASE j = m + 1
    <3>1. u[i].index # row.index
      <4>1. s[i].index \in Int /\ row.index \in Int
        BY <1>1, <2>1
      <4>2. Up(s[i].index, row.index) # row.index
        BY <4>1, UpApart
      <4> QED
        BY <1>1, <2>1, <4>2
    <3> QED
      BY <1>1, <1>6, <2>3, <3>1
  <2> QED
    BY <1>3, <2>2, <2>3
<1> QED
  BY <1>1, <1>4, <1>5, <1>6 DEF Placed

\* The table changes, and keeps the rows of these blocks.
LEMMA StillPlaced ==
  ASSUME NEW h, NEW s, NEW t, Placed(h, s, t), NEW u,
         \A b \in Ids(s) : b \in DOMAIN t => b \in DOMAIN u /\ u[b].rowid = t[b].rowid
  PROVE  Placed(h, s, u)
  BY DEF Placed, Ids

LEMMA ListedPlaced ==
  ASSUME NEW t, NEW n, IsTable(t, n), NEW rows, RowsMatch(rows, t), Ids(rows) \subseteq DOMAIN t,
         NEW h, \A b \in DOMAIN t : h[b] = t[b].index
  PROVE  Placed(h, rows, t)
<1>1. \A k \in DOMAIN rows : rows[k].id \in DOMAIN t
  BY DEF Ids
<1>2. \A b \in DOMAIN t : t[b].index \in Int
  BY DEF IsTable, IsTableRow
<1> QED
  BY <1>1, <1>2 DEF Placed, RowsMatch, Above

\* A list of the page has each block once, in the table's order.
LEMMA ListRanks ==
  ASSUME NEW t, NEW n, IsTable(t, n)
  PROVE  \A k \in DOMAIN ListBlocks(t) :
           \A b \in DOMAIN t : Cardinality({c \in DOMAIN t : Above(t, c, b)}) = k - 1
                                 <=> b = ListBlocks(t)[k]
<1> DEFINE below == [b \in DOMAIN t |-> {c \in DOMAIN t : Above(t, c, b)}]
           u(k) == CHOOSE b \in DOMAIN t : Cardinality({c \in DOMAIN t : Above(t, c, b)}) = k - 1
<1>1. InLine(DOMAIN t, below)
  BY TableInLine
<1>2. \A b \in DOMAIN t : below[b] = {c \in DOMAIN t : Above(t, c, b)}
  OBVIOUS
<1> HIDE DEF below
<1>3. /\ \A k \in 1..Cardinality(DOMAIN t) : \E b \in DOMAIN t : Cardinality(below[b]) = k - 1
      /\ \A b, c \in DOMAIN t : Cardinality(below[b]) = Cardinality(below[c]) => b = c
  BY <1>1, Ranked
<1>4. ListBlocks(t) = [k \in 1..Cardinality(DOMAIN t) |-> u(k)]
  BY DEF ListBlocks
<1>5. ASSUME NEW k \in 1..Cardinality(DOMAIN t)
      PROVE  u(k) \in DOMAIN t /\ Cardinality(below[u(k)]) = k - 1
  <2>1. \E b \in DOMAIN t : Cardinality({c \in DOMAIN t : Above(t, c, b)}) = k - 1
    BY <1>2, <1>3
  <2>2. u(k) \in DOMAIN t /\ Cardinality({c \in DOMAIN t : Above(t, c, u(k))}) = k - 1
    BY <2>1
  <2> QED
    BY <1>2, <2>2
<1> HIDE DEF u
<1>6. ASSUME NEW k \in DOMAIN ListBlocks(t), NEW b \in DOMAIN t
      PROVE  Cardinality({c \in DOMAIN t : Above(t, c, b)}) = k - 1 <=> b = ListBlocks(t)[k]
  <2>1. k \in 1..Cardinality(DOMAIN t) /\ ListBlocks(t)[k] = u(k)
    BY <1>4, <1>6
  <2>2. Cardinality(below[b]) = k - 1 <=> b = u(k)
    BY <1>3, <1>5, <2>1
  <2> QED
    BY <1>2, <2>1, <2>2
<1> QED
  BY <1>6

LEMMA AdoptedMatches ==
  ASSUME NEW t, NEW n, IsTable(t, n)
  PROVE  RowsMatch(Adopted(t), t)
<1> DEFINE below == [b \in DOMAIN t |-> {c \in DOMAIN t : Above(t, c, b)}]
           rows == Adopted(t)
<1>1. PICK ids : ids = ListBlocks(t)
  OBVIOUS
<1>2. InLine(DOMAIN t, below)
  BY TableInLine
<1>3. \A b \in DOMAIN t : below[b] = {c \in DOMAIN t : Above(t, c, b)}
  OBVIOUS
<1> HIDE DEF below
<1>4. /\ DOMAIN ids \subseteq Int /\ \A k \in DOMAIN ids : ids[k] \in DOMAIN t /\ Cardinality(below[ids[k]]) = k - 1
  <2>1. DOMAIN ids \subseteq Int /\ \A k \in DOMAIN ids : ids[k] \in DOMAIN t
    BY <1>1, ListIs
  <2>2. ASSUME NEW k \in DOMAIN ids PROVE Cardinality(below[ids[k]]) = k - 1
    <3>1. Cardinality({c \in DOMAIN t : Above(t, c, ids[k])}) = k - 1
      BY <1>1, <2>1, ListRanks
    <3> QED
      BY <1>3, <2>1, <3>1
  <2> QED
    BY <2>1, <2>2
<1>5. DOMAIN rows = DOMAIN ids /\ \A k \in DOMAIN ids : rows[k] = StoreRow(ids[k], t[ids[k]].html, t[ids[k]].type, t[ids[k]].index)
  BY <1>1 DEF Adopted
<1> HIDE DEF rows
<1>6. \A k \in DOMAIN rows : rows[k].id = ids[k] /\ rows[k].index = t[ids[k]].index
  BY <1>5 DEF StoreRow
<1>7. ASSUME NEW k \in DOMAIN rows, NEW l \in DOMAIN rows, rows[k].id = rows[l].id PROVE k = l
  BY <1>4, <1>5, <1>6, <1>7
<1>8. ASSUME NEW k \in DOMAIN ids, NEW l \in DOMAIN ids, k < l PROVE Above(t, ids[k], ids[l])
  <2>1. ids[k] = ids[l] \/ ids[k] \in below[ids[l]] \/ ids[l] \in below[ids[k]]
    BY <1>2, <1>4 DEF InLine
  <2>2. CASE ids[k] \in below[ids[l]]
    BY <1>3, <1>4, <2>2
  <2>3. CASE ids[k] = ids[l]
    BY <1>4, <1>8, <2>3
  <2>4. CASE ids[l] \in below[ids[k]]
    <3>1. Cardinality(below[ids[l]]) < Cardinality(below[ids[k]])
      BY <1>2, <1>4, <2>4, RanksGrow
    <3> QED
      BY <1>4, <1>8, <3>1
  <2> QED
    BY <2>1, <2>2, <2>3, <2>4
<1>9. RowsMatch(rows, t)
  BY <1>5, <1>6, <1>7, <1>8 DEF RowsMatch
<1> QED
  BY <1>9 DEF rows

\* As many of the store's rows are before one as the table's are before it.
LEMMA SameRank ==
  ASSUME NEW t, NEW n, IsTable(t, n), NEW s, IsRows(s), NEW h, Placed(h, s, t),
         \A b \in DOMAIN t : h[b] = t[b].index, Ids(s) = DOMAIN t, NEW j \in DOMAIN s
  PROVE  Cardinality({c \in DOMAIN t : Above(t, c, s[j].id)}) = Cardinality(Behind(s, j))
<1> DEFINE A == {c \in DOMAIN t : Above(t, c, s[j].id)}
           B == Behind(s, j)
           f == [i \in B |-> s[i].id]
<1>1. /\ DOMAIN s \subseteq Int /\ IsFiniteSet(DOMAIN s)
  <2>1. Len(s) \in Nat /\ DOMAIN s = 1..Len(s)
    BY IsSeqDomain DEF IsRows
  <2> QED
    BY <2>1, IntervalIs
<1>2. \A i \in DOMAIN s : s[i].id \in DOMAIN t /\ t[s[i].id].index = s[i].index
  BY DEF Ids, Placed
<1>3. \A b \in DOMAIN t : t[b].index \in Int /\ t[b].rowid \in Int
  BY DEF IsTable, IsTableRow
<1>4. \A i, k \in DOMAIN s : i < k /\ s[i].index = s[k].index => t[s[i].id].rowid < t[s[k].id].rowid
  BY DEF Placed
<1>5. ASSUME NEW i \in DOMAIN s
      PROVE  i \in B <=> Above(t, s[i].id, s[j].id)
  <2>1. i \in B <=> s[i].index < s[j].index \/ (s[i].index = s[j].index /\ i < j)
    BY DEF Behind
  <2>2. CASE s[i].index = s[j].index
    <3>1. /\ t[s[i].id].rowid \in Int /\ t[s[j].id].rowid \in Int /\ s[i].index \in Int
          /\ t[s[i].id].index = s[i].index /\ t[s[j].id].index = s[i].index
      BY <1>2, <1>3, <2>2
    <3>2. CASE i < j
      <4>1. t[s[i].id].rowid < t[s[j].id].rowid
        BY <1>4, <2>2, <3>2
      <4> QED
        BY <2>1, <2>2, <3>1, <3>2, <4>1 DEF Above
    <3>3. CASE i = j
      <4>1. j \in Int /\ ~(i < j)
        BY <1>1, <3>3
      <4>2. ~Above(t, s[j].id, s[j].id)
        BY <3>1, <3>3 DEF Above
      <4>3. i \notin B
        BY <2>1, <3>1, <3>3, <4>1
      <4> QED
        BY <3>3, <4>2, <4>3
    <3>4. CASE j < i
      <4>1. t[s[j].id].rowid < t[s[i].id].rowid
        BY <1>4, <2>2, <3>4
      <4> QED
        BY <1>1, <2>1, <2>2, <3>1, <3>4, <4>1 DEF Above
    <3> QED
      BY <1>1, <3>2, <3>3, <3>4
  <2>3. CASE s[i].index # s[j].index
    BY <1>2, <2>1, <2>3 DEF Above
  <2> QED
    BY <2>2, <2>3
<1>6. B \subseteq DOMAIN s
  BY DEF Behind
<1> HIDE DEF B
<1>7. \A i \in B : f[i] \in A
  BY <1>2, <1>5, <1>6
<1>8. \A i, k \in B : f[i] = f[k] => i = k
  BY <1>6 DEF Placed
<1>9. ASSUME NEW c \in A PROVE \E i \in B : f[i] = c
  <2>1. PICK i \in DOMAIN s : s[i].id = c
    BY DEF Ids
  <2> QED
    BY <1>5, <2>1
<1>10. f \in [B -> A]
  BY <1>7
<1> HIDE DEF f, A
<1>11. f \in Bijection(B, A)
  BY <1>8, <1>9, <1>10 DEF Bijection, Injection, Surjection, IsInjective
<1>12. IsFiniteSet(B)
  BY <1>1, <1>6, FS_Subset
<1>13. Cardinality(A) = Cardinality(B)
  BY <1>11, <1>12, FS_Bijection DEF ExistsBijection
<1> QED
  BY <1>13 DEF A, B

\* The store shows the blocks in the table's order.
LEMMA PlacedInOrder ==
  ASSUME NEW t, NEW n, IsTable(t, n), NEW s, IsRows(s), NEW h, Placed(h, s, t),
         \A b \in DOMAIN t : h[b] = t[b].index, Ids(s) = DOMAIN t
  PROVE  ListBlocks(t) = Order(s)
<1>1. PICK p : Sorts(p, s)
  BY OrderSorts
<1>2. Len(s) \in Nat /\ DOMAIN s = 1..Len(s) /\ IsFiniteSet(DOMAIN s) /\ Cardinality(DOMAIN s) = Len(s)
  <2>1. Len(s) \in Nat /\ DOMAIN s = 1..Len(s)
    BY IsSeqDomain DEF IsRows
  <2> QED
    BY <2>1, IntervalIs
<1>3. Cardinality(DOMAIN t) = Len(s)
  <2> DEFINE f == [i \in DOMAIN s |-> s[i].id]
  <2>1. f \in [DOMAIN s -> DOMAIN t] /\ \A b \in DOMAIN t : \E i \in DOMAIN s : f[i] = b
    BY DEF Ids
  <2>2. \A i, k \in DOMAIN s : f[i] = f[k] => i = k
    BY DEF Placed
  <2> HIDE DEF f
  <2>3. f \in Bijection(DOMAIN s, DOMAIN t)
    BY <2>1, <2>2 DEF Bijection, Injection, Surjection, IsInjective
  <2> QED
    BY <1>2, <2>3, FS_Bijection DEF ExistsBijection
<1>4. DOMAIN ListBlocks(t) = DOMAIN s /\ ListBlocks(t) = [k \in DOMAIN s |-> ListBlocks(t)[k]]
  <2> DEFINE u(k) == CHOOSE b \in DOMAIN t : Cardinality({c \in DOMAIN t : Above(t, c, b)}) = k - 1
  <2>1. ListBlocks(t) = [k \in DOMAIN s |-> u(k)]
    BY <1>2, <1>3 DEF ListBlocks
  <2> HIDE DEF u
  <2> QED
    BY <2>1
<1>5. ASSUME NEW k \in DOMAIN s PROVE s[p[k]].id = ListBlocks(t)[k]
  <2>1. PICK j : j = p[k]
    OBVIOUS
  <2>2. j \in DOMAIN s /\ Cardinality(Behind(s, j)) = k - 1
    BY <1>1, <2>1 DEF Sorts
  <2>3. Cardinality({c \in DOMAIN t : Above(t, c, s[j].id)}) = k - 1
    BY <2>2, SameRank
  <2>4. s[j].id \in DOMAIN t
    BY <2>2 DEF Ids
  <2>5. k \in DOMAIN ListBlocks(t)
    BY <1>4
  <2> QED
    BY <2>1, <2>3, <2>4, <2>5, ListRanks
<1>6. Order(s) = [k \in DOMAIN s |-> s[p[k]].id]
  BY <1>1 DEF Sorts
<1> QED
  BY <1>4, <1>5, <1>6

-----------------------------------------------------------------------------
(* The gestures keep the screen and what the server will have in one order. *)

Rearranges(r) == r.kind \in {"reorder", "relist", "recreate"}

\* Unless the order is on its way, the store is as the server will have it.
StoreMatches(F, t, s, n) ==
  \/ \E q \in F : Rearranges(q)
  \/ \E H : Stages(H, Pending(F), t, n) /\ Placed(H[n], s, t)

Matched == Lined(flight, table) /\ StoreMatches(ToSet(flight), table, store, made)
OrderInv == Clean => Matched

LEMMA KindsApart ==
  ASSUME NEW r
  PROVE  /\ Writes(r) => ~Restructures(r) /\ r.kind # "create" /\ ~Rearranges(r) /\ ~Lists(r)
         /\ Rearranges(r) => ~Writes(r) /\ Restructures(r) /\ r.kind # "create"
         /\ r.kind = "create" => ~Writes(r) /\ Restructures(r) /\ ~Rearranges(r)
         /\ Restructures(r) => r.kind = "create" \/ Rearranges(r)
  BY DEF Writes, Restructures, Structural, Rearranges, Lists, Listing

LEMMA OrderInit == EditorInit => OrderInv
<1> SUFFICES ASSUME EditorInit PROVE Matched
  BY DEF OrderInv
<1>1. flight = <<>> /\ opening \in Nat /\ made = opening
  BY OpeningAssumption DEF EditorInit
<1>2. DOMAIN flight = {} /\ ToSet(flight) = {} /\ Pending(ToSet(flight)) = {}
  BY <1>1 DEF ToSet, Pending
<1>3. Lined(flight, table)
  BY <1>2 DEF Lined, NoneRefused, ServedInOrder, CreatedInOrder, ListsMatch
<1>4. /\ DOMAIN store = 1..opening /\ DOMAIN table = 1..opening
      /\ \A b \in 1..opening : store[b].id = b /\ store[b].index = b - 1 /\ table[b].index = b - 1
  BY DEF EditorInit, OpeningRow, StoreRow
<1>5. PICK H : Stages(H, {}, table, made)
  BY <1>1, <1>4, StagesStart
<1>6. PICK h : h = H[made]
  OBVIOUS
<1>7. Placed(h, store, table)
  <2>0. \A b \in DOMAIN table : H[made][b] = table[b].index
    BY <1>5, StagesEnd
  <2>1. \A b \in 1..opening : h[b] = table[b].index
    BY <1>4, <1>6, <2>0
  <2>2. \A b \in 1..opening : h[store[b].id] = store[b].index
    BY <1>4, <2>1
  <2>3. \A b, c \in 1..opening : store[b].id = store[c].id => b = c
    BY <1>4
  <2>4. \A b, c \in 1..opening : store[b].index = store[c].index => b = c
    BY <1>1, <1>4
  <2> QED
    BY <1>1, <1>4, <2>2, <2>3, <2>4 DEF Placed
<1> QED
  BY <1>2, <1>3, <1>5, <1>6, <1>7 DEF Matched, StoreMatches

\* Creations under way are of ids chosen.
LEMMA CreatedSoFar ==
  ASSUME EditorInv
  PROVE  CreatedUpTo(flight, made) /\ made \in Nat /\ IsSeq(flight)
<1>1. ASSUME NEW i \in DOMAIN flight, flight[i].kind = "create" PROVE flight[i].row.id \in 1..made
  <2>1. <<1, i>> \in DOMAIN UnderWay /\ UnderWay[<<1, i>>] = flight[i]
    BY DEF UnderWay, Beside
  <2> QED
    BY <1>1, <2>1 DEF EditorInv, Sound, CreationsApart, CreatesNew, Creates
<1> QED
  BY <1>1 DEF CreatedUpTo, EditorInv, IsTable

\* What a gesture sends that is no write goes on the wire.
LEMMA SentNow ==
  ASSUME EditorInv, NEW R, IsSeq(R), Send(R)
  PROVE  /\ \A p \in DOMAIN R : ~Writes(R[p]) => R[p] \in ToSet(flight')
         /\ JoinsLast(R, made) /\ Lined(flight, table) => Lined(flight', table)
<1>1. PICK O : O = DOMAIN R \ {p \in DOMAIN R : AsksCreation(ToSet(flight), R[p])}
  OBVIOUS
<1>2. PICK A : A = Picked(R, O)
  OBVIOUS
<1>3. flight' = flight \o A
  BY <1>1, <1>2, SentWhere DEF Posts
<1>4. O \subseteq DOMAIN R /\ IsSeq(flight)
  BY <1>1 DEF EditorInv
<1>5. IsSeq(A) /\ ToSet(A) = {R[p] : p \in O}
  BY <1>2, <1>4, PickedIs, SetOfPicked, Zenon
<1>6. ToSet(flight') = ToSet(flight) \union {R[p] : p \in O}
  BY <1>3, <1>4, <1>5, SetOfCat
<1>7. \A p \in DOMAIN R : ~Writes(R[p]) => R[p] \in ToSet(flight')
  BY <1>1, <1>6 DEF AsksCreation
<1>8. ASSUME JoinsLast(R, made), Lined(flight, table) PROVE Lined(flight', table)
  <2>1. PICK g : Picks(A, R, O, g)
    BY <1>2, <1>4, PickedIs
  <2>2. JoinsLast(A, made)
    <3>1. \A p \in DOMAIN A : g[p] \in DOMAIN R /\ A[p] = R[g[p]]
      BY <1>4, <2>1 DEF Picks
    <3>2. \A p, q \in DOMAIN A : g[p] = g[q] => p = q
      BY <2>1 DEF Picks
    <3> QED
      BY <1>8, <3>1, <3>2 DEF JoinsLast
  <2>3. Lined(flight \o A, table)
    BY <1>4, <1>5, <1>8, <2>2, CreatedSoFar, JoinedLines
  <2> QED
    BY <1>3, <2>3
<1> QED
  BY <1>7, <1>8

\* Rows stay where they are.
LeavesPlaces(s) == \A h : Placed(h, store, table) => Placed(h, s, table)

LEMMA WritesMatch ==
  ASSUME EditorInv, Matched, NEW R, IsSeq(R), Send(R), \A p \in DOMAIN R : Writes(R[p]),
         UNCHANGED <<table, made>>, LeavesPlaces(store')
  PROVE  Matched'
<1>1. Lined(flight', table)
  <2>1. JoinsLast(R, made)
    BY KindsApart DEF JoinsLast
  <2> QED
    BY <2>1, SentNow DEF Matched
<1>2. PICK F : F = ToSet(flight')
  OBVIOUS
<1>3. /\ \A q \in F : q \in ToSet(flight) \/ Writes(q)
      /\ ToSet(flight) \subseteq F
  BY <1>2, SentSet
<1>4. Pending(F) = Pending(ToSet(flight))
  BY <1>3, KindsApart DEF Pending
<1>5. StoreMatches(F, table, store', made)
  <2>1. CASE \E q \in ToSet(flight) : Rearranges(q)
    BY <1>3, <2>1 DEF StoreMatches
  <2>2. CASE \E H : Stages(H, Pending(ToSet(flight)), table, made) /\ Placed(H[made], store, table)
    BY <1>4, <2>2 DEF StoreMatches, LeavesPlaces
  <2> QED
    BY <2>1, <2>2 DEF Matched, StoreMatches
<1> QED
  BY <1>1, <1>2, <1>5 DEF Matched

\* A new order is sent.
LEMMA RearrangingMatches ==
  ASSUME EditorInv, Matched, NEW r, Send(<<r>>), Rearranges(r), r.state = "sent", UNCHANGED table
  PROVE  Matched'
<1> DEFINE R == <<r>>
<1>1. IsSeq(R) /\ DOMAIN R = {1} /\ R[1] = r /\ Send(R)
  BY OneIs
<1> HIDE DEF R
<1>2. JoinsLast(R, made)
  BY <1>1, KindsApart DEF JoinsLast
<1>3. Lined(flight', table) /\ r \in ToSet(flight')
  BY <1>1, <1>2, SentNow, KindsApart DEF Matched
<1> QED
  BY <1>3 DEF Matched, StoreMatches

\* A block is created, among rows that stay where they are.
LEMMA CreationMatches ==
  ASSUME EditorInv, Orderly, Matched, NEW R, IsSeq(R), Send(R),
         NEW q, 1 \in DOMAIN R, R[1] = q, q.kind = "create", q.state = "sent",
         \A p \in DOMAIN R : p # 1 => Writes(R[p]),
         IsRow(q.row), q.row.id = made + 1, made' = made + 1, UNCHANGED table,
         NEW s, IsRows(s), Ids(s) = Ids(store), LeavesPlaces(s),
         Inserts(store', s, q.row)
  PROVE  Matched'
<1>1. \A p \in DOMAIN R : Restructures(R[p]) => p = 1
  BY KindsApart
<1>2. JoinsLast(R, made)
  <2>1. ASSUME NEW p \in DOMAIN R, R[p].kind = "create" PROVE R[p].row.id = made + 1
    BY <2>1, KindsApart
  <2> QED
    BY <1>1, <2>1 DEF JoinsLast
<1>3. Lined(flight', table)
  BY <1>2, SentNow DEF Matched
<1>4. PICK F : F = ToSet(flight')
  OBVIOUS
<1>5. /\ \A r \in F : r \in ToSet(flight) \/ r = q \/ Writes(r)
      /\ ToSet(flight) \subseteq F /\ q \in F
  <2>1. q \in F
    BY <1>4, SentNow, KindsApart
  <2> QED
    BY <1>4, <2>1, SentSet
<1>6. Pending(F) = Pending(ToSet(flight)) \union {q}
  BY <1>5, KindsApart DEF Pending
<1>7. Ids(s) \subseteq 1..made /\ made \in Nat
  BY CreatedSoFar DEF Orderly, Undisturbed
<1>8. StoreMatches(F, table, store', made + 1)
  <2>1. CASE \E r \in ToSet(flight) : Rearranges(r)
    BY <1>5, <2>1 DEF StoreMatches
  <2>2. ASSUME NEW H, Stages(H, Pending(ToSet(flight)), table, made), Placed(H[made], store, table)
        PROVE  StoreMatches(F, table, store', made + 1)
    <3>1. PICK G : Stages(G, Pending(F), table, made + 1) /\ Opens(G[made + 1], H[made], q.row)
      BY <1>6, <2>2, StagesGrow
    <3>2. Placed(H[made], s, table)
      BY <2>2 DEF LeavesPlaces
    <3>3. PICK u, g, h, row : u = store' /\ g = G[made + 1] /\ h = H[made] /\ row = q.row
      OBVIOUS
    <3>4. Placed(g, u, table)
      BY <1>7, <3>1, <3>2, <3>3, InsertPlaced
    <3> QED
      BY <3>1, <3>3, <3>4 DEF StoreMatches
  <2> QED
    BY <2>1, <2>2 DEF Matched, StoreMatches
<1> QED
  BY <1>3, <1>4, <1>8 DEF Matched

LEMMA StoreLeaves ==
  ASSUME IsRows(store)
  PROVE  /\ LeavesPlaces(store)
         /\ \A b, html, type : LeavesPlaces(Put(store, b, html, type))
         /\ \A b : LeavesPlaces(Drop(store, b))
<1>1. LeavesPlaces(store)
  BY DEF LeavesPlaces
<1>2. ASSUME NEW b, NEW html, NEW type PROVE LeavesPlaces(Put(store, b, html, type))
  BY PutPlaced DEF LeavesPlaces
<1>3. ASSUME NEW b PROVE LeavesPlaces(Drop(store, b))
  BY DropPlaced DEF LeavesPlaces
<1> QED
  BY <1>1, <1>2, <1>3

LEMMA StillMatches ==
  ASSUME Matched, UNCHANGED <<table, flight, made>>, LeavesPlaces(store')
  PROVE  Matched'
  BY DEF Matched, StoreMatches, LeavesPlaces

LEMMA EditMatches ==
  ASSUME EditorInv, Matched, NEW b, NEW html, Edit(b, html)
  PROVE  Matched'
<1>1. UNCHANGED <<table, flight, made>> /\ store' = Put(store, b, html, TypeOf(html))
  BY DEF Edit, SetLocalContent
<1> QED
  BY <1>1, StoreLeaves, StillMatches DEF EditorInv

\* A gesture that sends one write.
LEMMA WriteMatches ==
  ASSUME EditorInv, Matched, NEW r, Writes(r), Send(<<r>>), UNCHANGED <<table, made>>, LeavesPlaces(store')
  PROVE  Matched'
<1> DEFINE R == <<r>>
<1>1. IsSeq(R) /\ DOMAIN R = {1} /\ R[1] = r /\ Send(R)
  BY OneIs
<1> HIDE DEF R
<1> QED
  BY <1>1, WritesMatch

LEMMA TimerMatches ==
  ASSUME EditorInv, Matched, NEW b, TimerFires(b)
  PROVE  Matched'
<1>1. UNCHANGED <<table, made>>
  BY DEF TimerFires, bounds
<1>2. CASE SaveNeeded(b)
  <2> DEFINE r == Update(b, shown[b], LiveType(b))
  <2>1. Send(<<r>>) /\ store' = Put(store, b, shown[b], TypeOf(shown[b]))
    BY <1>2 DEF TimerFires, SetLocalContent
  <2>2. Writes(r)
    BY UpdateIs DEF EditorInv, Writes
  <2> HIDE DEF r
  <2> QED
    BY <1>1, <2>1, <2>2, StoreLeaves, WriteMatches DEF EditorInv
<1>3. CASE ~SaveNeeded(b)
  <2>1. UNCHANGED <<store, flight>>
    BY <1>3 DEF TimerFires
  <2> QED
    BY <1>1, <2>1, StoreLeaves, StillMatches DEF EditorInv
<1> QED
  BY <1>2, <1>3

LEMMA LeaveListMatches ==
  ASSUME EditorInv, Matched, NEW b, LeaveList(b)
  PROVE  Matched'
<1> DEFINE html == Para(shown[b].text)
           r == Update(b, html, "paragraph")
<1>1. store' = Put(store, b, html, "paragraph") /\ Send(<<r>>) /\ UNCHANGED <<table, made>>
  BY DEF LeaveList
<1>2. Writes(r)
  BY UpdateIs DEF EditorInv, Writes
<1> HIDE DEF html, r
<1> QED
  BY <1>1, <1>2, StoreLeaves, WriteMatches DEF EditorInv

LEMMA RemoveMatches ==
  ASSUME EditorInv, Matched, NEW b, RemoveBlock(b)
  PROVE  Matched'
<1> DEFINE r == Delete(b)
<1>1. b \in Ids(store) /\ Send(<<r>>) /\ store' = Drop(store, b) /\ UNCHANGED <<table, made>>
  BY DEF RemoveBlock, At, Show, ShowFrom
<1>2. Writes(r)
  BY <1>1, DeleteIs DEF EditorInv, Writes
<1> HIDE DEF r
<1> QED
  BY <1>1, <1>2, StoreLeaves, WriteMatches DEF EditorInv

LEMMA MoveMatches ==
  ASSUME EditorInv, Matched, NEW i, MoveBlock(i)
  PROVE  Matched'
<1> DEFINE r == Reorder(Swapped(Order(store), i))
<1>1. Send(<<r>>) /\ UNCHANGED table
  BY DEF MoveBlock
<1>2. Rearranges(r) /\ r.state = "sent"
  BY DEF Reorder, Request, Rearranges
<1> HIDE DEF r
<1> QED
  BY <1>1, <1>2, RearrangingMatches

LEMMA CreateLocallyMatches ==
  ASSUME EditorInv, Orderly, Matched, NEW row, NEW focus, IsRow(row), row.id = made + 1,
         CreateLocally(row, focus)
  PROVE  Matched'
<1> DEFINE r == Create(row)
           R == <<r>>
           s == Append(Opened(store, row.index), row)
<1>1. store' = s /\ Send(R) /\ made' = made + 1 /\ UNCHANGED table
  BY DEF CreateLocally, ChooseId, ShowFrom, Fresh
<1>2. IsRows(store)
  BY DEF EditorInv
<1>3. Inserts(s, store, row)
  BY <1>2, InsertRows
<1>4. r.kind = "create" /\ r.state = "sent" /\ r.row = row
  BY DEF Create, Request
<1>5. IsSeq(R) /\ DOMAIN R = {1} /\ R[1] = r
  BY OneIs
<1> HIDE DEF s, R, r
<1>6. Inserts(store', store, r.row) /\ IsRow(r.row) /\ r.row.id = made + 1
  BY <1>1, <1>3, <1>4
<1>7. LeavesPlaces(store)
  BY <1>2, StoreLeaves
<1>8. 1 \in DOMAIN R /\ \A p \in DOMAIN R : p # 1 => Writes(R[p])
  BY <1>5
<1> QED
  BY <1>1, <1>2, <1>4, <1>5, <1>6, <1>7, <1>8, CreationMatches

LEMMA InsertMatches ==
  ASSUME EditorInv, Orderly, Matched, NEW b, InsertBlockAfter(b) \/ DuplicateBlock(b)
  PROVE  Matched'
<1>1. PICK row, focus : IsRow(row) /\ row.id = made + 1 /\ CreateLocally(row, focus)
  BY InsertCreates, DuplicateCreates
<1> QED
  BY <1>1, CreateLocallyMatches

LEMMA SplitMatches ==
  ASSUME EditorInv, Orderly, Matched, NEW b \in Ids(store), NEW before, NEW after, NEW type,
         NEW display, SplitBlock(b, before, after, type, display)
  PROVE  Matched'
<1> DEFINE current == RowIn(store, b)
           new == StoreRow(Fresh, after, TypeOf(after), current.index + 1)
           kept == Put(store, b, before, IF type = Keep THEN current.type ELSE type)
           c == Create(new)
           u == Update(b, before, type)
           R == <<c, u>>
           s == Append(Opened(kept, new.index), new)
<1>1. store' = s /\ Send(R) /\ made' = made + 1 /\ UNCHANGED table
  BY DEF SplitBlock, ChooseId, ShowFrom, Fresh
<1>2. IsRows(store)
  BY DEF EditorInv
<1>3. current.index + 1 \in Int
  BY <1>2, RowInIs DEF IsRow
<1> HIDE DEF current
<1>4. IsRow(new) /\ new.id = made + 1
  BY <1>3, StoreRowIs DEF Fresh
<1> HIDE DEF new
<1>5. IsRows(kept) /\ Ids(kept) = Ids(store) /\ LeavesPlaces(kept)
  BY <1>2, PutIs, StoreLeaves
<1> HIDE DEF kept
<1>6. Inserts(s, kept, new)
  BY <1>4, <1>5, InsertRows
<1>7. c.kind = "create" /\ c.state = "sent" /\ c.row = new
  BY DEF Create, Request
<1>8. Writes(u)
  BY <1>2, UpdateIs DEF Writes
<1>9. IsSeq(R) /\ DOMAIN R = {1, 2} /\ R[1] = c /\ R[2] = u
  BY TwoAre
<1> HIDE DEF s, R, c, u
<1>10. Inserts(store', kept, c.row) /\ IsRow(c.row) /\ c.row.id = made + 1
  BY <1>1, <1>4, <1>6, <1>7
<1>11. 1 \in DOMAIN R /\ \A p \in DOMAIN R : p # 1 => Writes(R[p])
  BY <1>8, <1>9
<1> QED
  BY <1>1, <1>5, <1>7, <1>9, <1>10, <1>11, CreationMatches

LEMMA EnterMatches ==
  ASSUME EditorInv, Orderly, Matched, NEW b, NEW k, Enter(b, k)
  PROVE  Matched'
<1>1. b \in Ids(store) /\ \E before, after, type :
                               SplitBlock(b, before, after, type, Cut(b, before))
  BY DEF Enter, At
<1> QED
  BY <1>1, SplitMatches

LEMMA MergeMatches ==
  ASSUME EditorInv, Matched, NEW p, NEW c \in Ids(store), MergeBlocks(p, c)
  PROVE  Matched'
<1> DEFINE html == Merged(RowIn(store, p), RowIn(store, c))
           kept == Put(store, p, html, RowIn(store, p).type)
           u == Update(p, html, Keep)
           d == Delete(c)
           R == <<u, d>>
<1>1. store' = Drop(kept, c) /\ Send(R) /\ UNCHANGED <<table, made>>
  BY DEF MergeBlocks, ShowFrom
<1>2. IsRows(store)
  BY DEF EditorInv
<1> HIDE DEF html
<1>3. IsRows(kept) /\ LeavesPlaces(kept)
  BY <1>2, PutIs, StoreLeaves
<1>4. Writes(u) /\ Writes(d)
  BY <1>2, UpdateIs, DeleteIs DEF Writes
<1>5. IsSeq(R) /\ DOMAIN R = {1, 2} /\ R[1] = u /\ R[2] = d
  BY TwoAre
<1> HIDE DEF kept, R, u, d
<1>6. LeavesPlaces(store')
  <2>1. LeavesPlaces(Drop(kept, c))
    BY <1>3, DropPlaced DEF LeavesPlaces
  <2> QED
    BY <1>1, <2>1
<1>7. \A k \in DOMAIN R : Writes(R[k])
  BY <1>4, <1>5
<1> QED
  BY <1>1, <1>5, <1>6, <1>7, WritesMatch

LEMMA BackspaceMatches ==
  ASSUME EditorInv, Matched, NEW i, Backspace(i) \/ ForwardDelete(i)
  PROVE  Matched'
<1>1. Len(store) \in Nat /\ DOMAIN store = 1..Len(store)
  BY IsSeqDomain DEF EditorInv, IsRows
<1>2. \A k \in 1..Len(store) : Order(store)[k] \in Ids(store)
  BY <1>1, OrderIs DEF EditorInv
<1>3. CASE Backspace(i)
  <2>1. i \in 2..Len(store) /\ MergeBlocks(Order(store)[i - 1], Order(store)[i])
    BY <1>3 DEF Backspace
  <2>2. Order(store)[i] \in Ids(store)
    BY <1>1, <1>2, <2>1
  <2> QED
    BY <2>1, <2>2, MergeMatches
<1>4. CASE ForwardDelete(i)
  <2>1. i \in 1..Len(store) - 1 /\ MergeBlocks(Order(store)[i], Order(store)[i + 1])
    BY <1>4 DEF ForwardDelete
  <2>2. Order(store)[i + 1] \in Ids(store)
    BY <1>1, <1>2, <2>1
  <2> QED
    BY <2>1, <2>2, MergeMatches
<1> QED
  BY <1>3, <1>4

LEMMA ApplyMatches ==
  ASSUME EditorInv, Matched, NEW way \in {"undo", "redo"}, NEW op, IsOp(op), Apply(way, op)
  PROVE  Matched'
<1> DEFINE b == op.row.id
           again == [op.row EXCEPT !.id = Fresh]
           del == Delete(b)
           ord == Reorder(op.ids)
           rec == Request("recreate", again)
           s(r) == [r EXCEPT !.by = way]
           deletes == b \in Ids(store) /\ store' = Drop(store, b) /\ Send(<<s(del)>>) /\ made' = made
           finishes == UNCHANGED <<store, flight, made>>
           recreates == Send(<<s(rec)>>)
           reorders == Send(<<s(ord)>>)
<1>1. deletes \/ finishes \/ recreates \/ reorders
  BY DEF Apply, Revert, Finish, Show, ShowFrom
<1>2. UNCHANGED table
  BY DEF Apply
<1>3. \A r : IsRequest(r) => s(r).kind = r.kind /\ s(r).row = r.row /\ s(r).state = r.state
  BY PostIs
<1> HIDE DEF s
<1>4. CASE deletes
  <2>1. IsRequest(del) /\ del.kind = "delete"
    BY <1>4, DeleteIs DEF EditorInv
  <2>2. store' = Drop(store, b) /\ Send(<<s(del)>>) /\ made' = made
    BY <1>4
  <2> HIDE DEF del, b
  <2> DEFINE r == s(del)
  <2>3. Writes(r) /\ Send(<<r>>)
    BY <1>3, <2>1, <2>2 DEF Writes
  <2>4. LeavesPlaces(store')
    BY <2>2, StoreLeaves DEF EditorInv
  <2> HIDE DEF r
  <2> QED
    BY <1>2, <2>2, <2>3, <2>4, WriteMatches
<1>5. CASE finishes
  BY <1>2, <1>5, StoreLeaves, StillMatches DEF EditorInv
<1>6. CASE recreates
  <2>1. IsRow(again)
    <3>1. IsRow(op.row)
      BY DEF IsOp
    <3>2. again = [id |-> Fresh, html |-> op.row.html, type |-> op.row.type, index |-> op.row.index]
      BY <3>1 DEF IsRow
    <3> HIDE DEF again
    <3> QED
      BY <3>1, <3>2 DEF IsRow
  <2>2. Send(<<s(rec)>>)
    BY <1>6
  <2> HIDE DEF again
  <2>3. IsRequest(rec) /\ rec.kind = "recreate" /\ rec.state = "sent"
    BY <2>1, RequestIs
  <2> HIDE DEF rec
  <2> DEFINE r == s(rec)
  <2>4. Rearranges(r) /\ r.state = "sent" /\ Send(<<r>>)
    BY <1>3, <2>2, <2>3 DEF Rearranges
  <2> HIDE DEF r
  <2> QED
    BY <1>2, <2>4, RearrangingMatches
<1>7. CASE reorders
  <2>1. IsRequest(ord) /\ ord.kind = "reorder" /\ ord.state = "sent"
    BY ReorderIs DEF EditorInv, IsOp
  <2>2. Send(<<s(ord)>>)
    BY <1>7
  <2> HIDE DEF ord
  <2> DEFINE r == s(ord)
  <2>3. Rearranges(r) /\ r.state = "sent" /\ Send(<<r>>)
    BY <1>3, <2>1, <2>2 DEF Rearranges
  <2> HIDE DEF r
  <2> QED
    BY <1>2, <2>3, RearrangingMatches
<1> QED
  BY <1>1, <1>4, <1>5, <1>6, <1>7

LEMMA UndoMatches ==
  ASSUME EditorInv, Matched, Undo \/ Redo
  PROVE  Matched'
<1>1. IsOps(past) /\ IsOps(future)
  BY DEF EditorInv, HistoryInv
<1>2. CASE Undo
  BY <1>1, <1>2, LastIs, ApplyMatches DEF Undo
<1>3. CASE Redo
  BY <1>1, <1>3, LastIs, ApplyMatches DEF Redo
<1> QED
  BY <1>2, <1>3

-----------------------------------------------------------------------------
(* The server keeps to the order.                                          *)

LEMMA AnsweredSet ==
  ASSUME NEW f, NEW i \in DOMAIN f, NEW g, DOMAIN g = DOMAIN f, \A j \in DOMAIN f : j # i => g[j] = f[j]
  PROVE  ToSet(g) = Rest(f, i) \union {g[i]}
  BY DEF ToSet, Rest

\* Blocks go that the store does not have, and nothing else changes.
LEMMA StoreStays ==
  ASSUME NEW F, NEW t, NEW s, NEW n, StoreMatches(F, t, s, n),
         NEW G, \A q \in F : Rearranges(q) => q \in G, Pending(G) = Pending(F),
         NEW u, StaysPut(u, t), \A b \in Ids(s) : b \in DOMAIN t => b \in DOMAIN u
  PROVE  StoreMatches(G, u, s, n)
<1>1. CASE \E q \in F : Rearranges(q)
  BY <1>1 DEF StoreMatches
<1>2. ASSUME NEW H, Stages(H, Pending(F), t, n), Placed(H[n], s, t)
      PROVE  StoreMatches(G, u, s, n)
  <2>1. Stages(H, Pending(G), u, n)
    BY <1>2, StagesStay
  <2>2. \A b \in Ids(s) : b \in DOMAIN t => b \in DOMAIN u /\ u[b].rowid = t[b].rowid
    BY DEF StaysPut
  <2>3. PICK h : h = H[n]
    OBVIOUS
  <2>4. Placed(h, s, u)
    BY <1>2, <2>2, <2>3, StillPlaced
  <2> QED
    BY <2>1, <2>3, <2>4 DEF StoreMatches
<1> QED
  BY <1>1, <1>2 DEF StoreMatches

\* A write is served, and leaves the wire or stays on it to be answered.
LEMMA WriteServedMatches ==
  ASSUME EditorInv, Matched, NEW i \in DOMAIN flight, Writes(flight[i]), UNCHANGED <<store, made>>,
         \/ flight' = RemoveAt(flight, i)
         \/ /\ DOMAIN flight' = DOMAIN flight /\ \A j \in DOMAIN flight : j # i => flight'[j] = flight[j]
            /\ flight'[i].kind = flight[i].kind,
         StaysPut(table', table), \A b \in Ids(store) : b \in DOMAIN table => b \in DOMAIN table'
  PROVE  Matched'
<1>1. PICK q : q = flight[i]
  OBVIOUS
<1>2. IsSeq(flight) /\ ~Restructures(q) /\ q.kind # "create" /\ ~Rearranges(q)
  BY <1>1, KindsApart DEF EditorInv
<1>3. PICK g, u : g = flight' /\ u = table'
  OBVIOUS
<1>4. Lined(flight, table) /\ StaysPut(u, table)
  BY <1>3 DEF Matched
<1>5. CASE g = RemoveAt(flight, i)
  <2>1. Lined(g, u)
    BY <1>1, <1>2, <1>4, <1>5, RemovedLines
  <2>2. ToSet(g) = Rest(flight, i) /\ ToSet(flight) = Rest(flight, i) \union {q}
    BY <1>1, <1>2, <1>5, SetOfRest
  <2>3. /\ \A r \in ToSet(flight) : Rearranges(r) => r \in ToSet(g)
        /\ Pending(ToSet(g)) = Pending(ToSet(flight))
    BY <1>2, <2>2 DEF Pending
  <2>4. StoreMatches(ToSet(g), u, store, made)
    BY <1>3, <1>4, <2>3, StoreStays DEF Matched
  <2> QED
    BY <1>3, <2>1, <2>4 DEF Matched
<1>6. CASE /\ DOMAIN g = DOMAIN flight /\ \A j \in DOMAIN flight : j # i => g[j] = flight[j]
           /\ g[i].kind = q.kind
  <2>0. PICK r : r = g[i]
    OBVIOUS
  <2>1. ~Restructures(r) /\ r.kind # "create" /\ ~Rearranges(r)
    BY <1>2, <1>6, <2>0 DEF Restructures, Rearranges
  <2>2. Lined(g, u)
    BY <1>1, <1>2, <1>4, <1>6, <2>0, <2>1, AnsweredLines
  <2>3. ToSet(g) = Rest(flight, i) \union {r} /\ ToSet(flight) = Rest(flight, i) \union {q}
    BY <1>1, <1>2, <1>6, <2>0, SetOfRest, AnsweredSet
  <2>4. /\ \A w \in ToSet(flight) : Rearranges(w) => w \in ToSet(g)
        /\ Pending(ToSet(g)) = Pending(ToSet(flight))
    BY <1>2, <2>1, <2>3 DEF Pending
  <2>5. StoreMatches(ToSet(g), u, store, made)
    BY <1>3, <1>4, <2>4, StoreStays DEF Matched
  <2> QED
    BY <1>3, <2>2, <2>5 DEF Matched
<1> QED
  BY <1>1, <1>3, <1>5, <1>6

LEMMA FirstSent ==
  ASSUME EditorInv, NEW i \in DOMAIN flight, ~Overtakes(i), Restructures(flight[i])
  PROVE  \A j \in DOMAIN flight : j < i /\ Restructures(flight[j]) => flight[j].state # "sent"
<1>1. Len(flight) \in Nat /\ DOMAIN flight = 1..Len(flight)
  BY IsSeqDomain DEF EditorInv
<1>2. ASSUME NEW j \in DOMAIN flight, j < i PROVE j \in 1..i - 1
  BY <1>1, <1>2
<1> QED
  BY <1>2 DEF Overtakes, Disturbs, Restructures

LEMMA RearrangementServedMatches ==
  ASSUME EditorInv, Matched, NEW i \in DOMAIN flight, Rearranges(flight[i]), flight[i].state = "sent",
         ~Overtakes(i), NEW rows, Answer(i, "done", rows),
         flight[i].kind \in Listing => RowsMatch(rows, table')
  PROVE  Matched'
<1>1. PICK q : q = flight[i]
  OBVIOUS
<1>2. PICK g, u : g = flight' /\ u = table'
  OBVIOUS
<1>3. IsSeq(flight) /\ Restructures(q)
  BY <1>1, KindsApart DEF EditorInv
<1>4. /\ DOMAIN g = DOMAIN flight /\ \A j \in DOMAIN flight : j # i => g[j] = flight[j]
      /\ g[i].kind = q.kind /\ g[i].row = q.row /\ g[i].state = "done" /\ g[i].rows = rows
  BY <1>1, <1>2, AnsweredIs
<1>5. \A j \in DOMAIN flight : j < i /\ Restructures(flight[j]) => flight[j].state # "sent"
  BY <1>1, <1>3, FirstSent
<1>6. Lined(g, u)
  BY <1>1, <1>2, <1>3, <1>4, <1>5, RestructuredLines DEF Matched
<1>7. g[i] \in ToSet(g) /\ Rearranges(g[i])
  BY <1>1, <1>4 DEF ToSet, Rearranges
<1> QED
  BY <1>2, <1>6, <1>7 DEF Matched, StoreMatches

\* Creations are of blocks of their own.
LEMMA CreationsDiffer ==
  ASSUME EditorInv, NEW i \in DOMAIN flight, NEW j \in DOMAIN flight,
         flight[i].kind = "create", flight[j].kind = "create", flight[i].row.id = flight[j].row.id
  PROVE  i = j
<1>1. /\ <<1, i>> \in DOMAIN UnderWay /\ UnderWay[<<1, i>>] = flight[i]
      /\ <<1, j>> \in DOMAIN UnderWay /\ UnderWay[<<1, j>>] = flight[j]
  BY SentOnTheWire
<1>2. <<1, i>> = <<1, j>>
  BY <1>1 DEF EditorInv, Sound, CreationsApart, Creates
<1> QED
  BY <1>2

LEMMA CreationServedMatches ==
  ASSUME EditorInv, Matched, NEW i \in DOMAIN flight, flight[i].kind = "create", flight[i].state = "sent",
         ~Overtakes(i), Answer(i, "done", <<>>), UNCHANGED <<store, made>>,
         NEW html, InsertsBlock(table', table, flight[i].row.id, html, flight[i].row.index)
  PROVE  Matched'
<1>1. PICK q : q = flight[i]
  OBVIOUS
<1>2. PICK g, u : g = flight' /\ u = table'
  OBVIOUS
<1>3. IsSeq(flight) /\ Restructures(q) /\ q.kind = "create" /\ q.kind \notin Listing
  BY <1>1, KindsApart DEF EditorInv, Listing
<1>4. /\ DOMAIN g = DOMAIN flight /\ \A j \in DOMAIN flight : j # i => g[j] = flight[j]
      /\ g[i].kind = q.kind /\ g[i].row = q.row /\ g[i].state = "done"
  BY <1>1, <1>2, AnsweredIs
<1>5. \A j \in DOMAIN flight : j < i /\ Restructures(flight[j]) => flight[j].state # "sent"
  BY <1>1, <1>3, FirstSent
<1>6. Lined(g, u)
  BY <1>1, <1>2, <1>3, <1>4, <1>5, RestructuredLines DEF Matched
<1>7. PICK r : r = g[i]
  OBVIOUS
<1>8. ToSet(g) = Rest(flight, i) \union {r} /\ ToSet(flight) = Rest(flight, i) \union {q}
  BY <1>1, <1>3, <1>4, <1>7, SetOfRest, AnsweredSet
<1>9. PICK P, Q : P = Pending(ToSet(flight)) /\ Q = Pending(ToSet(g))
  OBVIOUS
<1>10. q \in P /\ Q \subseteq P /\ \A p \in P : p \in Q \/ p.row.id = q.row.id
  BY <1>1, <1>3, <1>4, <1>7, <1>8, <1>9 DEF Pending
<1>11. ASSUME NEW p \in P PROVE \E j \in DOMAIN flight : p = flight[j] /\ p.kind = "create" /\ p.state = "sent"
  BY <1>9 DEF Pending, ToSet
<1>12. \A p \in P : q.row.id <= p.row.id
  <2>1. ASSUME NEW p \in P PROVE q.row.id <= p.row.id
    <3>1. PICK j \in DOMAIN flight : p = flight[j] /\ p.kind = "create" /\ p.state = "sent"
      BY <1>11
    <3>2. q.row.id \in Int /\ p.row.id \in Int
      BY <1>1, <1>3, <3>1, CreatedSoFar DEF CreatedUpTo
    <3>3. CASE j = i
      BY <1>1, <3>1, <3>2, <3>3
    <3>4. CASE j < i
      <4>1. Restructures(flight[j])
        BY <3>1, KindsApart
      <4> QED
        BY <1>5, <3>1, <3>4, <4>1
    <3>5. CASE i < j
      <4>1. flight[i].row.id < flight[j].row.id
        BY <1>1, <1>3, <3>1, <3>5 DEF Matched, Lined, CreatedInOrder
      <4> QED
        BY <1>1, <3>1, <3>2, <4>1
    <3>6. i \in Int /\ j \in Int
      BY <1>3, IsSeqDomain
    <3> QED
      BY <3>3, <3>4, <3>5, <3>6
  <2> QED
    BY <2>1
<1>13. \A p \in Q : p.row.id # q.row.id
  <2>1. ASSUME NEW p \in Q, p.row.id = q.row.id PROVE FALSE
    <3>1. p \in Rest(flight, i)
      BY <1>4, <1>7, <1>8, <1>9, <2>1 DEF Pending
    <3>2. PICK j \in DOMAIN flight : j # i /\ p = flight[j]
      BY <3>1 DEF Rest
    <3>3. p.kind = "create"
      BY <1>9, <2>1 DEF Pending
    <3> QED
      BY <1>1, <1>3, <2>1, <3>2, <3>3, CreationsDiffer
  <2> QED
    BY <2>1
<1>14. InsertsBlock(u, table, q.row.id, html, q.row.index)
  BY <1>1, <1>2
<1>15. StoreMatches(ToSet(g), u, store, made)
  <2>1. CASE \E w \in ToSet(flight) : Rearranges(w)
    <3>1. \E w \in ToSet(g) : Rearranges(w)
      BY <1>3, <1>8, <2>1, KindsApart
    <3> QED
      BY <3>1 DEF StoreMatches
  <2>2. ASSUME NEW H, Stages(H, P, table, made), Placed(H[made], store, table)
        PROVE  StoreMatches(ToSet(g), u, store, made)
    <3>0. PICK t, n : t = table /\ n = made
      OBVIOUS
    <3>5. Stages(H, P, t, n) /\ InsertsBlock(u, t, q.row.id, html, q.row.index)
      BY <1>14, <2>2, <3>0
    <3>6. Foremost(q, P, Q)
      BY <1>10, <1>12, <1>13 DEF Foremost
    <3>7. \E G : Stages(G, Q, u, n) /\ G[n] = H[n]
      <4>1. Stages(H, P, t, n)
        BY <3>5
      <4>2. InsertsBlock(u, t, q.row.id, html, q.row.index)
        BY <3>5
      <4> QED
        BY <3>6, <4>1, <4>2, StagesServe
    <3>1. PICK G : Stages(G, Q, u, made) /\ G[made] = H[made]
      BY <3>0, <3>7
    <3>2. \A b \in Ids(store) : b \in DOMAIN table => b \in DOMAIN u /\ u[b].rowid = table[b].rowid
      BY <1>14 DEF InsertsBlock
    <3>3. PICK h : h = H[made]
      OBVIOUS
    <3>4. Placed(h, store, u)
      BY <2>2, <3>2, <3>3, StillPlaced
    <3> QED
      BY <1>9, <3>1, <3>3, <3>4 DEF StoreMatches
  <2> QED
    BY <1>9, <2>1, <2>2 DEF Matched, StoreMatches
<1> QED
  BY <1>2, <1>6, <1>15 DEF Matched

LEMMA ServeMatches ==
  ASSUME EditorInv, CalmInv, Orderly, Matched, NEW i \in DOMAIN flight, Serve(i), ~overtaken'
  PROVE  Matched'
<1> DEFINE q == flight[i]
<1>1. UNCHANGED <<store, made>> /\ q.state = "sent"
  BY DEF Serve, bounds
<1>2. overtaken' = (overtaken \/ Overtakes(i)) /\ ~overtaken'
  BY DEF Serve
<1>3. ~Overtakes(i)
  BY <1>2, Zenon
<1>4. IsTable(table, made) /\ IsRequest(q)
  BY ToldApart DEF EditorInv
<1>5. CASE /\ q.kind \in {"create", "recreate"}
           /\ CreateBlock(q.row.id, q.row.html, q.row.type, q.row.index)
           /\ Answer(i, "done", <<>>)
  <2>1. /\ q.row.id \notin DOMAIN table
        /\ table' = Inserted(table, q.row.id, q.row.html, q.row.type, q.row.index)
    BY <1>5 DEF CreateBlock
  <2>2. q.row.index \in Int
    BY <1>4 DEF IsRequest, IsRow
  <2>3. InsertsBlock(table', table, q.row.id, q.row.html, q.row.index)
    <3> HIDE DEF q
    <3> QED
      BY <1>4, <2>1, <2>2, InsertedColumns
  <2>4. CASE q.kind = "create"
    BY <1>1, <1>3, <1>5, <2>3, <2>4, CreationServedMatches
  <2>5. CASE q.kind = "recreate"
    <3>1. Rearranges(q) /\ q.kind \notin Listing
      BY <2>5 DEF Rearranges, Listing
    <3> QED
      BY <1>1, <1>3, <1>5, <3>1, RearrangementServedMatches
  <2> QED
    BY <1>5, <2>4, <2>5
<1>6. CASE q.kind = "update" /\ ServeUpdate(i)
  <2>1. /\ flight' = RemoveAt(flight, i)
        /\ \E type : table' = Rewritten(table, q.row.id, q.row.html, type)
    BY <1>6 DEF ServeUpdate, UpdateBlock
  <2>2. RewritesBlock(table', table, q.row.id, q.row.html)
    <3> HIDE DEF q
    <3> QED
      BY <1>4, <2>1, RewrittenColumns
  <2>3. StaysPut(table', table) /\ DOMAIN table' = DOMAIN table /\ Writes(q)
    BY <1>6, <2>2 DEF StaysPut, RewritesBlock, Writes
  <2> QED
    BY <1>1, <2>1, <2>3, WriteServedMatches
<1>7. CASE q.kind = "delete" /\ DeleteBlock(q.row.id) /\ Answer(i, "done", <<>>)
  <2>1. table' = Without(table, q.row.id)
    BY <1>7 DEF DeleteBlock
  <2>2. DOMAIN table' = DOMAIN table \ {q.row.id} /\ StaysPut(table', table)
    BY <2>1 DEF Without, StaysPut
  <2>3. Writes(q) /\ q.row.id \notin Ids(store)
    BY <1>1, <1>7, ServedElsewhere DEF Writes
  <2>4. /\ DOMAIN flight' = DOMAIN flight /\ \A j \in DOMAIN flight : j # i => flight'[j] = flight[j]
        /\ flight'[i].kind = q.kind
    BY <1>7, AnsweredIs
  <2>5. \A b \in Ids(store) : b \in DOMAIN table => b \in DOMAIN table'
    BY <2>2, <2>3
  <2> QED
    BY <1>1, <2>2, <2>3, <2>4, <2>5, WriteServedMatches
<1>8. CASE /\ q.kind \in {"update", "delete"} /\ q.row.id \notin DOMAIN table
           /\ Answer(i, "refused", <<>>) /\ UNCHANGED table
  <2>1. StaysPut(table', table) /\ DOMAIN table' = DOMAIN table /\ Writes(q)
    BY <1>8 DEF StaysPut, Writes
  <2>2. /\ DOMAIN flight' = DOMAIN flight /\ \A j \in DOMAIN flight : j # i => flight'[j] = flight[j]
        /\ flight'[i].kind = q.kind
    BY <1>8, AnsweredIs
  <2> QED
    BY <1>1, <2>1, <2>2, WriteServedMatches
<1>9. CASE q.kind = "reorder" /\ ReorderBlocks(q.ids) /\ Answer(i, "done", Adopted(table'))
  <2>1. table' = Reordered(table, q.ids) /\ IsPlaces(q.ids)
    BY <1>4, <1>9 DEF ReorderBlocks, IsRequest
  <2>2. IsTable(table', made)
    <3> HIDE DEF q
    <3> QED
      BY <1>4, <2>1, ReorderedIs
  <2>3. PICK u : u = table'
    OBVIOUS
  <2>4. PICK rows : rows = Adopted(table')
    OBVIOUS
  <2>5. RowsMatch(rows, table')
    <3>1. RowsMatch(Adopted(u), u)
      BY <2>2, <2>3, AdoptedMatches
    <3> QED
      BY <2>3, <2>4, <3>1
  <2>6. Rearranges(q) /\ Answer(i, "done", rows)
    BY <1>9, <2>4 DEF Rearranges
  <2> QED
    BY <1>1, <1>3, <2>5, <2>6, RearrangementServedMatches
<1>10. CASE q.kind = "relist" /\ Answer(i, "done", Adopted(table)) /\ UNCHANGED table
  <2>1. PICK rows : rows = Adopted(table)
    OBVIOUS
  <2>2. RowsMatch(rows, table')
    BY <1>4, <1>10, <2>1, AdoptedMatches
  <2>3. Rearranges(q) /\ Answer(i, "done", rows)
    BY <1>10, <2>1 DEF Rearranges
  <2> QED
    BY <1>1, <1>3, <2>2, <2>3, RearrangementServedMatches
<1> QED
  BY <1>5, <1>6, <1>7, <1>8, <1>9, <1>10 DEF Serve

-----------------------------------------------------------------------------
(* And so does the client, taking the answers in.                          *)

LEMMA FirstAnswered ==
  ASSUME EditorInv, NEW i \in DOMAIN flight, Reply(i), ~overtaken'
  PROVE  /\ ~AnswerOvertakes(i)
         /\ Restructures(flight[i]) => \A j \in DOMAIN flight : j < i => ~Restructures(flight[j])
<1>1. overtaken' = (overtaken \/ AnswerOvertakes(i)) /\ ~overtaken'
  BY DEF Reply
<1>2. ~AnswerOvertakes(i)
  BY <1>1, Zenon
<1>3. Len(flight) \in Nat /\ DOMAIN flight = 1..Len(flight)
  BY IsSeqDomain DEF EditorInv
<1>4. ASSUME NEW j \in DOMAIN flight, j < i PROVE j \in 1..i - 1
  BY <1>3, <1>4
<1> QED
  BY <1>2, <1>4 DEF AnswerOvertakes, Restructures

LEMMA GoneLines ==
  ASSUME EditorInv, Matched, NEW i \in DOMAIN flight, Reply(i), ~overtaken'
  PROVE  Lined(RemoveAt(flight, i), table)
<1>1. IsSeq(flight) /\ Lined(flight, table) /\ StaysPut(table, table)
  BY DEF EditorInv, Matched, StaysPut
<1>2. Restructures(flight[i]) => \A j \in DOMAIN flight : j < i => ~Restructures(flight[j])
  BY FirstAnswered
<1> QED
  BY <1>1, <1>2, RemovedLines

\* An answer that leaves the store alone, to a request that moved no block.
LEMMA SettledMatches ==
  ASSUME EditorInv, Matched, NEW i \in DOMAIN flight, Reply(i), ~overtaken', Settled(i),
         flight[i].state # "sent", ~Rearranges(flight[i]), UNCHANGED store
  PROVE  Matched'
<1>1. UNCHANGED <<table, made>> /\ flight' = RemoveAt(flight, i)
  BY DEF Reply, bounds, Settled
<1>2. PICK q : q = flight[i]
  OBVIOUS
<1>3. PICK g : g = flight'
  OBVIOUS
<1>4. Lined(g, table)
  BY <1>1, <1>3, GoneLines
<1>5. ToSet(g) = Rest(flight, i) /\ ToSet(flight) = Rest(flight, i) \union {q}
  BY <1>1, <1>2, <1>3, SetOfRest DEF EditorInv
<1>6. /\ \A w \in ToSet(flight) : Rearranges(w) => w \in ToSet(g)
      /\ Pending(ToSet(g)) = Pending(ToSet(flight))
  BY <1>2, <1>5 DEF Pending
<1>7. StaysPut(table, table)
  BY DEF StaysPut
<1>8. StoreMatches(ToSet(g), table, store, made)
  BY <1>6, <1>7, StoreStays DEF Matched
<1> QED
  BY <1>1, <1>3, <1>4, <1>8 DEF Matched

LEMMA CreatedMatches ==
  ASSUME EditorInv, Orderly, Matched, NEW i \in DOMAIN flight, Reply(i), ~overtaken', Created(i)
  PROVE  Matched'
<1> DEFINE I == {j \in DOMAIN held : held[j].row.id = flight[i].row.id}
<1>1. /\ UNCHANGED <<table, made, store>> /\ flight[i].kind = "create" /\ flight[i].state = "done"
      /\ flight' = RemoveAt(flight, i) \o Picked(held, I)
  BY DEF Reply, bounds, Created, Answered, Released
<1>2. I \subseteq DOMAIN held /\ IsSeq(held) /\ IsSeq(flight)
  BY DEF EditorInv
<1> HIDE DEF I
<1>3. PICK q, g, A : q = flight[i] /\ g = RemoveAt(flight, i) /\ A = Picked(held, I)
  OBVIOUS
<1>4. PICK f : f = flight'
  OBVIOUS
<1>5. IsSeq(A) /\ ToSet(A) = {held[j] : j \in I}
  BY <1>2, <1>3, PickedIs, SetOfPicked, Zenon
<1>6. ASSUME NEW w \in ToSet(A) PROVE Writes(w)
  <2>1. w \in ToSet(held)
    BY <1>2, <1>5, <1>6 DEF ToSet
  <2> QED
    BY <2>1 DEF Orderly, InTurn
<1>7. IsSeq(g) /\ ToSet(g) = Rest(flight, i) /\ ToSet(flight) = Rest(flight, i) \union {q}
  BY <1>2, <1>3, IsSeqDomain, RemoveAtIs, SetOfRest
<1>8. ToSet(f) = ToSet(g) \union ToSet(A)
  BY <1>1, <1>3, <1>4, <1>5, <1>7, SetOfCat
<1>9. Lined(f, table)
  <2>1. JoinsLast(A, made)
    <3>1. \A p \in DOMAIN A : A[p] \in ToSet(A)
      BY DEF ToSet
    <3> QED
      BY <1>6, <3>1, KindsApart DEF JoinsLast
  <2>2. CreatedUpTo(g, made) /\ made \in Nat
    <3>1. \A p \in DOMAIN g : g[p] \in ToSet(flight)
      <4>1. \A p \in DOMAIN g : g[p] \in ToSet(g)
        BY DEF ToSet
      <4> QED
        BY <1>7, <4>1
    <3>2. \A w \in ToSet(flight) : w.kind = "create" => w.row.id \in 1..made
      BY CreatedSoFar DEF CreatedUpTo, ToSet
    <3> QED
      BY <3>1, <3>2, CreatedSoFar DEF CreatedUpTo
  <2>3. Lined(g, table)
    BY <1>3, GoneLines
  <2>4. Lined(g \o A, table)
    BY <1>5, <1>7, <2>1, <2>2, <2>3, JoinedLines
  <2> QED
    BY <1>1, <1>3, <1>4, <2>4
<1>10. StoreMatches(ToSet(f), table, store, made)
  <2>1. q.kind = "create" /\ q.state = "done"
    BY <1>1, <1>3
  <2>2. \A w \in ToSet(A) : w.kind # "create"
    BY <1>6, KindsApart
  <2>3. /\ \A w \in ToSet(flight) : Rearranges(w) => w \in ToSet(f)
        /\ Pending(ToSet(f)) = Pending(ToSet(flight))
    BY <1>7, <1>8, <2>1, <2>2, KindsApart DEF Pending
  <2>4. StaysPut(table, table)
    BY DEF StaysPut
  <2> QED
    BY <2>3, <2>4, StoreStays DEF Matched
<1> QED
  BY <1>1, <1>4, <1>9, <1>10 DEF Matched

LEMMA RecreatedMatches ==
  ASSUME EditorInv, Matched, NEW i \in DOMAIN flight, Reply(i), ~overtaken', Recreated(i)
  PROVE  Matched'
<1> DEFINE r == Relisting(i)
           R == <<r>>
<1>1. UNCHANGED table
  BY DEF Reply
<1>2. PICK g : g = RemoveAt(flight, i)
  OBVIOUS
<1>3. IsSeq(g) /\ IsSeq(R) /\ flight' = g \o R
  BY <1>2, RecreatedIs, Zenon
<1>4. Rearranges(r) /\ r.state = "sent"
  BY DEF Relisting, Request, Rearranges
<1>5. IsSeq(R) /\ DOMAIN R = {1} /\ R[1] = r
  BY OneIs
<1> HIDE DEF R, r
<1>6. ToSet(g) \subseteq ToSet(flight) /\ ToSet(flight') = ToSet(g) \union ToSet(R) /\ r \in ToSet(R)
  <2>1. ToSet(g) \subseteq ToSet(flight)
    BY <1>2, SetOfRest DEF EditorInv
  <2>2. ToSet(flight') = ToSet(g) \union ToSet(R)
    BY <1>3, SetOfCat
  <2> QED
    BY <1>5, <2>1, <2>2 DEF ToSet
<1>7. JoinsLast(R, made)
  BY <1>4, <1>5, KindsApart DEF JoinsLast
<1>8. CreatedUpTo(g, made) /\ made \in Nat
  <2>1. \A p \in DOMAIN g : g[p] \in ToSet(flight)
    <3>1. \A p \in DOMAIN g : g[p] \in ToSet(g)
      BY DEF ToSet
    <3> QED
      BY <1>6, <3>1
  <2>2. \A w \in ToSet(flight) : w.kind = "create" => w.row.id \in 1..made
    BY CreatedSoFar DEF CreatedUpTo, ToSet
  <2> QED
    BY <2>1, <2>2, CreatedSoFar DEF CreatedUpTo
<1>9. Lined(g \o R, table)
  <2>1. Lined(g, table)
    BY <1>2, GoneLines
  <2> QED
    BY <1>3, <1>7, <1>8, <2>1, JoinedLines
<1> QED
  BY <1>1, <1>3, <1>4, <1>6, <1>9 DEF Matched, StoreMatches

\* The listing that no other order follows takes the store's place.
LEMMA AdoptedStoreMatches ==
  ASSUME EditorInv, CalmInv, Matched, NEW i \in DOMAIN flight, Reply(i), ~overtaken', ~misread', ~refused',
         Lists(flight[i]), Settled(i), Adopt(flight[i].rows)
  PROVE  Matched'
<1>1. UNCHANGED <<table, made>> /\ flight' = RemoveAt(flight, i)
  BY DEF Reply, bounds, Settled
<1>2. PICK q, g, rows : q = flight[i] /\ g = flight' /\ rows = flight[i].rows
  OBVIOUS
<1>3. store' = rows
  BY <1>2 DEF Adopt, ShowFrom
<1>4. Lined(g, table)
  BY <1>1, <1>2, GoneLines
<1>5. ToSet(g) = Rest(flight, i)
  BY <1>1, <1>2, SetOfRest DEF EditorInv
<1>6. ~AnswerOvertakes(i) /\ Restructures(q) /\ q.kind \in Listing
  BY <1>2, FirstAnswered, ListsRestructure DEF Lists
<1>7. \A j \in DOMAIN flight : flight[j].kind # "create"
  BY <1>2, <1>6 DEF AnswerOvertakes
<1>8. CASE \E w \in ToSet(g) : Rearranges(w)
  BY <1>1, <1>2, <1>4, <1>8 DEF Matched, StoreMatches
<1>9. CASE \A w \in ToSet(g) : ~Rearranges(w)
  <2>1. ASSUME NEW j \in DOMAIN flight, i < j PROVE ~Restructures(flight[j])
    <3>1. j # i
      BY <2>1, IsSeqDomain DEF EditorInv
    <3>2. flight[j] \in ToSet(g)
      BY <1>5, <3>1 DEF Rest
    <3> QED
      BY <1>7, <1>9, <3>2, KindsApart
  <2>2. RowsMatch(rows, table)
    BY <1>2, <2>1 DEF Matched, Lined, ListsMatch, LastToRestructure
  <2>3. Pending(ToSet(g)) = {}
    BY <1>5, <1>7 DEF Pending, Rest
  <2>4. Ids(rows) \subseteq DOMAIN table
    <3>1. CalmInv'
      BY ReplyIsCalm
    <3>2. InTurn(ToSet(flight'), ToSet(held'), DOMAIN table', Ids(store'))
      BY <3>1 DEF CalmInv
    <3>3. \A b \in Ids(rows) : b \in DOMAIN table \/ \E w \in ToSet(g) : Creating(w, b)
      BY <1>1, <1>2, <1>3, <3>2 DEF InTurn
    <3> QED
      BY <2>3, <3>3 DEF Pending, Creating
  <2>5. IsTable(table, made) /\ made \in Nat /\ DOMAIN table \subseteq 1..made
    BY DEF EditorInv, IsTable
  <2>6. PICK H : Stages(H, {}, table, made)
    BY <2>5, StagesStart
  <2>7. PICK h : h = H[made]
    OBVIOUS
  <2>8. \A b \in DOMAIN table : h[b] = table[b].index
    BY <2>6, <2>7, StagesEnd
  <2>9. Placed(h, rows, table)
    BY <2>2, <2>4, <2>5, <2>8, ListedPlaced
  <2>10. StoreMatches(ToSet(g), table, rows, made)
    BY <2>3, <2>6, <2>7, <2>9 DEF StoreMatches
  <2> QED
    BY <1>1, <1>2, <1>3, <1>4, <2>10 DEF Matched
<1> QED
  BY <1>8, <1>9

LEMMA UpdateFailedMatches ==
  ASSUME EditorInv, CalmInv, Orderly, Matched, NEW i \in DOMAIN flight, Reply(i), ~overtaken', UpdateFailed(i)
  PROVE  Matched'
<1> DEFINE r == flight[i]
<1>1. r.kind = "update" /\ r.state = "refused" /\ Show(RolledBack(r)) /\ Settled(i)
  BY DEF UpdateFailed, Answered
<1>2. r.row.id \notin Ids(store)
  <2>1. r \in ToSet(flight)
    BY DEF ToSet
  <2> QED
    BY <1>1, <2>1 DEF Orderly, InTurn
<1>3. RolledBack(r) = store
  <2>1. \A k \in DOMAIN store : store[k].id # r.row.id
    BY <1>2 DEF Ids
  <2>2. RolledBack(r) = [k \in DOMAIN store |-> store[k]]
    BY <2>1 DEF RolledBack
  <2>3. store = [k \in DOMAIN store |-> store[k]]
    BY IsSeqDomain DEF EditorInv, IsRows, IsSeq
  <2> QED
    BY <2>2, <2>3
<1>4. store' = store
  BY <1>1, <1>3 DEF Show, ShowFrom
<1>5. ~Rearranges(r)
  BY <1>1 DEF Rearranges
<1> QED
  BY <1>1, <1>4, <1>5, SettledMatches

LEMMA ReplyMatches ==
  ASSUME EditorInv, CalmInv, Orderly, Matched, NEW i \in DOMAIN flight, Reply(i),
         ~overtaken', ~misread', ~refused'
  PROVE  Matched'
<1>1. flight[i] \in ToSet(flight)
  BY DEF ToSet
<1>2. ~CreateFailed(i) /\ ~DeleteFailed(i) /\ ~UndoFailed(i)
  BY <1>1 DEF CreateFailed, DeleteFailed, UndoFailed, Answered, Orderly, InTurn, Creates, Reply
<1>3. CASE Deleted(i)
  <2>1. /\ flight[i].kind = "delete" /\ flight[i].state = "done" /\ Settled(i) /\ UNCHANGED store
    BY <1>3 DEF Deleted, Answered
  <2>2. ~Rearranges(flight[i])
    BY <2>1 DEF Rearranges
  <2> QED
    BY <2>1, <2>2, SettledMatches
<1>4. CASE ReorderAnswered(i)
  <2>1. flight[i].kind = "reorder" /\ flight[i].state # "sent" /\ Settled(i)
    BY <1>4 DEF ReorderAnswered
  <2>2. Restructures(flight[i]) /\ IsRequest(flight[i]) /\ flight[i].kind \in Listing
    BY <2>1, ToldApart DEF Restructures, Structural, Listing
  <2>3. flight[i].state = "done"
    BY <2>1, <2>2 DEF IsRequest, Matched, Lined, NoneRefused
  <2>4. Adopt(flight[i].rows)
    BY <1>4, <2>3 DEF ReorderAnswered
  <2> QED
    BY <2>1, <2>2, <2>3, <2>4, AdoptedStoreMatches DEF Lists
<1>5. CASE Relisted(i)
  <2>1. flight[i].kind = "relist" /\ flight[i].state = "done" /\ Settled(i) /\ Adopt(flight[i].rows)
    BY <1>5 DEF Relisted, Answered
  <2>2. Lists(flight[i])
    BY <2>1 DEF Lists, Listing
  <2> QED
    BY <2>1, <2>2, AdoptedStoreMatches
<1> QED
  BY <1>2, <1>3, <1>4, <1>5, CreatedMatches, RecreatedMatches, UpdateFailedMatches DEF Reply

LEMMA OrderStep ==
  ASSUME EditorInv, CalmInv, OrderInv, [EditorNext]_editorVars
  PROVE  OrderInv'
<1> SUFFICES ASSUME Clean' PROVE Matched'
  BY DEF OrderInv
<1>0. Clean
  BY CleanBefore
<1>c. Matched /\ Orderly /\ ~refused' /\ ~misread' /\ ~overtaken' /\ ~uncut'
  BY <1>0, CleanIsOrderly DEF OrderInv, Clean
<1>1. ASSUME NEW b, Type(b) \/ MakeList(b)
      PROVE  Matched'
  <2>1. PICK html : Edit(b, html)
    BY <1>1 DEF Type, MakeList
  <2> QED
    BY <1>c, <2>1, EditMatches
<1>2. CASE Blur \/ (\E b \in Block : Click(b)) \/ UNCHANGED editorVars
  <2>1. UNCHANGED <<table, store, flight, made>>
    BY <1>2 DEF Blur, Click, editorVars, bounds
  <2> QED
    BY <1>c, <2>1, StoreLeaves, StillMatches DEF EditorInv
<1>3. CASE Restructure
  <2>1. CASE \E b \in Block, k \in 0..typed : Enter(b, k) \/ ModEnter(b, k)
    BY <1>c, <2>1, EnterMatches DEF ModEnter
  <2>2. CASE \E b \in Block : InsertBlockAfter(b)
    BY <1>c, <2>2, InsertMatches
  <2>3. CASE \E i \in DOMAIN store : Backspace(i) \/ ForwardDelete(i)
    BY <1>c, <2>3, BackspaceMatches
  <2> QED
    BY <1>3, <2>1, <2>2, <2>3 DEF Restructure
<1>4. CASE Saving
  <2>1. ASSUME NEW i \in DOMAIN flight, Serve(i) PROVE Matched'
    BY <1>c, <2>1, ServeMatches
  <2>2. ASSUME NEW i \in DOMAIN flight, Reply(i) PROVE Matched'
    BY <1>c, <2>2, ReplyMatches
  <2>3. ASSUME NEW i \in DOMAIN flight, Refuse(i) PROVE Matched'
    BY <1>c, <2>3 DEF Refuse
  <2>4. CASE \E b \in Block : TimerFires(b)
    BY <1>c, <2>4, TimerMatches
  <2> QED
    BY <1>4, <2>1, <2>2, <2>3, <2>4 DEF Saving
<1>5. ASSUME NEW b \in Block, LeaveList(b) \/ DuplicateBlock(b) \/ RemoveBlock(b)
      PROVE  Matched'
  BY <1>c, <1>5, LeaveListMatches, InsertMatches, RemoveMatches
<1>6. ASSUME NEW i \in DOMAIN store, MoveBlock(i)
      PROVE  Matched'
  BY <1>c, <1>6, MoveMatches
<1> QED
  BY <1>1, <1>2, <1>3, <1>4, <1>5, <1>6, <1>c, UndoMatches DEF EditorNext

\* With nothing under way, the screen is in the server's order, too.
LEMMA QuietScreenIsSaved == EditorInv /\ TextInv /\ OrderInv => ScreenIsSaved
<1> SUFFICES ASSUME EditorInv, TextInv, OrderInv, Quiet, Clean
             PROVE  /\ ListBlocks(table) = Order(store)
                    /\ \A b \in Ids(store) : table[b].html = shown[b]
                    /\ \A b \in Ids(store) : RowIn(store, b).html = shown[b]
  BY DEF ScreenIsSaved, Clean
<1>1. Text /\ Matched
  BY DEF TextInv, OrderInv
<1>2. flight = <<>>
  BY DEF Quiet
<1>3. ToSet(flight) = {} /\ Pending(ToSet(flight)) = {}
  BY <1>2 DEF ToSet, Pending
<1>4. PICK H : Stages(H, {}, table, made) /\ Placed(H[made], store, table)
  BY <1>1, <1>3 DEF Matched, StoreMatches
<1>5. PICK h : h = H[made]
  OBVIOUS
<1>6. \A b \in DOMAIN table : h[b] = table[b].index
  BY <1>4, <1>5, StagesEnd
<1>7. Ids(store) = DOMAIN table
  <2>1. DOMAIN table \subseteq Ids(store)
    BY QuietHidesNothing DEF NothingHidden, Clean
  <2> QED
    BY <1>1, <2>1, QuietTextIsSaved
<1>8. ListBlocks(table) = Order(store)
  <2>1. IsTable(table, made) /\ IsRows(store) /\ Placed(h, store, table)
    BY <1>4, <1>5 DEF EditorInv
  <2> QED
    BY <1>6, <1>7, <2>1, PlacedInOrder
<1> QED
  BY <1>1, <1>8, QuietTextIsSaved

\* When nothing is under way any more, the screen shows what the server has,
\* block by block and in its order: no step of the debounced saves, splits,
\* merges, moves, undos and their answers (blockStore.ts, BlockEditor.tsx) loses
\* a write or a place, while every request succeeds, none overtakes one it does
\* not commute with, no edit brings a block back to what it last saved, and no
\* Mod-Enter divides a block.
THEOREM ScreenIsSavedInTheEnd == EditorSpec => []ScreenIsSaved
<1>1. EditorInit => EditorInv /\ CalmInv /\ TextInv /\ OrderInv
  BY InitKeeps, CalmInit, TextInit, OrderInit
<1>2. EditorInv /\ CalmInv /\ TextInv /\ OrderInv /\ [EditorNext]_editorVars
        => EditorInv' /\ CalmInv' /\ TextInv' /\ OrderInv'
  BY StepKeeps, CalmStep, TextStep, OrderStep
<1>3. EditorInv /\ TextInv /\ OrderInv => ScreenIsSaved
  BY QuietScreenIsSaved
<1> QED
  BY <1>1, <1>2, <1>3, PTL DEF EditorSpec

-----------------------------------------------------------------------------
(* Induction along a list, and lists laid end to end.                      *)

LEMMA ClimbsUp ==
  ASSUME NEW n \in Nat, NEW T, 0 \in T, \A i \in 1..n : i - 1 \in T => i \in T
  PROVE  0..n \subseteq T
<1> SUFFICES ASSUME NEW z \in 0..n, z \notin T PROVE FALSE
  OBVIOUS
<1> DEFINE M == {i \in 0..n : i \notin T}
<1>1. M \subseteq Nat /\ M # {}
  OBVIOUS
<1>2. PICK m \in M : \A j \in M : <<j, m>> \notin OpToRel(<, Nat)
  <2> HIDE DEF M
  <2> QED
    BY <1>1, NatLessThanWellFounded, WFMin, Zenon
<1>3. \A j \in M : ~(j < m)
  BY <1>1, <1>2 DEF OpToRel
<1>4. m \in 1..n /\ m \notin T
  OBVIOUS
<1>5. m - 1 \in 0..n /\ m - 1 < m
  BY <1>4
<1>6. m - 1 \in T
  BY <1>3, <1>5
<1> QED
  BY <1>4, <1>6

LEMMA CatsAssociate ==
  ASSUME NEW s, IsSeq(s), NEW t, IsSeq(t), NEW u, IsSeq(u)
  PROVE  (s \o t) \o u = s \o (t \o u)
<1> DEFINE T == {s[i] : i \in 1..Len(s)} \union {t[i] : i \in 1..Len(t)} \union {u[i] : i \in 1..Len(u)}
<1>1. /\ \A i \in 1..Len(s) : s[i] \in T
      /\ \A i \in 1..Len(t) : t[i] \in T
      /\ \A i \in 1..Len(u) : u[i] \in T
  OBVIOUS
<1> HIDE DEF T
<1>2. s \in Seq(T) /\ t \in Seq(T) /\ u \in Seq(T)
  BY <1>1, IsSeqIn
<1> QED
  BY <1>2, ConcatAssociative

LEMMA EmptyCat ==
  ASSUME NEW s, IsSeq(s)
  PROVE  <<>> \o s = s /\ s \o <<>> = s
<1> DEFINE T == {s[i] : i \in 1..Len(s)}
<1>1. \A i \in 1..Len(s) : s[i] \in T
  OBVIOUS
<1> HIDE DEF T
<1>2. s \in Seq(T)
  BY <1>1, IsSeqIn
<1> QED
  BY <1>2, ConcatEmptySeq

LEMMA CutsRejoin ==
  ASSUME NEW s, IsSeq(s), NEW k \in 0..Len(s)
  PROVE  SubSeq(s, 1, k) \o SubSeq(s, k + 1, Len(s)) = s
<1> DEFINE T == {s[i] : i \in 1..Len(s)}
<1>1. \A i \in 1..Len(s) : s[i] \in T
  OBVIOUS
<1> HIDE DEF T
<1>2. s \in Seq(T) /\ Len(s) \in Nat
  BY <1>1, IsSeqIn DEF IsSeq
<1>3. SubSeq(s, 1, k) \o SubSeq(s, k + 1, Len(s)) = SubSeq(s, 1, Len(s))
  <2>1. 1 \in 1..Len(s) + 1 /\ k \in 1 - 1..Len(s) /\ Len(s) \in k..Len(s)
    BY <1>2
  <2> QED
    BY <1>2, <2>1, ConcatAdjacentSubSeq
<1>4. SubSeq(s, 1, Len(s)) = s
  <2> DEFINE u == SubSeq(s, 1, Len(s))
  <2>1. 1 \in 1..Len(s) + 1 /\ Len(s) \in 0..Len(s) /\ 1 <= Len(s) + 1
    BY <1>2
  <2>2. IsSeq(u) /\ Len(u) = Len(s) + 1 - 1 /\ \A i \in 1..Len(s) + 1 - 1 : u[i] = s[1 + i - 1]
    BY <2>1, SubSeqIs
  <2> HIDE DEF u
  <2>3. Len(u) = Len(s) /\ \A i \in 1..Len(s) : u[i] = s[i]
    BY <1>2, <2>2
  <2>4. u = [i \in 1..Len(s) |-> s[i]]
    BY <2>2, <2>3 DEF IsSeq
  <2>5. u = s
    BY <2>4 DEF IsSeq
  <2> QED
    BY <2>5 DEF u
<1> QED
  BY <1>3, <1>4, Zenon

\* it gives what the first lists of s make, end to end.
FlattenedBy(it, s, n) ==
  it = [i \in 1..n |-> IF i = 1 THEN s[i] ELSE it[i - 1] \o s[i]]

LEMMA FlatteningIsDefined ==
  ASSUME NEW n \in Nat, NEW s
  PROVE  \E it : FlattenedBy(it, s, n)
<1> DEFINE T == {m \in 0..n : \E it : FlattenedBy(it, s, m)}
<1>1. 0 \in T
  <2>1. FlattenedBy([i \in 1..0 |-> <<>>], s, 0)
    BY DEF FlattenedBy
  <2> QED
    BY <2>1
<1>2. ASSUME NEW m \in 1..n, m - 1 \in T PROVE m \in T
  <2>1. PICK it : FlattenedBy(it, s, m - 1)
    BY <1>2
  <2> DEFINE v == IF m = 1 THEN s[m] ELSE it[m - 1] \o s[m]
             jt == [i \in 1..m |-> IF i = m THEN v ELSE it[i]]
  <2>2. ASSUME NEW i \in 1..m PROVE jt[i] = IF i = 1 THEN s[i] ELSE jt[i - 1] \o s[i]
    <3>1. CASE i = m
      <4>1. m # 1 => jt[m - 1] = it[m - 1]
        OBVIOUS
      <4> QED
        BY <3>1, <4>1
    <3>2. CASE i # m
      <4>1. i \in 1..m - 1
        BY <3>2
      <4>2. it[i] = IF i = 1 THEN s[i] ELSE it[i - 1] \o s[i]
        BY <2>1, <4>1 DEF FlattenedBy
      <4>3. jt[i] = it[i] /\ (i # 1 => jt[i - 1] = it[i - 1])
        BY <3>2
      <4> QED
        BY <4>2, <4>3
    <3> QED
      BY <3>1, <3>2
  <2>3. jt = [i \in 1..m |-> jt[i]]
    OBVIOUS
  <2> HIDE DEF jt, v
  <2>4. jt = [i \in 1..m |-> IF i = 1 THEN s[i] ELSE jt[i - 1] \o s[i]]
    BY <2>2, <2>3
  <2>5. FlattenedBy(jt, s, m)
    BY <2>4 DEF FlattenedBy
  <2> QED
    BY <2>5
<1>3. n \in T
  <2> HIDE DEF T
  <2> QED
    BY <1>1, <1>2, ClimbsUp
<1> QED
  BY <1>3

\* acc[i] is what the first i of the lists make.
Flattening(acc, s) ==
  /\ acc[0] = <<>>
  /\ \A i \in 0..Len(s) : IsSeq(acc[i])
  /\ \A i \in 1..Len(s) : acc[i] = acc[i - 1] \o s[i]
  /\ FlattenSeq(s) = acc[Len(s)]

IsLists(s) == IsSeq(s) /\ \A i \in 1..Len(s) : IsSeq(s[i])

LEMMA ListsFlatten ==
  ASSUME NEW s, IsLists(s)
  PROVE  \E acc : Flattening(acc, s)
<1> DEFINE n == Len(s)
           it == CHOOSE it : FlattenedBy(it, s, n)
           acc == [i \in 0..n |-> IF i = 0 THEN <<>> ELSE it[i]]
<1>1. n \in Nat
  BY DEF IsLists, IsSeq
<1>2. FlattenedBy(it, s, n)
  BY <1>1, FlatteningIsDefined
<1>3. FlattenSeq(s) = IF n = 0 THEN s ELSE it[n]
  BY DEF FlattenSeq, FlattenedBy
<1> HIDE DEF it
<1>4. acc[0] = <<>> /\ \A i \in 1..n : acc[i] = it[i]
  BY <1>1
<1> HIDE DEF acc
<1>5. ASSUME NEW i \in 1..n PROVE acc[i] = acc[i - 1] \o s[i]
  <2>0. it[i] = IF i = 1 THEN s[i] ELSE it[i - 1] \o s[i]
    BY <1>2 DEF FlattenedBy
  <2>1. CASE i = 1
    <3>1. <<>> \o s[1] = s[1]
      BY <2>1, EmptyCat DEF IsLists
    <3>2. acc[i] = s[1] /\ acc[i - 1] = <<>>
      BY <1>4, <2>0, <2>1
    <3> QED
      BY <2>1, <3>1, <3>2
  <2>2. CASE i # 1
    <3>1. i - 1 \in 1..n
      BY <1>1, <2>2
    <3> QED
      BY <1>4, <2>0, <2>2, <3>1
  <2> QED
    BY <2>1, <2>2
<1>6. \A i \in 0..n : IsSeq(acc[i])
  <2> DEFINE T == {i \in 0..n : IsSeq(acc[i])}
  <2>1. 0 \in T
    BY <1>1, <1>4 DEF IsSeq
  <2>2. ASSUME NEW i \in 1..n, i - 1 \in T PROVE i \in T
    <3>1. IsSeq(acc[i - 1]) /\ IsSeq(s[i])
      BY <2>2 DEF IsLists
    <3>2. IsSeq(acc[i - 1] \o s[i])
      BY <3>1, CatIs, Zenon
    <3>3. IsSeq(acc[i])
      BY <1>5, <3>2, Zenon
    <3> QED
      BY <1>1, <3>3
  <2>3. 0..n \subseteq T
    <3> HIDE DEF T
    <3> QED
      BY <1>1, <2>1, <2>2, ClimbsUp
  <2> QED
    BY <2>3
<1>7. FlattenSeq(s) = acc[n]
  <2>1. CASE n = 0
    <3>1. s = [i \in 1..0 |-> s[i]]
      BY <2>1 DEF IsLists, IsSeq
    <3>2. s = <<>>
      BY <3>1
    <3> QED
      BY <1>3, <1>4, <2>1, <3>2
  <2>2. CASE n # 0
    BY <1>1, <1>3, <1>4, <2>2
  <2> QED
    BY <2>1, <2>2
<1>8. Flattening(acc, s)
  BY <1>4, <1>5, <1>6, <1>7 DEF Flattening
<1> QED
  BY <1>8

\* t has two lists where s has one, end to end.
SplitAt(s, t, p) ==
  /\ Len(t) = Len(s) + 1 /\ p \in 1..Len(s)
  /\ \A i \in 1..p - 1 : t[i] = s[i]
  /\ s[p] = t[p] \o t[p + 1]
  /\ \A i \in p + 1..Len(s) : t[i + 1] = s[i]

LEMMA SplitReadsTheSame ==
  ASSUME NEW s, NEW t, IsLists(s), IsLists(t), NEW p, SplitAt(s, t, p)
  PROVE  FlattenSeq(s) = FlattenSeq(t)
<1> DEFINE n == Len(s)
<1>1. PICK a : Flattening(a, s)
  BY ListsFlatten
<1>2. PICK b : Flattening(b, t)
  BY ListsFlatten
<1>3. n \in Nat /\ Len(t) = n + 1 /\ p \in 1..n
  BY DEF IsLists, IsSeq, SplitAt
<1>4. \A i \in 0..p - 1 : a[i] = b[i]
  <2> DEFINE T == {i \in 0..p - 1 : a[i] = b[i]}
  <2>1. 0 \in T
    BY <1>1, <1>2, <1>3 DEF Flattening
  <2>2. ASSUME NEW i \in 1..p - 1, i - 1 \in T PROVE i \in T
    <3>1. i \in 1..n /\ i \in 1..n + 1 /\ t[i] = s[i] /\ a[i - 1] = b[i - 1]
      BY <1>3, <2>2 DEF SplitAt
    <3>2. a[i] = a[i - 1] \o s[i] /\ b[i] = b[i - 1] \o t[i]
      BY <1>1, <1>2, <1>3, <3>1 DEF Flattening
    <3>3. a[i] = b[i]
      BY <3>1, <3>2, Zenon
    <3> QED
      BY <3>3
  <2>3. p - 1 \in Nat
    BY <1>3
  <2>4. 0..p - 1 \subseteq T
    <3> HIDE DEF T
    <3> QED
      BY <2>1, <2>2, <2>3, ClimbsUp
  <2> QED
    BY <2>4
<1>5. a[p] = b[p + 1]
  <2>1. a[p] = a[p - 1] \o s[p] /\ b[p] = b[p - 1] \o t[p]
    <3>1. p \in 1..Len(s) /\ p \in 1..Len(t)
      BY <1>3
    <3> QED
      BY <1>1, <1>2, <3>1, Zenon DEF Flattening
  <2>2. b[p + 1] = b[p] \o t[p + 1]
    <3>1. p + 1 \in 1..Len(t) /\ (p + 1) - 1 = p
      BY <1>3
    <3> QED
      BY <1>2, <3>1 DEF Flattening
  <2>3. a[p - 1] = b[p - 1] /\ s[p] = t[p] \o t[p + 1]
    BY <1>3, <1>4 DEF SplitAt
  <2>4. IsSeq(b[p - 1]) /\ IsSeq(t[p]) /\ IsSeq(t[p + 1])
    <3>1. p - 1 \in 0..Len(t) /\ p \in 1..Len(t) /\ p + 1 \in 1..Len(t)
      BY <1>3
    <3> QED
      BY <1>2, <3>1 DEF Flattening, IsLists
  <2>5. (b[p - 1] \o t[p]) \o t[p + 1] = b[p - 1] \o (t[p] \o t[p + 1])
    <3>1. PICK x : x = b[p - 1]
      OBVIOUS
    <3>2. PICK y : y = t[p]
      OBVIOUS
    <3>3. PICK z : z = t[p + 1]
      OBVIOUS
    <3>4. IsSeq(x) /\ IsSeq(y) /\ IsSeq(z)
      BY <2>4, <3>1, <3>2, <3>3
    <3>5. (x \o y) \o z = x \o (y \o z)
      BY <3>4, CatsAssociate
    <3> QED
      BY <3>1, <3>2, <3>3, <3>5, Zenon
  <2> QED
    BY <2>1, <2>2, <2>3, <2>5, Zenon
<1>6. \A k \in 0..n - p : a[p + k] = b[p + k + 1]
  <2> DEFINE T == {k \in 0..n - p : a[p + k] = b[p + k + 1]}
  <2>1. 0 \in T
    <3>1. p + 0 = p /\ n - p \in Nat
      BY <1>3
    <3> QED
      BY <1>5, <3>1
  <2>2. ASSUME NEW k \in 1..n - p, k - 1 \in T PROVE k \in T
    <3>1. a[p + (k - 1)] = b[p + (k - 1) + 1]
      BY <2>2
    <3>2. PICK i : i = p + k
      OBVIOUS
    <3>3. i \in p + 1..n /\ i \in 1..n /\ i + 1 \in 1..n + 1 /\ p + (k - 1) = i - 1 /\ (i - 1) + 1 = i
      BY <1>3, <3>2
    <3>4. a[i - 1] = b[i] /\ t[i + 1] = s[i]
      BY <3>1, <3>3 DEF SplitAt
    <3>5. i \in 1..Len(s) /\ i + 1 \in 1..Len(t) /\ (i + 1) - 1 = i
      BY <1>3, <3>3
    <3>6. a[i] = a[i - 1] \o s[i] /\ b[i + 1] = b[(i + 1) - 1] \o t[i + 1]
      BY <1>1, <1>2, <3>5, Zenon DEF Flattening
    <3>7. a[i] = b[i + 1]
      BY <3>4, <3>5, <3>6, Zenon
    <3> QED
      BY <2>2, <3>2, <3>7
  <2>3. n - p \in Nat
    BY <1>3
  <2>4. 0..n - p \subseteq T
    <3> HIDE DEF T
    <3> QED
      BY <2>1, <2>2, <2>3, ClimbsUp
  <2> QED
    BY <2>4
<1>7. a[n] = b[n + 1]
  <2>1. n - p \in 0..n - p /\ p + (n - p) = n
    BY <1>3
  <2> QED
    BY <1>6, <2>1
<1> QED
  BY <1>1, <1>2, <1>3, <1>7 DEF Flattening

-----------------------------------------------------------------------------
(* The order, when a block joins or goes.                                  *)

Rank(s, i) == Cardinality(Behind(s, i))

LEMMA RanksDecide ==
  ASSUME NEW s, IsRows(s), NEW i \in DOMAIN s, NEW j \in DOMAIN s
  PROVE  /\ IsFiniteSet(Behind(s, i)) /\ Rank(s, i) \in 0..Len(s) - 1
         /\ i \in Behind(s, j) <=> Rank(s, i) < Rank(s, j)
         /\ Rank(s, i) = Rank(s, j) => i = j
<1> DEFINE below == [l \in DOMAIN s |-> Behind(s, l)]
<1>1. Len(s) \in Nat /\ DOMAIN s = 1..Len(s) /\ \A k \in DOMAIN s : s[k].index \in Int
  BY IsSeqDomain DEF IsRows, IsRow
<1>2. IsFiniteSet(DOMAIN s) /\ Cardinality(DOMAIN s) = Len(s)
  <2>1. IsFiniteSet(1..Len(s)) /\ Cardinality(1..Len(s)) = Len(s)
    BY <1>1, IntervalIs
  <2> QED
    BY <1>1, <2>1
<1>3. \A l \in DOMAIN s : below[l] = Behind(s, l)
  OBVIOUS
<1>4. \A l \in DOMAIN s : Behind(s, l) \subseteq DOMAIN s /\ l \notin Behind(s, l)
  BY <1>1 DEF Behind
<1>5. ASSUME NEW x \in DOMAIN s, NEW y \in DOMAIN s, NEW z \in DOMAIN s,
             x \in Behind(s, y), y \in Behind(s, z)
      PROVE  x \in Behind(s, z)
  <2>1. x \in Int /\ y \in Int /\ z \in Int /\ s[x].index \in Int /\ s[y].index \in Int /\ s[z].index \in Int
    BY <1>1
  <2> QED
    BY <1>5, <2>1 DEF Behind
<1>6. ASSUME NEW x \in DOMAIN s, NEW y \in DOMAIN s
      PROVE  x = y \/ x \in Behind(s, y) \/ y \in Behind(s, x)
  <2>1. x \in Int /\ y \in Int /\ s[x].index \in Int /\ s[y].index \in Int
    BY <1>1
  <2> QED
    BY <2>1 DEF Behind
<1> HIDE DEF below
<1>7. InLine(DOMAIN s, below)
  BY <1>2, <1>3, <1>4, <1>5, <1>6 DEF InLine
<1>8. \A l \in DOMAIN s : Rank(s, l) \in 0..Len(s) - 1
  <2>1. \A l \in DOMAIN s : Cardinality(below[l]) \in 0..Cardinality(DOMAIN s) - 1
    BY <1>7, Ranked, Zenon
  <2> QED
    BY <1>2, <1>3, <2>1 DEF Rank
<1>9. \A x, y \in DOMAIN s : x \in Behind(s, y) => Rank(s, x) < Rank(s, y)
  BY <1>3, <1>7, RanksGrow DEF Rank
<1>10. Rank(s, i) \in Int /\ Rank(s, j) \in Int
  BY <1>8
<1>11. i \in Behind(s, j) <=> Rank(s, i) < Rank(s, j)
  BY <1>6, <1>9, <1>10
<1>12. Rank(s, i) = Rank(s, j) => i = j
  BY <1>6, <1>9, <1>10
<1>13. IsFiniteSet(Behind(s, i))
  BY <1>2, <1>4, FS_Subset
<1> QED
  BY <1>8, <1>11, <1>12, <1>13

\* The k-th row is the one with k - 1 behind it.
LEMMA RankedRows ==
  ASSUME NEW s, IsRows(s)
  PROVE  /\ Len(s) \in Nat /\ DOMAIN s = 1..Len(s) /\ DOMAIN Order(s) = 1..Len(s)
         /\ \A i \in DOMAIN s : Rank(s, i) + 1 \in 1..Len(s) /\ Order(s)[Rank(s, i) + 1] = s[i].id
         /\ \A k \in 1..Len(s) : \E i \in DOMAIN s : Rank(s, i) = k - 1 /\ Order(s)[k] = s[i].id
<1>1. Len(s) \in Nat /\ DOMAIN s = 1..Len(s)
  BY IsSeqDomain DEF IsRows
<1>2. PICK p : Sorts(p, s)
  BY OrderSorts
<1>3. \A k \in 1..Len(s) : p[k] \in DOMAIN s /\ Rank(s, p[k]) = k - 1 /\ Order(s)[k] = s[p[k]].id
  BY <1>1, <1>2 DEF Sorts, Rank
<1>4. ASSUME NEW i \in DOMAIN s
      PROVE  Rank(s, i) + 1 \in 1..Len(s) /\ Order(s)[Rank(s, i) + 1] = s[i].id
  <2>1. PICK k : k = Rank(s, i) + 1
    OBVIOUS
  <2>2. Rank(s, i) \in 0..Len(s) - 1
    BY RanksDecide
  <2>3. k \in 1..Len(s) /\ k - 1 = Rank(s, i)
    BY <1>1, <2>1, <2>2
  <2>4. p[k] = i
    BY <1>3, <2>3, RanksDecide
  <2> QED
    BY <1>3, <2>1, <2>3, <2>4
<1>5. DOMAIN Order(s) = 1..Len(s)
  BY <1>1, <1>2 DEF Sorts
<1> QED
  BY <1>1, <1>3, <1>4, <1>5

LEMMA LiftKeepsOrder ==
  ASSUME NEW x \in Int, NEW y \in Int, NEW c \in Int,
         NEW v, v = (IF x > c THEN x + 1 ELSE x), NEW w, w = (IF y > c THEN y + 1 ELSE y)
  PROVE  (v < w <=> x < y) /\ (v = w <=> x = y)
  OBVIOUS

Apart(s) == \A i, j \in DOMAIN s : s[i].index = s[j].index => i = j
OnceEach(s) == \A i, j \in DOMAIN s : s[i].id = s[j].id => i = j

\* b stands at m + 1 in l, and the rest is as in k.
JoinsAt(l, k, m, n, b) ==
  /\ \A x \in 1..m : l[x] = k[x]
  /\ l[m + 1] = b
  /\ \A x \in m + 1..n : l[x + 1] = k[x]

LEMMA InsertedComesNext ==
  ASSUME NEW s, IsRows(s), Apart(s), NEW j \in DOMAIN s,
         NEW row, NEW u, IsRows(u), Inserts(u, s, row), row.index = s[j].index + 1
  PROVE  JoinsAt(Order(u), Order(s), Rank(s, j) + 1, Len(s), row.id)
<1> DEFINE n == Len(s)
           c == s[j].index
           m == Rank(s, j) + 1
<1>1. n \in Nat /\ DOMAIN s = 1..n /\ DOMAIN u = 1..n + 1 /\ c \in Int /\ \A i \in 1..n : s[i].index \in Int
  BY RankedRows DEF Inserts, IsRows, IsRow
<1>2. /\ \A i \in 1..n : u[i].id = s[i].id /\ u[i].index = IF s[i].index > c THEN s[i].index + 1 ELSE s[i].index
      /\ u[n + 1].id = row.id /\ u[n + 1].index = c + 1
  <2>1. ASSUME NEW i \in 1..n
        PROVE  u[i].id = s[i].id /\ u[i].index = IF s[i].index > c THEN s[i].index + 1 ELSE s[i].index
    <3>1. s[i].index \in Int /\ u[i].id = s[i].id /\ u[i].index = Up(s[i].index, c + 1)
      BY <1>1 DEF Inserts
    <3> QED
      BY <1>1, <3>1 DEF Up
  <2> QED
    BY <2>1 DEF Inserts
<1>3. m \in 1..n /\ m - 1 = Rank(s, j)
  <2>1. Rank(s, j) \in 0..n - 1
    BY RanksDecide
  <2> QED
    BY <1>1, <2>1
<1> HIDE DEF m
<1>4. ASSUME NEW i \in 1..n, s[i].index <= c
      PROVE  Rank(u, i) = Rank(s, i) /\ Rank(s, i) < m
  <2>1. Behind(u, i) = Behind(s, i)
    <3>1. ASSUME NEW x \in 1..n PROVE x \in Behind(u, i) <=> x \in Behind(s, i)
      <4>1. s[x].index \in Int /\ s[i].index \in Int
        BY <1>1
      <4>2. /\ u[i].index = (IF s[i].index > c THEN s[i].index + 1 ELSE s[i].index)
            /\ u[x].index = (IF s[x].index > c THEN s[x].index + 1 ELSE s[x].index)
        BY <1>2
      <4>3. c \in Int
        BY <1>1
      <4>4. /\ u[x].index < u[i].index <=> s[x].index < s[i].index
            /\ u[x].index = u[i].index <=> s[x].index = s[i].index
        BY <4>1, <4>2, <4>3, LiftKeepsOrder
      <4> QED
        BY <1>1, <4>4 DEF Behind
    <3>2. n + 1 \notin Behind(u, i)
      <4>1. u[i].index = s[i].index /\ u[n + 1].index = c + 1 /\ s[i].index \in Int
        BY <1>1, <1>2, <1>4
      <4>2. ~(u[n + 1].index < u[i].index) /\ u[n + 1].index # u[i].index
        BY <1>1, <1>4, <4>1
      <4> QED
        BY <4>2 DEF Behind
    <3>3. Behind(u, i) \subseteq 1..n + 1 /\ Behind(s, i) \subseteq 1..n
      BY <1>1 DEF Behind
    <3>4. Behind(u, i) \subseteq 1..n
      <4>1. \A x \in 1..n + 1 : x \in 1..n \/ x = n + 1
        BY <1>1
      <4> QED
        BY <3>2, <3>3, <4>1
    <3> QED
      BY <3>1, <3>3, <3>4
  <2>2. i = j \/ i \in Behind(s, j)
    BY <1>1, <1>4 DEF Behind, Apart
  <2>3. Rank(s, i) <= m - 1
    <3>1. Rank(s, i) \in 0..n - 1 /\ Rank(s, j) \in 0..n - 1
      BY <1>1, RanksDecide
    <3>2. i = j \/ Rank(s, i) < Rank(s, j)
      BY <1>1, <2>2, RanksDecide
    <3>3. Rank(s, j) = m - 1 /\ Rank(s, i) \in Int /\ Rank(s, j) \in Int
      BY <1>1, <1>3, <3>1
    <3>4. i = j => Rank(s, i) = Rank(s, j)
      OBVIOUS
    <3> QED
      BY <3>2, <3>3, <3>4
  <2>4. Rank(s, i) \in 0..n - 1
    BY <1>1, RanksDecide
  <2> QED
    BY <1>1, <1>3, <2>1, <2>3, <2>4 DEF Rank
<1>5. ASSUME NEW i \in 1..n, s[i].index > c
      PROVE  Rank(u, i) = Rank(s, i) + 1 /\ Rank(s, i) >= m
  <2>1. Behind(u, i) = Behind(s, i) \union {n + 1}
    <3>1. ASSUME NEW x \in 1..n PROVE x \in Behind(u, i) <=> x \in Behind(s, i)
      <4>1. s[x].index \in Int /\ s[i].index \in Int
        BY <1>1
      <4>2. /\ u[i].index = (IF s[i].index > c THEN s[i].index + 1 ELSE s[i].index)
            /\ u[x].index = (IF s[x].index > c THEN s[x].index + 1 ELSE s[x].index)
        BY <1>2
      <4>3. c \in Int
        BY <1>1
      <4>4. /\ u[x].index < u[i].index <=> s[x].index < s[i].index
            /\ u[x].index = u[i].index <=> s[x].index = s[i].index
        BY <4>1, <4>2, <4>3, LiftKeepsOrder
      <4> QED
        BY <1>1, <4>4 DEF Behind
    <3>2. n + 1 \in Behind(u, i)
      <4>1. u[i].index = s[i].index + 1 /\ u[n + 1].index = c + 1 /\ s[i].index \in Int
        BY <1>1, <1>2, <1>5
      <4>2. u[n + 1].index < u[i].index /\ n + 1 \in DOMAIN u
        BY <1>1, <1>5, <4>1
      <4> QED
        BY <4>2 DEF Behind
    <3>3. Behind(u, i) \subseteq 1..n + 1 /\ Behind(s, i) \subseteq 1..n
      BY <1>1 DEF Behind
    <3>4. \A x \in 1..n + 1 : x \in 1..n \/ x = n + 1
      BY <1>1
    <3> QED
      BY <3>1, <3>2, <3>3, <3>4
  <2>2. Rank(u, i) = Rank(s, i) + 1
    <3>1. n + 1 \notin Behind(s, i)
      BY <1>1 DEF Behind
    <3>2. IsFiniteSet(Behind(s, i))
      BY <1>1, RanksDecide
    <3> QED
      BY <2>1, <3>1, <3>2, FS_AddElement DEF Rank
  <2>3. j \in Behind(s, i)
    BY <1>1, <1>5 DEF Behind
  <2>4. Rank(s, j) < Rank(s, i) /\ Rank(s, i) \in 0..n - 1 /\ Rank(s, j) \in 0..n - 1
    BY <1>1, <2>3, RanksDecide
  <2> QED
    BY <1>1, <1>3, <2>2, <2>4
<1>6. Rank(u, n + 1) = m
  <2>1. Behind(u, n + 1) = Behind(s, j) \union {j}
    <3>1. ASSUME NEW x \in 1..n PROVE x \in Behind(u, n + 1) <=> x = j \/ x \in Behind(s, j)
      <4>1. s[x].index \in Int /\ x < n + 1
        BY <1>1
      <4>2. x \in Behind(u, n + 1) <=> s[x].index <= c
        <5>1. u[x].index < c + 1 \/ u[x].index = c + 1 <=> s[x].index <= c
          BY <1>1, <1>2, <4>1
        <5> QED
          BY <1>1, <1>2, <4>1, <5>1 DEF Behind
      <4>3. x = j \/ x \in Behind(s, j) <=> s[x].index <= c
        <5>1. s[x].index = c => x = j
          BY <1>1 DEF Apart
        <5>2. x \in Behind(s, j) => s[x].index <= c
          BY <1>1, <4>1 DEF Behind
        <5>3. s[x].index < c => x \in Behind(s, j)
          BY <1>1 DEF Behind
        <5> QED
          BY <1>1, <4>1, <5>1, <5>2, <5>3
      <4> QED
        BY <4>2, <4>3
    <3>2. Behind(u, n + 1) \subseteq 1..n
      <4>1. n + 1 \notin Behind(u, n + 1) /\ Behind(u, n + 1) \subseteq 1..n + 1
        BY <1>1, <1>2 DEF Behind
      <4> QED
        BY <1>1, <4>1
    <3>3. Behind(s, j) \subseteq 1..n /\ j \in 1..n
      BY <1>1 DEF Behind
    <3> QED
      BY <3>1, <3>2, <3>3
  <2>2. j \notin Behind(s, j) /\ IsFiniteSet(Behind(s, j)) /\ Rank(s, j) \in Int
    <3>1. Rank(s, j) \in 0..n - 1 /\ IsFiniteSet(Behind(s, j)) /\ (j \in Behind(s, j) <=> Rank(s, j) < Rank(s, j))
      BY RanksDecide
    <3> QED
      BY <1>1, <3>1
  <2> QED
    BY <1>3, <2>1, <2>2, FS_AddElement DEF Rank, m
<1>7. ASSUME NEW k \in 1..m PROVE Order(u)[k] = Order(s)[k]
  <2>1. k \in 1..n
    BY <1>1, <1>3
  <2>2. PICK i \in 1..n : Rank(s, i) = k - 1 /\ Order(s)[k] = s[i].id
    BY <1>1, <2>1, RankedRows
  <2>3. s[i].index <= c
    <3>1. ~(Rank(s, i) >= m)
      BY <1>1, <1>3, <2>2
    <3> QED
      BY <1>1, <1>5, <3>1
  <2>4. Rank(u, i) = k - 1
    BY <1>4, <2>2, <2>3
  <2>5. Order(u)[Rank(u, i) + 1] = u[i].id
    BY <1>1, RankedRows
  <2>6. (k - 1) + 1 = k
    BY <1>1, <1>3
  <2> QED
    BY <1>2, <2>2, <2>4, <2>5, <2>6
<1>8. Order(u)[m + 1] = row.id
  <2>1. n + 1 \in DOMAIN u
    BY <1>1
  <2>2. Order(u)[Rank(u, n + 1) + 1] = u[n + 1].id
    BY <2>1, RankedRows
  <2> QED
    BY <1>2, <1>6, <2>2
<1>9. ASSUME NEW k \in m + 1..n PROVE Order(u)[k + 1] = Order(s)[k]
  <2>1. k \in 1..n
    BY <1>1, <1>3
  <2>2. PICK i \in 1..n : Rank(s, i) = k - 1 /\ Order(s)[k] = s[i].id
    BY <1>1, <2>1, RankedRows
  <2>3. s[i].index > c
    <3>1. ~(Rank(s, i) < m)
      BY <1>1, <1>3, <2>2
    <3>2. ~(s[i].index <= c)
      BY <1>4, <3>1
    <3> QED
      BY <1>1, <3>2
  <2>4. Rank(u, i) = k
    BY <1>1, <1>3, <1>5, <2>1, <2>2, <2>3
  <2>5. Order(u)[Rank(u, i) + 1] = u[i].id
    BY <1>1, RankedRows
  <2> QED
    BY <1>2, <2>2, <2>4, <2>5
<1> QED
  BY <1>7, <1>8, <1>9 DEF JoinsAt, m

LEMMA DroppedLeavesTheRest ==
  ASSUME NEW s, IsRows(s), OnceEach(s), NEW j \in DOMAIN s, NEW u, IsRows(u), u = Drop(s, s[j].id)
  PROVE  Len(s) = Len(u) + 1 /\ JoinsAt(Order(s), Order(u), Rank(s, j), Len(u), s[j].id)
<1> DEFINE n == Len(s)
           I == {i \in DOMAIN s : s[i].id # s[j].id}
           m == Rank(s, j)
<1>1. n \in Nat /\ DOMAIN s = 1..n /\ Len(u) \in Nat /\ DOMAIN u = 1..Len(u)
  BY RankedRows
<1>2. \A i \in DOMAIN s : i \in I <=> i # j
  BY DEF OnceEach
<1>3. I \subseteq DOMAIN s /\ u = Picked(s, I)
  BY DEF Drop
<1> HIDE DEF I
<1>4. PICK g : Picks(u, s, I, g) /\ Rising(g, u)
  BY <1>3, PickedIs DEF IsRows
<1>5. m \in 0..n - 1
  BY RanksDecide
<1>6. ASSUME NEW k \in DOMAIN u
      PROVE  g[k] \in DOMAIN s /\ Rank(u, k) = IF m < Rank(s, g[k]) THEN Rank(s, g[k]) - 1 ELSE Rank(s, g[k])
  <2>1. g[k] \in DOMAIN s /\ g[k] # j /\ u[k] = s[g[k]]
    BY <1>2, <1>3, <1>4 DEF Picks
  <2>2. ASSUME NEW l \in DOMAIN u PROVE l \in Behind(u, k) <=> g[l] \in Behind(s, g[k])
    <3>1. g[l] \in DOMAIN s /\ u[l] = s[g[l]]
      BY <1>3, <1>4 DEF Picks
    <3>2. l < k <=> g[l] < g[k]
      <4>1. l \in Int /\ k \in Int /\ g[l] \in Int /\ g[k] \in Int
        BY <1>1, <2>1, <3>1
      <4>2. (l < k => g[l] < g[k]) /\ (k < l => g[k] < g[l]) /\ (l = k => g[l] = g[k])
        BY <1>4 DEF Rising
      <4> QED
        BY <4>1, <4>2
    <3> QED
      BY <2>1, <3>1, <3>2 DEF Behind
  <2> DEFINE A == Behind(u, k)
             B == Behind(s, g[k]) \ {j}
             h == [l \in A |-> g[l]]
  <2>3. A \subseteq DOMAIN u /\ B \subseteq DOMAIN s
    BY DEF Behind
  <2>4. \A l \in A : g[l] \in B
    <3>1. ASSUME NEW l \in A PROVE g[l] \in B
      <4>1. l \in DOMAIN u
        BY <2>3
      <4>2. g[l] \in I
        BY <1>4, <4>1 DEF Picks
      <4>3. g[l] # j
        BY <1>2, <1>3, <4>2
      <4> QED
        BY <2>2, <4>1, <4>3
    <3> QED
      BY <3>1
  <2>5. \A x \in B : \E l \in A : g[l] = x
    <3>1. ASSUME NEW x \in B PROVE \E l \in A : g[l] = x
      <4>1. x \in I
        BY <1>2, <2>3
      <4>2. PICK l \in DOMAIN u : g[l] = x
        BY <1>4, <4>1 DEF Picks
      <4>3. l \in A
        BY <2>2, <4>2
      <4> QED
        BY <4>2, <4>3
    <3> QED
      BY <3>1
  <2>6. \A l1, l2 \in A : g[l1] = g[l2] => l1 = l2
    BY <1>4, <2>3 DEF Picks
  <2>7. IsFiniteSet(A)
    BY RanksDecide
  <2> HIDE DEF A, B
  <2>8. h \in [A -> B] /\ \A l \in A : h[l] = g[l]
    BY <2>4
  <2> HIDE DEF h
  <2>9. h \in Bijection(A, B)
    <3>1. h \in Injection(A, B)
      BY <2>6, <2>8 DEF Injection, IsInjective
    <3>2. h \in Surjection(A, B)
      BY <2>5, <2>8 DEF Surjection
    <3> QED
      BY <3>1, <3>2 DEF Bijection
  <2>10. Cardinality(A) = Cardinality(B)
    BY <2>7, <2>9, FS_Bijection DEF ExistsBijection
  <2>11. IsFiniteSet(Behind(s, g[k])) /\ Rank(s, g[k]) \in 0..n - 1 /\ (j \in Behind(s, g[k]) <=> m < Rank(s, g[k]))
    BY <2>1, RanksDecide
  <2>12. CASE j \in Behind(s, g[k])
    <3>1. Cardinality(B) = Rank(s, g[k]) - 1
      BY <2>11, <2>12, FS_RemoveElement DEF B, Rank
    <3> QED
      BY <2>1, <2>10, <2>11, <2>12, <3>1 DEF A, Rank
  <2>13. CASE j \notin Behind(s, g[k])
    <3>1. B = Behind(s, g[k])
      BY <2>13 DEF B
    <3> QED
      BY <2>1, <2>10, <2>11, <2>13, <3>1 DEF A, Rank
  <2> QED
    BY <2>12, <2>13
<1>7. n = Len(u) + 1
  <2> DEFINE h == [k \in DOMAIN u |-> g[k]]
  <2>1. h \in [DOMAIN u -> I] /\ \A k \in DOMAIN u : h[k] = g[k]
    BY <1>4 DEF Picks
  <2> HIDE DEF h
  <2>2. h \in Injection(DOMAIN u, I)
    BY <1>4, <2>1 DEF Injection, IsInjective, Picks
  <2>3. h \in Surjection(DOMAIN u, I)
    BY <1>4, <2>1 DEF Surjection, Picks
  <2>4. IsFiniteSet(DOMAIN u) /\ Cardinality(DOMAIN u) = Len(u) /\ IsFiniteSet(DOMAIN s) /\ Cardinality(DOMAIN s) = n
    <3>1. IsFiniteSet(1..Len(u)) /\ Cardinality(1..Len(u)) = Len(u)
      BY <1>1, IntervalIs
    <3>2. IsFiniteSet(1..n) /\ Cardinality(1..n) = n
      BY <1>1, IntervalIs
    <3> QED
      BY <1>1, <3>1, <3>2
  <2>5. Cardinality(I) = Len(u)
    <3>1. h \in Bijection(DOMAIN u, I)
      BY <2>2, <2>3 DEF Bijection
    <3>2. Cardinality(DOMAIN u) = Cardinality(I)
      BY <2>4, <3>1, FS_Bijection DEF ExistsBijection
    <3> QED
      BY <2>4, <3>2
  <2>6. I = DOMAIN s \ {j}
    BY <1>2, <1>3
  <2>7. Cardinality(DOMAIN s \ {j}) = n - 1
    BY <2>4, FS_RemoveElement
  <2> QED
    <3>1. Len(u) = n - 1
      BY <2>5, <2>6, <2>7, Zenon
    <3>2. \A x, y \in Nat : x = y - 1 => y = x + 1
      OBVIOUS
    <3> QED
      BY <1>1, <3>1, <3>2, Zenon
<1>8. \A k \in DOMAIN u : Order(u)[Rank(u, k) + 1] = s[g[k]].id
  <2>1. \A k \in DOMAIN u : Order(u)[Rank(u, k) + 1] = u[k].id /\ u[k] = s[g[k]]
    BY <1>4, RankedRows DEF Picks
  <2> QED
    BY <2>1
<1>9. ASSUME NEW x \in 1..n, x # m + 1
      PROVE  \E k \in DOMAIN u : g[k] \in DOMAIN s /\ Rank(s, g[k]) = x - 1 /\ Order(s)[x] = s[g[k]].id
  <2>1. PICK i \in DOMAIN s : Rank(s, i) = x - 1 /\ Order(s)[x] = s[i].id
    BY RankedRows
  <2>2. i # j
    BY <1>1, <1>5, <1>9, <2>1
  <2>3. PICK k \in DOMAIN u : g[k] = i
    BY <1>2, <1>4, <2>2 DEF Picks
  <2> QED
    BY <2>1, <2>3
<1>10. ASSUME NEW x \in 1..m PROVE Order(s)[x] = Order(u)[x]
  <2>1. x \in 1..n /\ x # m + 1
    BY <1>1, <1>5
  <2>2. PICK k \in DOMAIN u : g[k] \in DOMAIN s /\ Rank(s, g[k]) = x - 1 /\ Order(s)[x] = s[g[k]].id
    BY <1>9, <2>1
  <2>3. Rank(u, k) = x - 1
    <3>1. ~(m < Rank(s, g[k]))
      BY <1>1, <1>5, <2>2
    <3> QED
      BY <1>6, <2>2, <3>1
  <2>4. Rank(u, k) + 1 = x
    BY <1>1, <1>5, <2>3
  <2> QED
    BY <1>8, <2>2, <2>4
<1>11. Order(s)[m + 1] = s[j].id
  BY RankedRows
<1>12. ASSUME NEW x \in m + 1..Len(u) PROVE Order(s)[x + 1] = Order(u)[x]
  <2>1. PICK y : y = x + 1
    OBVIOUS
  <2>2. y \in 1..n /\ y # m + 1 /\ y - 1 = x /\ m < x /\ x \in Int
    BY <1>1, <1>5, <1>7, <2>1
  <2>3. PICK k \in DOMAIN u : g[k] \in DOMAIN s /\ Rank(s, g[k]) = y - 1 /\ Order(s)[y] = s[g[k]].id
    BY <1>9, <2>2
  <2>4. Rank(s, g[k]) = x
    BY <2>2, <2>3
  <2>5. Rank(u, k) = x - 1
    BY <1>6, <2>2, <2>4
  <2>6. Rank(u, k) + 1 = x
    BY <2>2, <2>5
  <2> QED
    BY <1>8, <2>1, <2>3, <2>6
<1> HIDE DEF m
<1>13. JoinsAt(Order(s), Order(u), m, Len(u), s[j].id)
  BY <1>10, <1>11, <1>12 DEF JoinsAt
<1> QED
  BY <1>7, <1>13 DEF m

-----------------------------------------------------------------------------
(* The screen can be read: the editors show the store, which has every     *)
(* block once, and what they show, or an undo will bring back, is a text.  *)

IsText(html) == html = [tag |-> html.tag, text |-> html.text] /\ IsSeq(html.text)
AreTexts(f) == \A b \in Block : IsText(f[b])

\* A request with a text, and rows that have each block once.
Spelled(r) == IsText(r.row.html) /\ OnceEach(r.rows)
Spells(F) == \A q \in F : Spelled(q)
Remembers(ops) == \A n \in DOMAIN ops : IsText(ops[n].row.html)

Screen(s, sh) == Mirrors(s, sh) /\ OnceEach(s) /\ AreTexts(sh)
OnTheWire == Spells(ToSet(flight)) /\ Spells(ToSet(held))
Recalls == Remembers(past) /\ Remembers(future) /\ IsText(applying.inverse.row.html)

Legible == Screen(store, shown) /\ OnTheWire /\ Recalls
LegibleInv == misread \/ refused \/ uncut \/ Legible

LEMMA ParaIsText ==
  ASSUME NEW s, IsSeq(s)
  PROVE  IsText(Para(s)) /\ Para(s).text = s /\ Para(s).tag = "p"
  BY DEF IsText, Para

LEMMA NoTextIs == IsSeq(<<>>) /\ IsText(NoRow.html) /\ OnceEach(<<>>)
<1>1. IsSeq(<<>>)
  BY DEF IsSeq
<1>2. NoRow.html = Para(<<>>)
  BY DEF NoRow, StoreRow
<1> QED
  BY <1>1, <1>2, ParaIsText DEF OnceEach

LEMMA TextEdited ==
  ASSUME NEW html, IsText(html)
  PROVE  /\ \A s : IsSeq(s) => IsText([html EXCEPT !.text = s]) /\ [html EXCEPT !.text = s].text = s
                               /\ [html EXCEPT !.text = s].tag = html.tag
         /\ \A t : IsText([html EXCEPT !.tag = t]) /\ [html EXCEPT !.tag = t].text = html.text
<1>1. ASSUME NEW s, IsSeq(s)
      PROVE  /\ IsText([html EXCEPT !.text = s]) /\ [html EXCEPT !.text = s].text = s
             /\ [html EXCEPT !.text = s].tag = html.tag
  <2>1. [html EXCEPT !.text = s] = [tag |-> html.tag, text |-> s]
    BY DEF IsText
  <2> QED
    BY <1>1, <2>1 DEF IsText
<1>2. ASSUME NEW t
      PROVE  IsText([html EXCEPT !.tag = t]) /\ [html EXCEPT !.tag = t].text = html.text
  <2>1. [html EXCEPT !.tag = t] = [tag |-> t, text |-> html.text]
    BY DEF IsText
  <2> QED
    BY <2>1 DEF IsText
<1> QED
  BY <1>1, <1>2

\* The requests of gestures.
LEMMA RowsOfRequests ==
  /\ \A kind, row : Request(kind, row).rows = <<>> /\ Request(kind, row).row = row
  /\ \A b, html, type : Update(b, html, type).rows = <<>>
  /\ \A ids : Reorder(ids).rows = <<>> /\ Reorder(ids).row = NoRow
  /\ \A b : Delete(b).rows = <<>>
<1>1. \A kind, row : Request(kind, row).rows = <<>> /\ Request(kind, row).row = row
  BY DEF Request
<1>2. ASSUME NEW b, NEW html, NEW type PROVE Update(b, html, type).rows = <<>>
  <2>1. PICK q : q = Request("update", StoreRow(b, html, type, 0))
    OBVIOUS
  <2>2. q.rows = <<>>
    BY <1>1, <2>1
  <2>3. Update(b, html, type) = [q EXCEPT !.old = IF b \in Ids(store) THEN RowIn(store, b) ELSE NoRow]
    BY <2>1 DEF Update
  <2> QED
    BY <2>2, <2>3
<1>3. ASSUME NEW ids PROVE Reorder(ids).rows = <<>> /\ Reorder(ids).row = NoRow
  <2>1. PICK q : q = Request("reorder", NoRow)
    OBVIOUS
  <2>2. q.rows = <<>> /\ q.row = NoRow
    BY <1>1, <2>1
  <2> DEFINE v == [q EXCEPT !.ids = ids]
  <2>3. v.rows = <<>> /\ v.row = NoRow
    BY <2>2
  <2>4. Reorder(ids) = [v EXCEPT !.prev = Order(store)]
    BY <2>1, Zenon DEF Reorder
  <2> HIDE DEF v
  <2> QED
    BY <2>3, <2>4
<1> QED
  BY <1>1, <1>2, <1>3 DEF Delete

LEMMA RequestSpelled ==
  ASSUME NEW kind, NEW row, IsText(row.html)
  PROVE  Spelled(Request(kind, row))
  BY RowsOfRequests, NoTextIs DEF Spelled

LEMMA UpdateSpelled ==
  ASSUME IsRows(store), NEW b, NEW html, NEW type, IsText(html)
  PROVE  Spelled(Update(b, html, type))
<1>1. Update(b, html, type).rows = <<>>
  BY RowsOfRequests
<1>2. Update(b, html, type).row.html = html
  BY UpdateIs
<1> QED
  BY <1>1, <1>2, NoTextIs DEF Spelled

LEMMA ReorderSpelled ==
  ASSUME NEW ids
  PROVE  Spelled(Reorder(ids))
  BY RowsOfRequests, NoTextIs DEF Spelled

LEMMA PostSpelled ==
  ASSUME NEW r, IsRequest(r), Spelled(r), NEW way
  PROVE  Spelled([r EXCEPT !.by = way])
<1>1. PICK s : s = [r EXCEPT !.by = way]
  OBVIOUS
<1>2. s.row = r.row /\ s.rows = r.rows
  BY <1>1 DEF IsRequest
<1> QED
  BY <1>1, <1>2 DEF Spelled

\* What is on the screen is a text.
LEMMA RowsAreTexts ==
  ASSUME NEW s, NEW sh, Screen(s, sh), Ids(s) \subseteq Block
  PROVE  /\ \A i \in DOMAIN s : IsText(s[i].html) /\ s[i].html = sh[s[i].id]
         /\ \A b \in Ids(s) : IsText(RowIn(s, b).html) /\ RowIn(s, b).html = sh[b]
<1>1. \A i \in DOMAIN s : IsText(s[i].html) /\ s[i].html = sh[s[i].id]
  BY DEF Screen, Mirrors, AreTexts, Ids
<1>2. \A b \in Ids(s) : IsText(RowIn(s, b).html) /\ RowIn(s, b).html = sh[b]
  BY <1>1, RowOf
<1> QED
  BY <1>1, <1>2

LEMMA DeleteSpelled ==
  ASSUME Screen(store, shown), Ids(store) \subseteq Block, NEW b \in Ids(store)
  PROVE  Spelled(Delete(b))
<1>1. IsText(RowIn(store, b).html)
  BY RowsAreTexts
<1> QED
  BY <1>1, RequestSpelled DEF Delete

LEMMA SendAdds ==
  ASSUME EditorInv, NEW R, IsSeq(R), Send(R)
  PROVE  /\ \A q \in ToSet(flight') : q \in ToSet(flight) \/ \E p \in DOMAIN R : q = R[p]
         /\ \A q \in ToSet(held') : q \in ToSet(held) \/ \E p \in DOMAIN R : q = R[p]
<1>1. PICK W : W = {p \in DOMAIN R : AsksCreation(ToSet(flight), R[p])}
  OBVIOUS
<1>2. PICK O : O = DOMAIN R \ W
  OBVIOUS
<1>3. flight' = flight \o Picked(R, O) /\ held' = held \o Picked(R, W)
  BY <1>1, <1>2, SentWhere DEF Posts
<1>4. O \subseteq DOMAIN R /\ W \subseteq DOMAIN R /\ IsSeq(flight) /\ IsSeq(held)
  BY <1>1, <1>2 DEF EditorInv
<1>5. /\ IsSeq(Picked(R, O)) /\ ToSet(Picked(R, O)) = {R[p] : p \in O}
      /\ IsSeq(Picked(R, W)) /\ ToSet(Picked(R, W)) = {R[p] : p \in W}
  BY <1>4, PickedIs, SetOfPicked, Zenon
<1>6. /\ ToSet(flight') = ToSet(flight) \union {R[p] : p \in O}
      /\ ToSet(held') = ToSet(held) \union {R[p] : p \in W}
  BY <1>3, <1>4, <1>5, SetOfCat
<1> QED
  BY <1>4, <1>6

LEMMA SendSpells ==
  ASSUME EditorInv, OnTheWire, NEW R, IsSeq(R), Send(R), \A p \in DOMAIN R : Spelled(R[p])
  PROVE  OnTheWire'
  BY SendAdds DEF OnTheWire, Spells

-----------------------------------------------------------------------------
(* The store's operations keep it legible.                                 *)

LEMMA PutOnce ==
  ASSUME NEW s, IsRows(s), OnceEach(s), NEW b, NEW html, NEW type
  PROVE  OnceEach(Put(s, b, html, type))
<1>1. PICK u : u = Put(s, b, html, type)
  OBVIOUS
<1>2. PutsRows(u, s, b, html)
  BY <1>1, PutRows
<1>3. OnceEach(u)
  BY <1>2 DEF PutsRows, OnceEach
<1> QED
  BY <1>1, <1>3

LEMMA InsertOnce ==
  ASSUME NEW s, IsRows(s), OnceEach(s), NEW row, IsRow(row), row.id \notin Ids(s)
  PROVE  OnceEach(Append(Opened(s, row.index), row))
<1>1. PICK u : u = Append(Opened(s, row.index), row)
  OBVIOUS
<1>2. Inserts(u, s, row)
  BY <1>1, InsertRows
<1>3. \A i \in 1..Len(s) : u[i].id = s[i].id /\ s[i].id # row.id /\ i \in DOMAIN s
  BY <1>2 DEF Inserts, Ids
<1>4. u[Len(s) + 1] = row /\ \A i \in DOMAIN u : i \in 1..Len(s) \/ i = Len(s) + 1
  BY <1>2 DEF Inserts
<1>5. OnceEach(u)
  BY <1>3, <1>4 DEF OnceEach
<1> QED
  BY <1>1, <1>5

LEMMA DropOnce ==
  ASSUME NEW s, IsRows(s), OnceEach(s), NEW b
  PROVE  OnceEach(Drop(s, b))
<1>1. PICK u : u = Drop(s, b)
  OBVIOUS
<1>2. PICK g : Drops(u, s, b, g)
  BY <1>1, DropRows
<1>3. DOMAIN u \subseteq Int /\ DOMAIN s \subseteq Int
  <2>1. IsRows(u)
    BY <1>1, DropIs
  <2> QED
    BY <2>1, IsSeqDomain DEF IsRows
<1>4. ASSUME NEW k \in DOMAIN u, NEW l \in DOMAIN u, u[k].id = u[l].id PROVE k = l
  <2>1. g[k] \in DOMAIN s /\ g[l] \in DOMAIN s /\ u[k] = s[g[k]] /\ u[l] = s[g[l]]
    BY <1>2 DEF Drops
  <2>2. g[k] = g[l]
    BY <1>4, <2>1 DEF OnceEach
  <2>3. ~(k < l) /\ ~(l < k)
    <3>1. g[k] \in Int /\ g[l] \in Int
      BY <1>3, <2>1
    <3> QED
      BY <1>2, <2>2, <3>1 DEF Drops
  <2> QED
    BY <1>3, <2>3
<1>5. OnceEach(u)
  BY <1>4 DEF OnceEach
<1> QED
  BY <1>1, <1>5

LEMMA FitsLegibly ==
  ASSUME NEW s, NEW display, NEW known, NEW focus, ShowFrom(s, display, known, focus),
         Ids(s) \subseteq Block,
         OnceEach(s), NEW html, Fits(s, display, html), IsText(html), AreTexts(display)
  PROVE  store' = s /\ Screen(store', shown') /\ \A b \in Ids(s) \intersect Ids(store) : shown'[b] = display[b]
<1>1. /\ store' = s /\ Mirrors(s, shown')
      /\ \A b \in Ids(s) \intersect Ids(store) : shown'[b] = display[b]
  BY FitsShow
<1>2. \A i \in DOMAIN s : IsText(s[i].html)
  BY DEF Fits, AreTexts, Ids
<1>3. \A b \in Ids(s) : IsText(RowIn(s, b).html)
  BY <1>2, RowOf
<1>4. ASSUME NEW b \in Block PROVE IsText(shown'[b])
  <2>1. PICK mounts : mounts = ( \/ b \in Ids(s) \ Ids(store)
                                 \/ /\ b \in Ids(s) \intersect Ids(store) /\ b # focus
                                    /\ RowIn(s, b) # RowIn(store, b))
    OBVIOUS
  <2>2. shown'[b] = IF mounts THEN RowIn(s, b).html ELSE display[b]
    BY <2>1 DEF ShowFrom
  <2>3. mounts => b \in Ids(s)
    BY <2>1
  <2> QED
    BY <1>3, <2>2, <2>3 DEF AreTexts
<1> QED
  BY <1>1, <1>4 DEF Screen, AreTexts

-----------------------------------------------------------------------------
(* The gestures leave it legible.                                          *)

LEMMA SendOneSpells ==
  ASSUME EditorInv, OnTheWire, NEW r, Spelled(r), Send(<<r>>)
  PROVE  OnTheWire'
<1> DEFINE R == <<r>>
<1>1. IsSeq(R) /\ DOMAIN R = {1} /\ R[1] = r
  BY OneIs
<1>2. Send(R)
  OBVIOUS
<1> HIDE DEF R
<1> QED
  BY <1>1, <1>2, SendSpells

LEMMA SendTwoSpells ==
  ASSUME EditorInv, OnTheWire, NEW q, NEW r, Spelled(q), Spelled(r), Send(<<q, r>>)
  PROVE  OnTheWire'
<1> DEFINE R == <<q, r>>
<1>1. IsSeq(R) /\ DOMAIN R = {1, 2} /\ R[1] = q /\ R[2] = r
  BY TwoAre
<1>2. Send(R)
  OBVIOUS
<1> HIDE DEF R
<1> QED
  BY <1>1, <1>2, SendSpells

LEMMA LegibleInit == EditorInit => LegibleInv
<1> SUFFICES ASSUME EditorInit PROVE Legible
  BY DEF LegibleInv
<1>1. /\ flight = <<>> /\ held = <<>> /\ past = <<>> /\ future = <<>> /\ applying = Idle
      /\ opening \in Nat /\ opening \in 1..MaxOpening
  BY OpeningAssumption DEF EditorInit
<1>2. 1..opening \subseteq Block
  BY <1>1, OpeningAssumption
<1>3. /\ DOMAIN store = 1..opening
      /\ \A b \in 1..opening : store[b].id = b /\ store[b].html = Para(<<b>>)
      /\ \A b \in Block : shown[b] = IF b \in 1..opening THEN Para(<<b>>) ELSE Para(<<>>)
  BY <1>2 DEF EditorInit, OpeningRow, StoreRow
<1>4. ASSUME NEW b PROVE IsText(Para(<<b>>))
  <2>1. PICK s : s = <<b>>
    OBVIOUS
  <2>2. IsSeq(s)
    BY <2>1, OneIs, Zenon
  <2> QED
    BY <2>1, <2>2, ParaIsText
<1>5. IsText(Para(<<>>))
  BY NoTextIs, ParaIsText
<1>6. Screen(store, shown)
  BY <1>2, <1>3, <1>4, <1>5 DEF Screen, Mirrors, OnceEach, AreTexts
<1>7. OnTheWire
  <2>1. ToSet(flight) = {} /\ ToSet(held) = {}
    BY <1>1 DEF ToSet
  <2> QED
    BY <2>1 DEF OnTheWire, Spells
<1>8. Recalls
  <2>1. Remembers(<<>>)
    BY DEF Remembers
  <2>2. applying.inverse.row = NoRow
    BY <1>1 DEF Idle, Op
  <2> QED
    BY <1>1, <2>1, <2>2, NoTextIs DEF Recalls
<1> QED
  BY <1>6, <1>7, <1>8 DEF Legible

LEMMA RecallsStill ==
  ASSUME Recalls, UNCHANGED history
  PROVE  Recalls'
  BY DEF Recalls, history

LEMMA EditorCut ==
  ASSUME CalmInv, Orderly, AreTexts(shown), NEW b, NEW html, IsText(html),
         NEW sh, sh = [shown EXCEPT ![b] = html]
  PROVE  Redraws(sh, b, html) /\ AreTexts(sh)
<1>1. Ids(store) \subseteq Block /\ DOMAIN shown = Block
  BY IdsAreBlocks DEF CalmInv
<1> QED
  BY <1>1 DEF Redraws, AreTexts

LEMMA PutLegible ==
  ASSUME EditorInv, Screen(store, shown), NEW b, NEW html, NEW type, NEW sh,
         Redraws(sh, b, html), AreTexts(sh)
  PROVE  Screen(Put(store, b, html, type), sh)
<1>1. IsRows(store) /\ Mirrors(store, shown) /\ OnceEach(store)
  BY DEF EditorInv, Screen
<1>2. Mirrors(Put(store, b, html, type), sh)
  BY <1>1, PutMirrors
<1>3. OnceEach(Put(store, b, html, type))
  BY <1>1, PutOnce
<1> QED
  BY <1>2, <1>3 DEF Screen

LEMMA EditLegible ==
  ASSUME EditorInv, CalmInv, Orderly, Legible, NEW b, NEW html, IsText(html), Edit(b, html)
  PROVE  Legible'
<1>1. /\ UNCHANGED <<flight, held, history>> /\ shown' = [shown EXCEPT ![b] = html]
      /\ store' = Put(store, b, html, TypeOf(html))
  BY DEF Edit, SetLocalContent
<1>2. PICK sh : sh = shown'
  OBVIOUS
<1>3. Redraws(sh, b, html) /\ AreTexts(sh)
  BY <1>1, <1>2, EditorCut DEF Legible, Screen
<1>4. Screen(store', shown')
  BY <1>1, <1>2, <1>3, PutLegible DEF Legible
<1>5. Recalls'
  BY <1>1, RecallsStill DEF Legible
<1> QED
  BY <1>1, <1>4, <1>5 DEF Legible, OnTheWire

LEMMA TypingLegible ==
  ASSUME EditorInv, CalmInv, Orderly, Legible, NEW b, Type(b) \/ MakeList(b)
  PROVE  Legible'
<1>1. b \in Ids(store)
  BY DEF Type, MakeList, At
<1>2. IsText(shown[b])
  BY <1>1, IdsAreBlocks DEF Legible, Screen, AreTexts
<1>3. CASE Type(b)
  <2>1. PICK letter : Edit(b, [shown[b] EXCEPT !.text = Append(shown[b].text, letter)])
    BY <1>3 DEF Type
  <2>2. PICK s : s = Append(shown[b].text, letter)
    OBVIOUS
  <2>3. IsSeq(s)
    BY <1>2, <2>2, AppendIs DEF IsText
  <2>4. Edit(b, [shown[b] EXCEPT !.text = s])
    BY <2>1, <2>2
  <2>5. IsText([shown[b] EXCEPT !.text = s])
    BY <1>2, <2>3, TextEdited
  <2> QED
    BY <2>4, <2>5, EditLegible
<1>4. CASE MakeList(b)
  <2>1. Edit(b, [shown[b] EXCEPT !.tag = "ul"])
    BY <1>4 DEF MakeList
  <2>2. IsText([shown[b] EXCEPT !.tag = "ul"])
    BY <1>2, TextEdited
  <2> QED
    BY <2>1, <2>2, EditLegible
<1> QED
  BY <1>3, <1>4

LEMMA LeaveListLegible ==
  ASSUME EditorInv, CalmInv, Orderly, Legible, NEW b, LeaveList(b)
  PROVE  Legible'
<1>1. PICK html : html = Para(shown[b].text)
  OBVIOUS
<1>2. /\ store' = Put(store, b, html, "paragraph") /\ Send(<<Update(b, html, "paragraph")>>)
      /\ shown' = [shown EXCEPT ![b] = html] /\ UNCHANGED history /\ b \in Ids(store)
  BY <1>1 DEF LeaveList, At
<1>3. IsText(html)
  <2>1. IsText(shown[b])
    BY <1>2, IdsAreBlocks DEF Legible, Screen, AreTexts
  <2> QED
    BY <1>1, <2>1, ParaIsText DEF IsText
<1>4. PICK sh : sh = shown'
  OBVIOUS
<1>5. Redraws(sh, b, html) /\ AreTexts(sh)
  BY <1>2, <1>3, <1>4, EditorCut DEF Legible, Screen
<1>6. Screen(store', shown')
  BY <1>2, <1>4, <1>5, PutLegible DEF Legible
<1>7. OnTheWire'
  BY <1>2, <1>3, UpdateSpelled, SendOneSpells DEF Legible, EditorInv
<1> QED
  BY <1>2, <1>6, <1>7, RecallsStill DEF Legible

LEMMA TimerLegible ==
  ASSUME EditorInv, CalmInv, Orderly, Legible, NEW b, TimerFires(b)
  PROVE  Legible'
<1>1. b \in timers /\ UNCHANGED <<shown, history>>
  BY DEF TimerFires
<1>2. CASE SaveNeeded(b)
  <2>1. /\ Send(<<Update(b, shown[b], LiveType(b))>>)
        /\ store' = Put(store, b, shown[b], TypeOf(shown[b]))
    BY <1>2 DEF TimerFires, SetLocalContent
  <2>2. IsText(shown[b])
    <3>1. b \in Block
      BY <1>1 DEF Orderly, Undisturbed, CalmInv
    <3> QED
      BY <3>1 DEF Legible, Screen, AreTexts
  <2>3. Redraws(shown, b, shown[b]) /\ AreTexts(shown)
    BY DEF Redraws, Legible, Screen
  <2>4. Screen(store', shown')
    BY <1>1, <2>1, <2>3, PutLegible DEF Legible
  <2>5. OnTheWire'
    BY <2>1, <2>2, UpdateSpelled, SendOneSpells DEF Legible, EditorInv
  <2> QED
    BY <1>1, <2>4, <2>5, RecallsStill DEF Legible
<1>3. CASE ~SaveNeeded(b)
  <2>1. UNCHANGED <<store, flight, held>>
    BY <1>3 DEF TimerFires
  <2>2. Recalls'
    BY <1>1, RecallsStill DEF Legible
  <2> QED
    BY <1>1, <2>1, <2>2 DEF Legible, OnTheWire
<1> QED
  BY <1>2, <1>3

LEMMA MoveLegible ==
  ASSUME EditorInv, Legible, NEW i, MoveBlock(i)
  PROVE  Legible'
<1>1. Send(<<Reorder(Swapped(Order(store), i))>>) /\ UNCHANGED <<store, shown, history>>
  BY DEF MoveBlock, screen
<1>2. OnTheWire'
  BY <1>1, ReorderSpelled, SendOneSpells DEF Legible
<1> QED
  BY <1>1, <1>2, RecallsStill DEF Legible

\* A block is taken off the screen.
LEMMA DropLegible ==
  ASSUME EditorInv, CalmInv, Orderly, Screen(store, shown), NEW b, Show(Drop(store, b))
  PROVE  Screen(store', shown')
<1> DEFINE s == Drop(store, b)
<1>1. Ids(s) \subseteq Block
  BY DropIs, IdsAreBlocks DEF EditorInv
<1>2. OnceEach(s)
  BY DropOnce DEF EditorInv, Screen
<1>3. ShowFrom(s, shown, saved, caret)
  BY DEF Show
<1>4. Fits(s, shown, shown[b])
  BY DropFits DEF EditorInv, Screen
<1>5. Fits(s, shown, NoRow.html)
  <2>1. Ids(s) \subseteq Ids(store)
    BY DropIs DEF EditorInv
  <2> HIDE DEF s
  <2>2. \A i \in DOMAIN s : s[i].id \in Ids(store)
    BY <2>1 DEF Ids
  <2> QED
    BY <1>4, <2>2 DEF Fits
<1> HIDE DEF s
<1> QED
  BY <1>1, <1>2, <1>3, <1>5, FitsLegibly, NoTextIs DEF Screen

LEMMA RemoveLegible ==
  ASSUME EditorInv, CalmInv, Orderly, Legible, NEW b, RemoveBlock(b)
  PROVE  Legible'
<1>1. b \in Ids(store) /\ Send(<<Delete(b)>>) /\ Show(Drop(store, b)) /\ UNCHANGED history
  BY DEF RemoveBlock, At
<1>2. Screen(store', shown')
  BY <1>1, DropLegible DEF Legible
<1>3. OnTheWire'
  BY <1>1, DeleteSpelled, SendOneSpells, IdsAreBlocks DEF Legible
<1> QED
  BY <1>1, <1>2, <1>3, RecallsStill DEF Legible

\* A block joins the store.
LEMMA NewIsNew ==
  ASSUME EditorInv, Orderly
  PROVE  made + 1 \notin Ids(store)
<1>1. Ids(store) \subseteq 1..made /\ made \in Nat
  BY DEF Orderly, Undisturbed, EditorInv, IsTable
<1> QED
  BY <1>1

LEMMA InsertLegible ==
  ASSUME EditorInv, CalmInv, Orderly, NEW s, IsRows(s), Ids(s) = Ids(store), NEW display,
         Screen(s, display), NEW row, IsRow(row), row.id = made + 1, row.id \in Block, IsText(row.html),
         NEW known, NEW focus, ShowFrom(Append(Opened(s, row.index), row), display, known, focus)
  PROVE  /\ store' = Append(Opened(s, row.index), row) /\ Screen(store', shown')
         /\ \A b \in Ids(store) : shown'[b] = display[b]
<1> DEFINE u == Append(Opened(s, row.index), row)
<1>1. row.id \notin Ids(store) /\ Ids(store) \subseteq Block
  BY NewIsNew, IdsAreBlocks
<1>2. Fits(u, display, row.html)
  BY <1>1, InsertFits DEF Screen
<1>3. OnceEach(u)
  BY <1>1, InsertOnce DEF Screen
<1>4. Ids(u) = Ids(store) \union {row.id}
  BY OpenedIs, AppendedIs
<1> HIDE DEF u
<1>5. ShowFrom(u, display, known, focus)
  BY DEF u
<1>6. AreTexts(display) /\ Ids(u) \subseteq Block
  BY <1>1, <1>4 DEF Screen
<1>7. store' = u /\ Screen(store', shown') /\ \A b \in Ids(u) \intersect Ids(store) : shown'[b] = display[b]
  BY <1>2, <1>3, <1>5, <1>6, FitsLegibly
<1> QED
  BY <1>4, <1>7 DEF u

LEMMA CreateLocallyLegible ==
  ASSUME EditorInv, CalmInv, Orderly, Legible, NEW row, IsRow(row), row.id = made + 1, IsText(row.html),
         NEW focus, CreateLocally(row, focus)
  PROVE  Legible'
<1>1. /\ ShowFrom(Append(Opened(store, row.index), row), shown, saved, focus) /\ Send(<<Create(row)>>)
      /\ made + 1 \in Block /\ UNCHANGED history
  BY DEF CreateLocally, ChooseId, Fresh
<1>2. Screen(store', shown')
  BY <1>1, InsertLegible DEF Legible, EditorInv
<1>3. OnTheWire'
  BY <1>1, RequestSpelled, SendOneSpells DEF Legible, Create
<1> QED
  BY <1>1, <1>2, <1>3, RecallsStill DEF Legible

LEMMA InsertionLegible ==
  ASSUME EditorInv, CalmInv, Orderly, Legible, NEW b, InsertBlockAfter(b)
  PROVE  Legible'
<1>1. PICK row : row = StoreRow(Fresh, Para(<<>>), "paragraph", RowIn(store, b).index + 1)
  OBVIOUS
<1>2. CreateLocally(row, b) /\ b \in Ids(store)
  BY <1>1 DEF InsertBlockAfter, At
<1>3. RowIn(store, b).index + 1 \in Int
  BY <1>2, RowInIs DEF EditorInv, IsRow
<1>4. IsRow(row) /\ row.id = made + 1 /\ row.html = Para(<<>>)
  BY <1>1, <1>3, StoreRowIs DEF Fresh
<1>5. IsText(row.html)
  BY <1>4, NoTextIs, ParaIsText
<1> QED
  BY <1>2, <1>4, <1>5, CreateLocallyLegible

LEMMA DuplicationLegible ==
  ASSUME EditorInv, CalmInv, Orderly, Legible, NEW b, DuplicateBlock(b)
  PROVE  Legible'
<1> DEFINE old == RowIn(store, b)
           row == [old EXCEPT !.id = Fresh, !.index = old.index + 1]
<1>1. CreateLocally(row, caret) /\ b \in Ids(store)
  BY DEF DuplicateBlock, At
<1>2. IsRow(old) /\ IsText(old.html)
  BY <1>1, RowInIs, RowsAreTexts, IdsAreBlocks DEF EditorInv, Legible
<1> HIDE DEF old
<1>3. row = [id |-> Fresh, html |-> old.html, type |-> old.type, index |-> old.index + 1]
  <2> DEFINE half == [old EXCEPT !.id = Fresh]
  <2>1. half = [id |-> Fresh, html |-> old.html, type |-> old.type, index |-> old.index]
    BY <1>2 DEF IsRow
  <2>2. row = [half EXCEPT !.index = old.index + 1]
    OBVIOUS
  <2> HIDE DEF half, row
  <2> QED
    BY <2>1, <2>2
<1> HIDE DEF row
<1>4. IsRow(row) /\ row.id = made + 1 /\ row.html = old.html
  BY <1>2, <1>3 DEF IsRow, Fresh
<1> QED
  BY <1>1, <1>2, <1>4, CreateLocallyLegible

\* The new row of a split, right after the block's.
NextRow(b, after) == StoreRow(made + 1, after, TypeOf(after), RowIn(store, b).index + 1)

\* A split, seen from the screen.
Splits(kept, sh, b, before, after) ==
  /\ IsRows(kept) /\ Ids(kept) = Ids(store) /\ \E type : kept = Put(store, b, before, type)
  /\ IsRow(NextRow(b, after)) /\ NextRow(b, after).id = made + 1 /\ NextRow(b, after).html = after
  /\ \A c \in Ids(store) : sh[c] = IF c = b THEN before ELSE shown[c]
  /\ store' = Append(Opened(kept, NextRow(b, after).index), NextRow(b, after))
  /\ \A c \in Ids(store) : shown'[c] = sh[c]

LEMMA SplitLegible ==
  ASSUME EditorInv, CalmInv, Orderly, Legible, NEW b \in Ids(store), NEW before, NEW after,
         IsText(before), IsText(after), NEW type, SplitBlock(b, before, after, type, Cut(b, before))
  PROVE  Legible' /\ \E kept, sh : Splits(kept, sh, b, before, after)
<1>1. PICK new : new = NextRow(b, after)
  OBVIOUS
<1>2. PICK kept : kept = Put(store, b, before, IF type = Keep THEN RowIn(store, b).type ELSE type)
  OBVIOUS
<1>3. PICK sh : sh = [shown EXCEPT ![b] = before]
  OBVIOUS
<1>4. /\ ShowFrom(Append(Opened(kept, new.index), new), sh, saved, b) /\ made + 1 \in Block
      /\ Send(<<Create(new), Update(b, before, type)>>) /\ UNCHANGED history
  BY <1>1, <1>2, <1>3 DEF SplitBlock, ChooseId, Fresh, Cut, NextRow
<1>5. RowIn(store, b).index + 1 \in Int
  BY RowInIs DEF EditorInv, IsRow
<1>6. IsRow(new) /\ new.id = made + 1 /\ new.html = after
  BY <1>1, <1>5, StoreRowIs DEF NextRow
<1>7. /\ IsRows(kept) /\ Ids(kept) = Ids(store) /\ Screen(kept, sh)
      /\ \A c \in Ids(store) : sh[c] = IF c = b THEN before ELSE shown[c]
  <2>1. Redraws(sh, b, before) /\ AreTexts(sh)
    BY <1>3, EditorCut DEF Legible, Screen
  <2>2. Screen(kept, sh)
    BY <1>2, <2>1, PutLegible DEF Legible
  <2>3. IsRows(kept) /\ Ids(kept) = Ids(store)
    BY <1>2, PutIs DEF EditorInv
  <2> QED
    BY <2>1, <2>2, <2>3 DEF Redraws
<1>8. /\ store' = Append(Opened(kept, new.index), new) /\ Screen(store', shown')
      /\ \A c \in Ids(store) : shown'[c] = sh[c]
  BY <1>4, <1>6, <1>7, InsertLegible
<1>9. OnTheWire'
  <2>1. Spelled(Create(new))
    BY <1>6, RequestSpelled DEF Create
  <2>2. Spelled(Update(b, before, type))
    BY UpdateSpelled DEF EditorInv
  <2> QED
    BY <1>4, <2>1, <2>2, SendTwoSpells DEF Legible
<1>10. Splits(kept, sh, b, before, after)
  BY <1>1, <1>2, <1>6, <1>7, <1>8 DEF Splits
<1> QED
  BY <1>4, <1>8, <1>9, <1>10, RecallsStill DEF Legible

\* A merge, seen from the screen.
Merges(kept, sh, p, c) ==
  LET html == Merged(RowIn(store, p), RowIn(store, c))
  IN  /\ IsRows(kept) /\ Ids(kept) = Ids(store) /\ kept = Put(store, p, html, RowIn(store, p).type)
      /\ OnceEach(kept)
      /\ \A x \in Ids(store) : sh[x] = IF x = p THEN html ELSE shown[x]
      /\ store' = Drop(kept, c)
      /\ \A x \in Ids(store) \ {c} : shown'[x] = sh[x]

LEMMA MergedIsText ==
  ASSUME CalmInv, Orderly, Legible, NEW p \in Ids(store), NEW c \in Ids(store)
  PROVE  /\ IsText(Merged(RowIn(store, p), RowIn(store, c)))
         /\ Merged(RowIn(store, p), RowIn(store, c)).text = shown[p].text \o shown[c].text
<1>1. PICK s : s = shown[p].text
  OBVIOUS
<1>2. PICK t : t = shown[c].text
  OBVIOUS
<1>3. /\ RowIn(store, p).html = shown[p] /\ IsText(shown[p])
      /\ RowIn(store, c).html = shown[c] /\ IsText(shown[c])
  BY RowsAreTexts, IdsAreBlocks DEF Legible
<1>4. IsSeq(s) /\ IsSeq(t)
  BY <1>1, <1>2, <1>3 DEF IsText
<1>5. IsSeq(s \o t)
  BY <1>4, CatIs, Zenon
<1>6. Merged(RowIn(store, p), RowIn(store, c)) = Para(s \o t)
  BY <1>1, <1>2, <1>3, Zenon DEF Merged
<1>7. PICK u : u = s \o t
  OBVIOUS
<1>8. IsSeq(u)
  BY <1>5, <1>7, Zenon
<1>9. IsText(Para(u)) /\ Para(u).text = u
  BY <1>8, ParaIsText
<1> QED
  BY <1>1, <1>2, <1>6, <1>7, <1>9, Zenon

LEMMA MergeLegible ==
  ASSUME EditorInv, CalmInv, Orderly, Legible, NEW p \in Ids(store), NEW c \in Ids(store),
         MergeBlocks(p, c)
  PROVE  Legible' /\ \E kept, sh : Merges(kept, sh, p, c)
<1>1. PICK html : html = Merged(RowIn(store, p), RowIn(store, c))
  OBVIOUS
<1>2. PICK kept : kept = Put(store, p, html, RowIn(store, p).type)
  OBVIOUS
<1>3. PICK sh : sh = [shown EXCEPT ![p] = html]
  OBVIOUS
<1>4. PICK s : s = Drop(kept, c)
  OBVIOUS
<1>5. /\ \E known : ShowFrom(s, sh, known, p)
      /\ Send(<<Update(p, html, Keep), Delete(c)>>) /\ UNCHANGED history
  BY <1>1, <1>2, <1>3, <1>4 DEF MergeBlocks
<1>6. IsText(html)
  BY <1>1, MergedIsText
<1>7. /\ IsRows(kept) /\ Ids(kept) = Ids(store) /\ Screen(kept, sh)
      /\ \A x \in Ids(store) : sh[x] = IF x = p THEN html ELSE shown[x]
  <2>1. Redraws(sh, p, html) /\ AreTexts(sh)
    BY <1>3, <1>6, EditorCut DEF Legible, Screen
  <2>2. Screen(kept, sh)
    BY <1>2, <2>1, PutLegible DEF Legible
  <2>3. IsRows(kept) /\ Ids(kept) = Ids(store)
    BY <1>2, PutIs DEF EditorInv
  <2> QED
    BY <2>1, <2>2, <2>3 DEF Redraws
<1>8. Ids(s) = Ids(store) \ {c} /\ Ids(s) \subseteq Block /\ OnceEach(s)
  BY <1>4, <1>7, DropIs, DropOnce, IdsAreBlocks DEF Screen
<1>9. Fits(s, sh, html)
  <2>1. Fits(s, sh, sh[c])
    BY <1>4, <1>7, DropFits DEF Screen
  <2>2. \A i \in DOMAIN s : s[i].id \in Ids(store)
    BY <1>8 DEF Ids
  <2> QED
    BY <2>1, <2>2 DEF Fits
<1>10. PICK known : ShowFrom(s, sh, known, p)
  BY <1>5
<1>11. /\ store' = s /\ Screen(store', shown')
       /\ \A x \in Ids(s) \intersect Ids(store) : shown'[x] = sh[x]
  BY <1>6, <1>7, <1>8, <1>9, <1>10, FitsLegibly DEF Screen
<1>12. OnTheWire'
  <2>1. Spelled(Update(p, html, Keep))
    BY <1>6, UpdateSpelled DEF EditorInv
  <2>2. Spelled(Delete(c))
    BY DeleteSpelled, IdsAreBlocks DEF Legible
  <2> QED
    BY <1>5, <2>1, <2>2, SendTwoSpells DEF Legible
<1>13. Merges(kept, sh, p, c)
  BY <1>1, <1>2, <1>4, <1>7, <1>8, <1>11 DEF Merges, Screen
<1> QED
  BY <1>5, <1>11, <1>12, <1>13, RecallsStill DEF Legible

\* The undo stack.
LEMMA RemembersMore ==
  ASSUME NEW s, IsOps(s), Remembers(s), NEW op, IsText(op.row.html)
  PROVE  Remembers(Append(s, op)) /\ Remembers(Front(s))
<1>1. Len(s) \in Nat /\ DOMAIN s = 1..Len(s) /\ IsSeq(s)
  BY IsSeqDomain DEF IsOps
<1> DEFINE u == Append(s, op)
<1>2. IsSeq(u) /\ Len(u) = Len(s) + 1 /\ u[Len(s) + 1] = op /\ \A i \in 1..Len(s) : u[i] = s[i]
  BY <1>1, AppendIs
<1>3. DOMAIN u = 1..Len(s) + 1
  BY <1>2, IsSeqDomain
<1> HIDE DEF u
<1>4. \A i \in DOMAIN u : i = Len(s) + 1 \/ i \in DOMAIN s
  BY <1>1, <1>3
<1>5. Remembers(u)
  BY <1>1, <1>2, <1>4 DEF Remembers
<1>6. Remembers(Front(s))
  BY <1>1, FrontIs DEF Remembers
<1> QED
  BY <1>5, <1>6 DEF u

LEMMA LastRemembered ==
  ASSUME NEW s, IsOps(s), s # <<>>, Remembers(s)
  PROVE  IsText(Last(s).row.html)
<1>1. IsSeq(s) /\ Len(s) \in Nat /\ DOMAIN s = 1..Len(s)
  BY IsSeqDomain DEF IsOps
<1>2. ASSUME Len(s) = 0 PROVE FALSE
  <2>1. s = [i \in 1..0 |-> s[i]]
    BY <1>1, <1>2 DEF IsSeq
  <2>2. s = <<>>
    BY <1>1, <1>2, <2>1
  <2> QED
    BY <2>2
<1> QED
  BY <1>1, <1>2 DEF Remembers, Last

LEMMA IdleIsText == IsText(Idle.inverse.row.html) /\ Remembers(<<>>)
  BY NoTextIs DEF Idle, Op, Remembers

LEMMA RecordRecalls ==
  ASSUME HistoryInv, Recalls, NEW kind, NEW row, NEW ids, IsText(row.html), Record(Op(kind, row, ids))
  PROVE  Recalls'
<1>1. IsText(Op(kind, row, ids).row.html)
  BY DEF Op
<1>2. Remembers(Append(past, Op(kind, row, ids))) /\ Remembers(<<>>)
  BY <1>1, RemembersMore, IdleIsText DEF HistoryInv, Recalls
<1> QED
  BY <1>2 DEF Record, Recalls, history

LEMMA FinishRecalls ==
  ASSUME HistoryInv, Recalls, NEW way, NEW op, IsText(op.row.html), Finish(way, op)
  PROVE  Recalls'
<1>1. /\ Remembers(Append(past, op)) /\ Remembers(Front(past))
      /\ Remembers(Append(future, op)) /\ Remembers(Front(future))
  BY RemembersMore DEF HistoryInv, Recalls
<1> QED
  BY <1>1, IdleIsText DEF Finish, Recalls

LEMMA PendingRecalls ==
  ASSUME Recalls, NEW way, NEW kind, NEW row, NEW ids, IsText(row.html),
         applying' = [way |-> way, inverse |-> Op(kind, row, ids)], UNCHANGED <<past, future>>
  PROVE  Recalls'
<1>1. applying'.inverse.row = row
  BY DEF Op
<1> QED
  BY <1>1 DEF Recalls

LEMMA ApplyLegible ==
  ASSUME EditorInv, CalmInv, Orderly, Legible, NEW way, NEW op, IsOp(op), IsText(op.row.html),
         Apply(way, op)
  PROVE  Legible'
<1> DEFINE b == op.row.id
           again == [op.row EXCEPT !.id = Fresh]
           pending(kind, row, ids) ==
             applying' = [way |-> way, inverse |-> Op(kind, row, ids)] /\ UNCHANGED <<past, future>>
           deletes == /\ b \in Ids(store) /\ Show(Drop(store, b)) /\ Send(<<[Delete(b) EXCEPT !.by = way]>>)
                      /\ pending("delete", RowIn(store, b), <<>>)
           finishes == Finish(way, Op("delete", op.row, <<>>)) /\ UNCHANGED <<store, shown, flight, held>>
           recreates == /\ Send(<<[Request("recreate", again) EXCEPT !.by = way]>>)
                        /\ UNCHANGED <<store, shown>> /\ pending("create", again, <<>>)
           reorders == /\ Send(<<[Reorder(op.ids) EXCEPT !.by = way]>>)
                       /\ UNCHANGED <<store, shown>> /\ pending("reorder", NoRow, Order(store))
<1>1. deletes \/ finishes \/ recreates \/ reorders
  BY DEF Apply, Revert
<1>2. HistoryInv /\ IsRows(store)
  BY DEF EditorInv
<1>3. CASE deletes
  <2>1. IsText(RowIn(store, b).html)
    BY <1>3, RowsAreTexts, IdsAreBlocks DEF Legible
  <2>2. Recalls'
    BY <1>3, <2>1, PendingRecalls DEF Legible
  <2>3. Screen(store', shown')
    BY <1>3, DropLegible DEF Legible
  <2>4. IsRequest(Delete(b)) /\ Spelled(Delete(b))
    BY <1>2, <1>3, DeleteIs, DeleteSpelled, IdsAreBlocks DEF Legible
  <2>5. OnTheWire'
    BY <1>3, <2>4, PostSpelled, SendOneSpells DEF Legible
  <2> QED
    BY <2>2, <2>3, <2>5 DEF Legible
<1>4. CASE finishes
  <2>1. IsText(Op("delete", op.row, <<>>).row.html)
    BY DEF Op
  <2>2. Recalls'
    BY <1>2, <1>4, <2>1, FinishRecalls DEF Legible
  <2> QED
    BY <1>4, <2>2 DEF Legible, OnTheWire
<1>5. CASE recreates
  <2>1. IsRow(again) /\ again.html = op.row.html
    <3>1. IsRow(op.row)
      BY DEF IsOp
    <3>2. again = [id |-> Fresh, html |-> op.row.html, type |-> op.row.type, index |-> op.row.index]
      BY <3>1 DEF IsRow
    <3> HIDE DEF again
    <3> QED
      BY <3>1, <3>2 DEF IsRow
  <2>2. /\ Send(<<[Request("recreate", again) EXCEPT !.by = way]>>)
        /\ UNCHANGED <<store, shown>> /\ pending("create", again, <<>>)
    BY <1>5
  <2> HIDE DEF again
  <2>3. Recalls'
    BY <2>1, <2>2, PendingRecalls DEF Legible
  <2>4. IsRequest(Request("recreate", again)) /\ Spelled(Request("recreate", again))
    BY <2>1, RequestIs, RequestSpelled
  <2>5. OnTheWire'
    BY <2>2, <2>4, PostSpelled, SendOneSpells DEF Legible
  <2> QED
    BY <2>2, <2>3, <2>5 DEF Legible
<1>6. CASE reorders
  <2>1. Recalls'
    BY <1>6, NoTextIs, PendingRecalls DEF Legible
  <2>2. IsRequest(Reorder(op.ids)) /\ Spelled(Reorder(op.ids))
    BY <1>2, ReorderIs, ReorderSpelled DEF IsOp
  <2>3. OnTheWire'
    BY <1>6, <2>2, PostSpelled, SendOneSpells DEF Legible
  <2> QED
    BY <1>6, <2>1, <2>3 DEF Legible
<1> QED
  BY <1>1, <1>3, <1>4, <1>5, <1>6

LEMMA UndoLegible ==
  ASSUME EditorInv, CalmInv, Orderly, Legible, Undo \/ Redo
  PROVE  Legible'
<1>1. IsOps(past) /\ IsOps(future) /\ Remembers(past) /\ Remembers(future)
  BY DEF EditorInv, HistoryInv, Legible, Recalls
<1>2. CASE Undo
  BY <1>1, <1>2, LastIs, LastRemembered, ApplyLegible DEF Undo
<1>3. CASE Redo
  BY <1>1, <1>3, LastIs, LastRemembered, ApplyLegible DEF Redo
<1> QED
  BY <1>2, <1>3

-----------------------------------------------------------------------------
(* The server's answers, and what the client makes of them.                *)

LEMMA ServeAnswers ==
  ASSUME EditorInv, EditorInv', NEW i \in DOMAIN flight, Serve(i)
  PROVE  \/ \E state, rows : Answer(i, state, rows) /\ OnceEach(rows)
         \/ flight' = RemoveAt(flight, i)
<1>1. OnceEach(Adopted(table)) /\ OnceEach(Adopted(table'))
  <2>1. IsTable(table, made) /\ IsTable(table', made')
    BY DEF EditorInv
  <2>2. PICK t : t = table'
    OBVIOUS
  <2>3. PICK n : n = made'
    OBVIOUS
  <2>4. RowsMatch(Adopted(table), table) /\ RowsMatch(Adopted(t), t)
    BY <2>1, <2>2, <2>3, AdoptedMatches
  <2> QED
    BY <2>2, <2>4 DEF RowsMatch, OnceEach
<1>2. \/ \E rows \in {<<>>, Adopted(table), Adopted(table')} : \E state : Answer(i, state, rows)
      \/ flight' = RemoveAt(flight, i)
  BY DEF Serve, ServeUpdate
<1> QED
  BY <1>1, <1>2, NoTextIs

LEMMA ServedAre ==
  ASSUME EditorInv, EditorInv', NEW i \in DOMAIN flight, Serve(i)
  PROVE  \A q \in ToSet(flight') : \E r \in ToSet(flight) :
           q.row = r.row /\ (q.rows = r.rows \/ OnceEach(q.rows))
<1>1. CASE \E state, rows : Answer(i, state, rows) /\ OnceEach(rows)
  <2>1. PICK state, rows : Answer(i, state, rows) /\ OnceEach(rows)
    BY <1>1
  <2>2. ASSUME NEW j \in DOMAIN flight'
        PROVE  /\ j \in DOMAIN flight /\ flight'[j].row = flight[j].row
               /\ flight'[j].rows = flight[j].rows \/ OnceEach(flight'[j].rows)
    <3>1. CASE j = i
      BY <2>1, <3>1, AnsweredIs
    <3>2. CASE j # i
      BY <2>1, <2>2, <3>2, AnsweredIs
    <3> QED
      BY <3>1, <3>2
  <2> QED
    BY <2>2 DEF ToSet
<1>2. CASE flight' = RemoveAt(flight, i)
  BY <1>2, SetOfRest DEF EditorInv
<1> QED
  BY <1>1, <1>2, ServeAnswers

LEMMA ServeLegible ==
  ASSUME EditorInv, EditorInv', Legible, NEW i \in DOMAIN flight, Serve(i)
  PROVE  Legible'
<1>1. UNCHANGED <<store, shown, held, history>>
  BY DEF Serve, screen
<1>2. Spells(ToSet(flight'))
  BY ServedAre DEF Legible, OnTheWire, Spells, Spelled
<1>3. Recalls'
  BY <1>1, RecallsStill DEF Legible
<1> QED
  BY <1>1, <1>2, <1>3 DEF Legible, OnTheWire

LEMMA SettledLeaves ==
  ASSUME EditorInv, NEW i \in DOMAIN flight, Settled(i) \/ Released(i)
  PROVE  /\ \A q \in ToSet(flight') : q \in ToSet(flight) \/ q \in ToSet(held)
         /\ \A q \in ToSet(held') : q \in ToSet(held)
<1>1. ToSet(flight) = Rest(flight, i) \union {flight[i]} /\ ToSet(RemoveAt(flight, i)) = Rest(flight, i)
  BY SetOfRest DEF EditorInv
<1>2. CASE Settled(i)
  BY <1>1, <1>2 DEF Settled
<1>3. CASE Released(i)
  <2>1. PICK W : /\ W \subseteq ToSet(held) /\ ToSet(flight') = Rest(flight, i) \union W
                 /\ ToSet(held') \subseteq ToSet(held)
    BY <1>3, ReleasedAre
  <2> QED
    BY <1>1, <2>1
<1> QED
  BY <1>2, <1>3

LEMMA SettledSpells ==
  ASSUME EditorInv, OnTheWire, NEW i \in DOMAIN flight, Settled(i) \/ Released(i)
  PROVE  OnTheWire'
  BY SettledLeaves DEF OnTheWire, Spells

LEMMA AdoptLegible ==
  ASSUME CalmInv, Orderly, Screen(store, shown), NEW rows, OnceEach(rows), Adopt(rows),
         NEW row, IsText(row.html), TakesOver(rows, row)
  PROVE  Screen(store', shown')
<1> DEFINE display == Taken(rows)
<1>1. ShowFrom(rows, display, saved, caret)
  BY DEF Adopt, Taken
<1>2. \A c \in Contents(store) : c[1] \in Ids(store) /\ c[2] = shown[c[1]]
  BY DEF Contents, Ids, Screen, Mirrors
<1>3. ASSUME NEW k \in DOMAIN rows
      PROVE  \/ rows[k].id \in Ids(store) /\ rows[k].html = shown[rows[k].id]
             \/ rows[k].id = row.id /\ rows[k].html = row.html /\ row.id \in Block /\ row.id \notin Ids(store)
  <2>1. PICK c : c = <<rows[k].id, rows[k].html>>
    OBVIOUS
  <2>2. c[1] = rows[k].id /\ c[2] = rows[k].html
    BY <2>1
  <2>3. c \in Contents(store) \/ (c = <<row.id, row.html>> /\ row.id \in Block /\ row.id \notin Ids(store))
    BY <2>1 DEF TakesOver
  <2> QED
    BY <1>2, <2>2, <2>3
<1>4. Fits(rows, display, row.html) /\ \A b \in Ids(rows) \intersect Ids(store) : display[b] = shown[b]
  BY <1>3, TakenFits
<1>5. Ids(rows) \subseteq Block
  BY <1>3, IdsAreBlocks DEF Ids
<1>6. AreTexts(display)
  <2>1. ASSUME NEW b \in Ids(rows) PROVE IsText(RowIn(rows, b).html)
    <3>1. PICK k \in DOMAIN rows : rows[k].id = b /\ RowIn(rows, b) = rows[k]
      BY <2>1, RowOf
    <3> QED
      BY <1>3, <3>1, IdsAreBlocks DEF Screen, AreTexts
  <2> QED
    BY <2>1 DEF Taken, AreTexts, Screen
<1> HIDE DEF display
<1> QED
  BY <1>1, <1>4, <1>5, <1>6, FitsLegibly DEF Screen

LEMMA ReorderAnsweredLegible ==
  ASSUME EditorInv, CalmInv, Orderly, Legible, NEW i \in DOMAIN flight, Reply(i), ReorderAnswered(i), ~misread'
  PROVE  Legible'
<1>1. PICK r : r = flight[i]
  OBVIOUS
<1>2. r.kind = "reorder" /\ Settled(i) /\ ~ReplacesMore(r) /\ HistoryInv
  BY <1>1 DEF Reply, ReorderAnswered, EditorInv
<1>3. Spelled(r)
  BY <1>1 DEF Legible, OnTheWire, Spells, ToSet
<1>4. Screen(store', shown')
  <2>1. CASE r.state = "done"
    <3>1. Adopt(r.rows)
      BY <1>1, <2>1 DEF ReorderAnswered
    <3>2. Contents(r.rows) = Contents(store)
      BY <1>2, <2>1 DEF ReplacesMore, Listing
    <3>3. TakesOver(r.rows, NoRow)
      BY <3>2 DEF Contents, TakesOver
    <3>4. OnceEach(r.rows)
      BY <1>3 DEF Spelled
    <3> QED
      BY <3>1, <3>3, <3>4, AdoptLegible, NoTextIs DEF Legible
  <2>2. CASE r.state # "done"
    BY <1>1, <2>2 DEF ReorderAnswered, Legible
  <2> QED
    BY <2>1, <2>2
<1>5. Recalls'
  <2>1. \/ Finish(r.by, applying.inverse) \/ UNCHANGED history
        \/ Record(Op("reorder", NoRow, r.prev))
    BY <1>1 DEF ReorderAnswered
  <2>2. IsText(applying.inverse.row.html)
    BY DEF Legible, Recalls
  <2> QED
    BY <1>2, <2>1, <2>2, NoTextIs, FinishRecalls, RecordRecalls, RecallsStill DEF Legible
<1>6. OnTheWire'
  BY <1>2, SettledSpells DEF Legible
<1> QED
  BY <1>4, <1>5, <1>6 DEF Legible

LEMMA RelistedLegible ==
  ASSUME EditorInv, CalmInv, Orderly, Legible, NEW i \in DOMAIN flight, Reply(i), Relisted(i), ~misread'
  PROVE  Legible'
<1>1. PICK r : r = flight[i]
  OBVIOUS
<1>2. PICK row : row = applying.inverse.row
  OBVIOUS
<1>3. /\ r.kind = "relist" /\ r.state = "done" /\ Settled(i) /\ ~ReplacesMore(r) /\ Adopt(r.rows)
      /\ Finish(r.by, applying.inverse) /\ HistoryInv
  BY <1>1 DEF Reply, Relisted, Answered, EditorInv
<1>4. Spelled(r) /\ IsText(row.html)
  BY <1>1, <1>2 DEF Legible, OnTheWire, Recalls, Spells, ToSet
<1>5. row.id \in Block /\ row.id \notin Ids(store)
  <2>1. <<1, i>> \in DOMAIN UnderWay /\ UnderWay[<<1, i>>] = r
    BY <1>1, SentOnTheWire
  <2> QED
    BY <1>2, <1>3, <2>1 DEF Orderly, Undisturbed, Brings, CalmInv, Back
<1>6. TakesOver(r.rows, row)
  <2> DEFINE again == <<row>>
  <2>1. Contents(r.rows) = Contents(store) \union Contents(again)
    BY <1>2, <1>3 DEF ReplacesMore, Listing
  <2>2. DOMAIN again = {1} /\ again[1] = row
    OBVIOUS
  <2> HIDE DEF again
  <2>3. Contents(again) = {<<row.id, row.html>>}
    BY <2>2 DEF Contents
  <2>4. \A k \in DOMAIN r.rows : <<r.rows[k].id, r.rows[k].html>> \in Contents(r.rows)
    BY DEF Contents
  <2> QED
    BY <1>5, <2>1, <2>3, <2>4 DEF TakesOver
<1>7. Screen(store', shown')
  <2>1. OnceEach(r.rows)
    BY <1>4 DEF Spelled
  <2> QED
    BY <1>3, <1>4, <1>6, <2>1, AdoptLegible DEF Legible
<1>8. Recalls'
  BY <1>2, <1>3, <1>4, FinishRecalls DEF Legible
<1>9. OnTheWire'
  BY <1>3, SettledSpells DEF Legible
<1> QED
  BY <1>7, <1>8, <1>9 DEF Legible

LEMMA RecreatedAdds ==
  ASSUME EditorInv, NEW i \in DOMAIN flight, Recreated(i)
  PROVE  /\ \A q \in ToSet(flight') : q \in ToSet(flight) \/ q = Relisting(i)
         /\ held' = held
<1>1. PICK r : r = Relisting(i)
  OBVIOUS
<1>2. PICK g : g = RemoveAt(flight, i)
  OBVIOUS
<1>3. PICK R : R = <<r>>
  OBVIOUS
<1>4. IsSeq(g) /\ IsSeq(R) /\ flight' = g \o R
  BY <1>1, <1>2, <1>3, RecreatedIs, Zenon
<1>5. ToSet(R) = {r}
  BY <1>3, OneIs DEF ToSet
<1>6. ToSet(flight') = ToSet(g) \union {r}
  BY <1>4, <1>5, SetOfCat
<1>7. ToSet(g) \subseteq ToSet(flight)
  BY <1>2, SetOfRest DEF EditorInv
<1> QED
  BY <1>1, <1>6, <1>7 DEF Recreated

LEMMA RecreatedLegible ==
  ASSUME EditorInv, Legible, NEW i \in DOMAIN flight, Recreated(i)
  PROVE  Legible'
<1>1. UNCHANGED <<store, shown, history>>
  BY DEF Recreated
<1>2. Spelled(Relisting(i))
  BY NoRowIs, NoTextIs, RequestIs, RequestSpelled, PostSpelled DEF Relisting
<1>3. OnTheWire'
  BY <1>2, RecreatedAdds DEF Legible, OnTheWire, Spells
<1> QED
  BY <1>1, <1>3, RecallsStill DEF Legible

\* A refused update found no block, here or there.
LEMMA RollsNothingBack ==
  ASSUME EditorInv, Orderly, NEW i \in DOMAIN flight, UpdateFailed(i)
  PROVE  RolledBack(flight[i]) = store
<1>1. PICK r : r = flight[i]
  OBVIOUS
<1>2. r.row.id \notin Ids(store)
  <2>1. r \in ToSet(flight) /\ r.kind = "update" /\ r.state = "refused"
    BY <1>1 DEF UpdateFailed, Answered, ToSet
  <2> QED
    BY <2>1 DEF Orderly, InTurn
<1>3. \A k \in DOMAIN store : store[k].id # r.row.id
  BY <1>2 DEF Ids
<1>4. RolledBack(r) = [k \in DOMAIN store |-> store[k]]
  BY <1>3 DEF RolledBack
<1>5. store = [k \in DOMAIN store |-> store[k]]
  BY IsSeqDomain DEF EditorInv, IsRows, IsSeq
<1> QED
  BY <1>1, <1>4, <1>5

LEMMA UpdateFailedLegible ==
  ASSUME EditorInv, CalmInv, Orderly, Legible, NEW i \in DOMAIN flight, UpdateFailed(i)
  PROVE  Legible'
<1>1. Show(RolledBack(flight[i])) /\ Settled(i) /\ UNCHANGED history
  BY DEF UpdateFailed
<1>2. store' = store /\ shown' = shown
  BY <1>1, RollsNothingBack, ShowAgain
<1>3. OnTheWire'
  BY <1>1, SettledSpells DEF Legible
<1> QED
  BY <1>1, <1>2, <1>3, RecallsStill DEF Legible

\* Of what the client makes of a failure, only an update's comes about.
LEMMA NoneFailed ==
  ASSUME Orderly, NEW i \in DOMAIN flight, Reply(i), ~misread'
  PROVE  ~CreateFailed(i) /\ ~DeleteFailed(i) /\ ~UndoFailed(i)
<1>1. flight[i] \in ToSet(flight)
  BY DEF ToSet
<1> QED
  BY <1>1 DEF CreateFailed, DeleteFailed, UndoFailed, Answered, Orderly, InTurn, Creates, Reply

LEMMA ReplyLegible ==
  ASSUME EditorInv, CalmInv, Orderly, ~misread, ~refused, Legible, NEW i \in DOMAIN flight, Reply(i), ~misread'
  PROVE  Legible'
<1>1. flight[i] \in ToSet(flight)
  BY DEF ToSet
<1>2. ~CreateFailed(i) /\ ~DeleteFailed(i) /\ ~UndoFailed(i)
  BY NoneFailed
<1>3. IsText(flight[i].row.html) /\ IsText(applying.inverse.row.html) /\ HistoryInv
  BY <1>1 DEF Legible, OnTheWire, Recalls, Spells, Spelled, EditorInv
<1>4. CASE Created(i)
  <2>1. Recalls'
    BY <1>3, <1>4, RecordRecalls DEF Created, Legible
  <2>2. OnTheWire'
    BY <1>4, SettledSpells DEF Created, Legible
  <2> QED
    BY <1>4, <2>1, <2>2 DEF Created, Legible
<1>5. CASE Deleted(i)
  <2>1. Record(Op("delete", flight[i].row, <<>>)) \/ Finish(flight[i].by, applying.inverse)
    BY <1>5 DEF Deleted
  <2>2. Recalls'
    BY <1>3, <2>1, RecordRecalls, FinishRecalls DEF Legible
  <2>3. OnTheWire'
    BY <1>5, SettledSpells DEF Deleted, Legible
  <2> QED
    BY <1>5, <2>2, <2>3 DEF Deleted, Legible
<1> QED
  BY <1>2, <1>4, <1>5, UpdateFailedLegible, ReorderAnsweredLegible,
     RecreatedLegible, RelistedLegible DEF Reply

LEMMA SteadyBefore ==
  ASSUME [EditorNext]_editorVars
  PROVE  (~misread' => ~misread) /\ (~refused' => ~refused) /\ (~uncut' => ~uncut)
<1> DEFINE Steady == (~misread' => ~misread) /\ (~refused' => ~refused) /\ (~uncut' => ~uncut)
<1>u. UNCHANGED marks => Steady
  BY DEF marks
<1>1. ASSUME NEW b, Type(b) \/ MakeList(b)
      PROVE  Steady
  <2>1. PICK html : Edit(b, html)
    BY <1>1 DEF Type, MakeList
  <2> QED
    BY <2>1 DEF Edit
<1>2. CASE Blur \/ (\E b : Click(b)) \/ UNCHANGED editorVars \/ \E i : MoveBlock(i)
  BY <1>2, <1>u DEF Blur, Click, MoveBlock, editorVars
<1>3. CASE Restructure
  BY <1>3, RestructureMarks
<1>4. ASSUME NEW i, Serve(i) \/ Refuse(i) \/ Reply(i)
      PROVE  Steady
  <2>1. CASE Serve(i)
    BY <2>1 DEF Serve
  <2>2. CASE Refuse(i)
    BY <2>2 DEF Refuse
  <2>3. CASE Reply(i)
    <3>1. /\ refused' = refused /\ uncut' = uncut
          /\ misread' = (misread \/ ReplacesMore(flight[i]) \/ Answered(i, "relist", "refused"))
      BY <2>3 DEF Reply
    <3> QED
      BY <3>1, Zenon
  <2> QED
    BY <1>4, <2>1, <2>2, <2>3
<1>5. ASSUME NEW b, TimerFires(b) \/ LeaveList(b) \/ DuplicateBlock(b) \/ RemoveBlock(b)
      PROVE  Steady
  BY <1>5, <1>u DEF TimerFires, LeaveList, DuplicateBlock, CreateLocally, RemoveBlock
<1>6. CASE Undo \/ Redo
  BY <1>6 DEF Undo, Redo, Apply
<1> QED
  BY <1>1, <1>2, <1>3, <1>4, <1>5, <1>6 DEF EditorNext, Saving

\* The halves of a block are texts that read, end to end, as it did.
Halves(before, after, html) ==
  /\ IsText(before) /\ IsText(after)
  /\ html.text = before.text \o after.text

LEMMA HalvesRead ==
  ASSUME NEW html, IsText(html), NEW k \in 0..Len(html.text)
  PROVE  Halves([html EXCEPT !.text = Upto(html.text, k)], [html EXCEPT !.text = From(html.text, k)], html)
<1>1. PICK s : s = html.text
  OBVIOUS
<1>2. IsSeq(s) /\ Len(s) \in Nat /\ k \in 0..Len(s)
  BY <1>1 DEF IsText, IsSeq
<1>3. PICK a : a = SubSeq(s, 1, k)
  OBVIOUS
<1>4. PICK z : z = SubSeq(s, k + 1, Len(s))
  OBVIOUS
<1>5. IsSeq(a) /\ IsSeq(z)
  <2>1. 1 \in 1..Len(s) + 1 /\ k \in 0..Len(s) /\ 1 <= k + 1
    BY <1>2
  <2>2. k + 1 \in 1..Len(s) + 1 /\ Len(s) \in 0..Len(s) /\ k + 1 <= Len(s) + 1
    BY <1>2
  <2> QED
    BY <1>2, <1>3, <1>4, <2>1, <2>2, SubSeqIs
<1>6. a \o z = s
  BY <1>2, <1>3, <1>4, CutsRejoin, Zenon
<1>7. PICK before : before = [html EXCEPT !.text = a]
  OBVIOUS
<1>8. PICK after : after = [html EXCEPT !.text = z]
  OBVIOUS
<1>9. IsText(before) /\ before.text = a /\ IsText(after) /\ after.text = z
  BY <1>5, <1>7, <1>8, TextEdited
<1>10. Halves(before, after, html)
  BY <1>1, <1>6, <1>9, Zenon DEF Halves
<1> QED
  BY <1>1, <1>3, <1>4, <1>7, <1>8, <1>10, Zenon DEF Upto, From

\* Enter is a split of what the editor shows.
LEMMA EnterSplits ==
  ASSUME CalmInv, Orderly, Legible, NEW b, NEW k, Enter(b, k)
  PROVE  /\ b \in Ids(store)
         /\ \E before, after, type :
              Halves(before, after, shown[b]) /\ SplitBlock(b, before, after, type, Cut(b, before))
<1>1. b \in Ids(store) /\ k \in 0..Len(shown[b].text)
  BY DEF Enter, At
<1>2. PICK before : before = [shown[b] EXCEPT !.text = Upto(shown[b].text, k)]
  OBVIOUS
<1>3. PICK after : after = [shown[b] EXCEPT !.text = From(shown[b].text, k)]
  OBVIOUS
<1>4. SplitBlock(b, before, after, LiveType(b), Cut(b, before))
  BY <1>2, <1>3, Zenon DEF Enter
<1>5. IsText(shown[b])
  BY <1>1, IdsAreBlocks DEF Legible, Screen, AreTexts
<1>6. Halves(before, after, shown[b])
  BY <1>1, <1>2, <1>3, <1>5, HalvesRead
<1> QED
  BY <1>1, <1>4, <1>6

\* Backspace and Delete merge two blocks that follow each other.
LEMMA BackspaceMerges ==
  ASSUME EditorInv, NEW i, Backspace(i) \/ ForwardDelete(i)
  PROVE  \E k \in 1..Len(store) - 1 :
           /\ Order(store)[k] \in Ids(store) /\ Order(store)[k + 1] \in Ids(store)
           /\ MergeBlocks(Order(store)[k], Order(store)[k + 1])
<1>1. Len(store) \in Nat /\ DOMAIN store = 1..Len(store)
  BY IsSeqDomain DEF EditorInv, IsRows
<1>2. \A k \in 1..Len(store) : Order(store)[k] \in Ids(store)
  BY <1>1, OrderIs DEF EditorInv
<1>3. CASE Backspace(i)
  <2>1. i \in 2..Len(store) /\ MergeBlocks(Order(store)[i - 1], Order(store)[i])
    BY <1>3 DEF Backspace
  <2>2. i - 1 \in 1..Len(store) - 1 /\ i - 1 \in 1..Len(store) /\ i \in 1..Len(store) /\ (i - 1) + 1 = i
    BY <1>1, <2>1
  <2> QED
    BY <1>2, <2>1, <2>2
<1>4. CASE ForwardDelete(i)
  <2>1. i \in 1..Len(store) - 1 /\ MergeBlocks(Order(store)[i], Order(store)[i + 1])
    BY <1>4 DEF ForwardDelete
  <2>2. i \in 1..Len(store) /\ i + 1 \in 1..Len(store)
    BY <1>1, <2>1
  <2> QED
    BY <1>2, <2>1, <2>2
<1> QED
  BY <1>3, <1>4

LEMMA RestructureLegible ==
  ASSUME EditorInv, CalmInv, Orderly, Legible, Restructure, ~uncut'
  PROVE  Legible'
<1>0. \A b, k : ~ModEnter(b, k)
  BY DEF ModEnter
<1>1. CASE \E b \in Block, k \in 0..typed : Enter(b, k)
  <2>1. PICK b, k : Enter(b, k)
    BY <1>1
  <2>2. PICK before, after, type :
          Halves(before, after, shown[b]) /\ SplitBlock(b, before, after, type, Cut(b, before))
    BY <2>1, EnterSplits
  <2>3. b \in Ids(store) /\ IsText(before) /\ IsText(after)
    BY <2>1, <2>2, EnterSplits DEF Halves
  <2> QED
    BY <2>2, <2>3, SplitLegible
<1>2. CASE \E b \in Block : InsertBlockAfter(b)
  BY <1>2, InsertionLegible
<1>3. CASE \E i \in DOMAIN store : Backspace(i) \/ ForwardDelete(i)
  BY <1>3, BackspaceMerges, MergeLegible
<1> QED
  BY <1>0, <1>1, <1>2, <1>3 DEF Restructure

LEMMA LegibleStep ==
  ASSUME EditorInv, EditorInv', CalmInv, LegibleInv, [EditorNext]_editorVars
  PROVE  LegibleInv'
<1> SUFFICES ASSUME ~misread', ~refused', ~uncut' PROVE Legible'
  BY DEF LegibleInv
<1>c. Legible /\ Orderly /\ ~misread /\ ~refused
  BY SteadyBefore, CleanIsOrderly DEF LegibleInv
<1>1. ASSUME NEW b, Type(b) \/ MakeList(b)
      PROVE  Legible'
  BY <1>c, <1>1, TypingLegible
<1>2. CASE Blur \/ (\E b : Click(b)) \/ UNCHANGED editorVars
  <2>1. UNCHANGED <<store, shown, flight, held, history>>
    BY <1>2 DEF Blur, Click, editorVars, screen
  <2>2. Recalls'
    BY <1>c, <2>1, RecallsStill DEF Legible
  <2> QED
    BY <1>c, <2>1, <2>2 DEF Legible, OnTheWire
<1>3. CASE Restructure
  BY <1>c, <1>3, RestructureLegible
<1>4. CASE Saving
  <2>1. ASSUME NEW i \in DOMAIN flight, Serve(i)
        PROVE  Legible'
    BY <1>c, <2>1, ServeLegible
  <2>2. ASSUME NEW i \in DOMAIN flight, Reply(i)
        PROVE  Legible'
    BY <1>c, <2>2, ReplyLegible
  <2>3. ASSUME NEW i \in DOMAIN flight, Refuse(i)
        PROVE  Legible'
    BY <2>3 DEF Refuse
  <2>4. CASE \E b \in Block : TimerFires(b)
    BY <1>c, <2>4, TimerLegible
  <2> QED
    BY <1>4, <2>1, <2>2, <2>3, <2>4 DEF Saving
<1>5. ASSUME NEW b \in Block, LeaveList(b) \/ DuplicateBlock(b) \/ RemoveBlock(b)
      PROVE  Legible'
  BY <1>c, <1>5, LeaveListLegible, DuplicationLegible, RemoveLegible
<1>6. ASSUME NEW i \in DOMAIN store, MoveBlock(i)
      PROVE  Legible'
  BY <1>c, <1>6, MoveLegible
<1> QED
  BY <1>1, <1>2, <1>3, <1>4, <1>5, <1>6, <1>c, UndoLegible DEF EditorNext

-----------------------------------------------------------------------------
(* What the page reads.                                                    *)

TextsOf(s, sh) == [k \in DOMAIN s |-> sh[Order(s)[k]].text]

LEMMA TextsAreLists ==
  ASSUME NEW s, IsRows(s), Ids(s) \subseteq Block, NEW sh, AreTexts(sh)
  PROVE  IsLists(TextsOf(s, sh)) /\ Len(TextsOf(s, sh)) = Len(s)
<1>1. PICK t : t = TextsOf(s, sh)
  OBVIOUS
<1>2. Len(s) \in Nat /\ DOMAIN s = 1..Len(s) /\ \A k \in DOMAIN s : Order(s)[k] \in Block
  BY RankedRows, OrderIs
<1>3. t = [k \in 1..Len(s) |-> t[k]] /\ \A k \in 1..Len(s) : t[k] = sh[Order(s)[k]].text
  BY <1>1, <1>2 DEF TextsOf
<1>4. IsSeq(t) /\ Len(t) = Len(s)
  BY <1>2, <1>3, TableIsSeq
<1>5. \A k \in 1..Len(s) : IsSeq(t[k])
  BY <1>2, <1>3 DEF AreTexts, IsText
<1> QED
  BY <1>1, <1>4, <1>5 DEF IsLists

LEMMA OrderOnce ==
  ASSUME NEW s, IsRows(s), OnceEach(s), NEW k \in 1..Len(s), NEW l \in 1..Len(s), Order(s)[k] = Order(s)[l]
  PROVE  k = l
<1>1. PICK i \in DOMAIN s : Rank(s, i) = k - 1 /\ Order(s)[k] = s[i].id
  BY RankedRows
<1>2. PICK j \in DOMAIN s : Rank(s, j) = l - 1 /\ Order(s)[l] = s[j].id
  BY RankedRows
<1>3. i = j
  BY <1>1, <1>2 DEF OnceEach
<1>4. k - 1 = l - 1
  BY <1>1, <1>2, <1>3
<1> QED
  BY <1>4

\* The block b of s, m-th in its order, is b and c in u, one after the other.
Rejoins(s, sh, u, uh, m, b, c) ==
  /\ Len(u) = Len(s) + 1 /\ m \in 1..Len(s)
  /\ JoinsAt(Order(u), Order(s), m, Len(s), c) /\ Order(s)[m] = b
  /\ \A x \in Ids(s) : x # b => uh[x] = sh[x]
  /\ sh[b].text = uh[b].text \o uh[c].text

LEMMA RejoinedReads ==
  ASSUME NEW s, IsRows(s), OnceEach(s), Ids(s) \subseteq Block, NEW u, IsRows(u), Ids(u) \subseteq Block,
         NEW sh, AreTexts(sh), NEW uh, AreTexts(uh), NEW m, NEW b, NEW c, Rejoins(s, sh, u, uh, m, b, c)
  PROVE  FlattenSeq(TextsOf(s, sh)) = FlattenSeq(TextsOf(u, uh))
<1>1. PICK v : v = TextsOf(s, sh)
  OBVIOUS
<1>2. PICK w : w = TextsOf(u, uh)
  OBVIOUS
<1>3. IsLists(v) /\ Len(v) = Len(s) /\ IsLists(w) /\ Len(w) = Len(u)
  BY <1>1, <1>2, TextsAreLists
<1>4. /\ Len(s) \in Nat /\ DOMAIN s = 1..Len(s) /\ DOMAIN u = 1..Len(u)
      /\ \A k \in 1..Len(s) : Order(s)[k] \in Ids(s)
  BY RankedRows, OrderIs
<1>5. /\ \A k \in 1..Len(s) : v[k] = sh[Order(s)[k]].text
      /\ \A k \in 1..Len(u) : w[k] = uh[Order(u)[k]].text
  BY <1>1, <1>2, <1>4 DEF TextsOf
<1>6. Len(u) = Len(s) + 1 /\ m \in 1..Len(s) /\ Order(s)[m] = b
  BY DEF Rejoins
<1>7. \A k \in 1..Len(s) : k # m => uh[Order(s)[k]] = sh[Order(s)[k]]
  BY <1>4, <1>6, OrderOnce DEF Rejoins
<1>8. ASSUME NEW k \in 1..m - 1 PROVE w[k] = v[k]
  <2>1. k \in 1..Len(s) /\ k \in 1..Len(u) /\ k # m /\ k \in 1..m
    BY <1>4, <1>6
  <2>2. Order(u)[k] = Order(s)[k]
    BY <2>1 DEF Rejoins, JoinsAt
  <2> QED
    BY <1>5, <1>7, <2>1, <2>2
<1>9. ASSUME NEW k \in m + 1..Len(s) PROVE w[k + 1] = v[k]
  <2>1. k \in 1..Len(s) /\ k + 1 \in 1..Len(u) /\ k # m
    BY <1>4, <1>6
  <2>2. Order(u)[k + 1] = Order(s)[k]
    BY DEF Rejoins, JoinsAt
  <2> QED
    BY <1>5, <1>7, <2>1, <2>2
<1>10. v[m] = w[m] \o w[m + 1]
  <2>1. m \in 1..Len(u) /\ m + 1 \in 1..Len(u) /\ m \in 1..m
    BY <1>4, <1>6
  <2>2. Order(u)[m] = b /\ Order(u)[m + 1] = c
    BY <1>6, <2>1 DEF Rejoins, JoinsAt
  <2>3. v[m] = sh[b].text /\ w[m] = uh[b].text /\ w[m + 1] = uh[c].text
    BY <1>5, <1>6, <2>1, <2>2
  <2> QED
    BY <2>3, Zenon DEF Rejoins
<1>11. SplitAt(v, w, m)
  <2>1. Len(w) = Len(v) + 1 /\ m \in 1..Len(v) /\ \A i \in 1..m - 1 : w[i] = v[i]
    BY <1>3, <1>6, <1>8
  <2>2. \A i \in m + 1..Len(v) : w[i + 1] = v[i]
    BY <1>3, <1>9
  <2> QED
    BY <1>10, <2>1, <2>2, Zenon DEF SplitAt
<1>12. FlattenSeq(v) = FlattenSeq(w)
  BY <1>3, <1>11, SplitReadsTheSame
<1> QED
  BY <1>1, <1>2, <1>12

\* kept is the store, but for contents.
Keeps(kept) ==
  /\ IsRows(kept) /\ OnceEach(kept) /\ Ids(kept) = Ids(store)
  /\ DOMAIN kept = DOMAIN store /\ Order(kept) = Order(store)
  /\ \A i \in DOMAIN store : kept[i].id = store[i].id /\ kept[i].index = store[i].index

LEMMA PutKeeps ==
  ASSUME EditorInv, OnceEach(store), NEW b, NEW html, NEW type, NEW kept, kept = Put(store, b, html, type)
  PROVE  Keeps(kept)
<1>1. IsRows(store)
  BY DEF EditorInv
<1>2. PutsRows(kept, store, b, html)
  BY <1>1, PutRows
<1>3. OnceEach(kept) /\ IsRows(kept) /\ Ids(kept) = Ids(store)
  BY <1>1, PutOnce, PutIs
<1>4. DOMAIN kept = DOMAIN store /\ Order(kept) = Order(store)
  BY <1>1, PutKeepsOrder
<1> QED
  BY <1>2, <1>3, <1>4 DEF Keeps, PutsRows

LEMMA KeptReads ==
  ASSUME NEW kept, Keeps(kept), NEW sh
  PROVE  TextsOf(kept, sh) = TextsOf(store, sh)
  BY DEF Keeps, TextsOf

\* The block's text is its own and that of the row that comes next.
Continues(b, row, uh) ==
  /\ \A x \in Ids(store) : x # b => uh[x] = shown[x]
  /\ shown[b].text = uh[b].text \o row.html.text

LEMMA NextReads ==
  ASSUME EditorInv, CalmInv, Orderly, Screen(store, shown), ~Tied, NEW b \in Ids(store), NEW kept, Keeps(kept),
         NEW row, IsRow(row), row.id \in Block, row.index = RowIn(store, b).index + 1,
         NEW u, u = Append(Opened(kept, row.index), row), NEW uh, Screen(u, uh), Continues(b, row, uh)
  PROVE  FlattenSeq(TextsOf(u, uh)) = FlattenSeq(TextsOf(store, shown))
<1>1. IsRows(kept) /\ OnceEach(kept) /\ Ids(kept) \subseteq Block /\ Ids(kept) = Ids(store)
  BY IdsAreBlocks DEF Keeps
<1>2. PICK j \in DOMAIN store : store[j].id = b /\ RowIn(store, b) = store[j]
  BY RowOf
<1>3. j \in DOMAIN kept /\ kept[j].id = b /\ row.index = kept[j].index + 1
  BY <1>2 DEF Keeps
<1>4. Apart(kept)
  BY DEF Keeps, Tied, Apart
<1>5. Inserts(u, kept, row) /\ IsRows(u) /\ Ids(u) = Ids(kept) \union {row.id}
  BY <1>1, InsertRows, OpenedIs, AppendedIs
<1>6. PICK m : m = Rank(kept, j) + 1
  OBVIOUS
<1>7. JoinsAt(Order(u), Order(kept), m, Len(kept), row.id)
  BY <1>1, <1>3, <1>4, <1>5, <1>6, InsertedComesNext
<1>8. m \in 1..Len(kept) /\ Order(kept)[m] = b /\ Len(kept) \in Nat
  BY <1>1, <1>3, <1>6, RankedRows
<1>9. Len(u) = Len(kept) + 1
  <2>1. Len(u) \in Nat /\ 1..Len(u) = 1..Len(kept) + 1
    BY <1>5, RankedRows DEF Inserts
  <2> QED
    BY <1>8, <2>1
<1>10. uh[row.id] = row.html
  <2>1. Len(kept) + 1 \in DOMAIN u /\ u[Len(kept) + 1] = row
    BY <1>5 DEF Inserts
  <2> QED
    BY <2>1 DEF Screen, Mirrors
<1>11. Rejoins(kept, shown, u, uh, m, b, row.id)
  <2>1. shown[b].text = uh[b].text \o uh[row.id].text
    BY <1>10, Zenon DEF Continues
  <2>2. \A x \in Ids(kept) : x # b => uh[x] = shown[x]
    BY <1>1 DEF Continues
  <2> QED
    BY <1>7, <1>8, <1>9, <2>1, <2>2, Zenon DEF Rejoins
<1>12. FlattenSeq(TextsOf(kept, shown)) = FlattenSeq(TextsOf(u, uh))
  <2>1. AreTexts(shown) /\ AreTexts(uh) /\ Ids(u) \subseteq Block
    BY <1>1, <1>5 DEF Screen
  <2> QED
    BY <1>1, <1>5, <1>11, <2>1, RejoinedReads
<1>13. TextsOf(kept, shown) = TextsOf(store, shown)
  BY KeptReads
<1> QED
  BY <1>12, <1>13

LEMMA ReadingIs ==
  ASSUME NEW u, u = store', NEW uh, uh = shown'
  PROVE  Reading = FlattenSeq(TextsOf(store, shown)) /\ Reading' = FlattenSeq(TextsOf(u, uh))
<1>1. Reading = FlattenSeq(TextsOf(store, shown))
  BY DEF Reading, TextsOf
<1>2. Reading' = FlattenSeq(TextsOf(u, uh))
  BY DEF Reading, TextsOf
<1> QED
  BY <1>1, <1>2

LEMMA EnterReads ==
  ASSUME EditorInv, CalmInv, Orderly, Legible, ~Tied, NEW b, NEW k, Enter(b, k)
  PROVE  Reading' = Reading
<1>1. PICK before, after, type :
        Halves(before, after, shown[b]) /\ SplitBlock(b, before, after, type, Cut(b, before))
  BY EnterSplits
<1>2. b \in Ids(store) /\ IsText(before) /\ IsText(after)
  BY <1>1, EnterSplits DEF Halves
<1>3. Legible' /\ \E kept, sh : Splits(kept, sh, b, before, after)
  BY <1>1, <1>2, SplitLegible
<1>4. PICK kept, sh : Splits(kept, sh, b, before, after)
  BY <1>3
<1>5. PICK row : row = NextRow(b, after)
  OBVIOUS
<1>6. PICK u : u = store'
  OBVIOUS
<1>7. PICK uh : uh = shown'
  OBVIOUS
<1>8. u = Append(Opened(kept, row.index), row) /\ IsRow(row) /\ row.id = made + 1 /\ row.html = after
  BY <1>4, <1>5, <1>6 DEF Splits
<1>9. row.index = RowIn(store, b).index + 1
  BY <1>5 DEF NextRow, StoreRow
<1>10. Screen(u, uh) /\ Screen(store, shown)
  BY <1>3, <1>6, <1>7 DEF Legible
<1>11. Keeps(kept)
  BY <1>4, <1>10, PutKeeps DEF Splits, Screen
<1>12. row.id \in Block
  BY <1>1, <1>8 DEF SplitBlock, ChooseId, Fresh
<1>13. uh[b] = before /\ \A x \in Ids(store) : x # b => uh[x] = shown[x]
  BY <1>2, <1>4, <1>7 DEF Splits
<1>14. Continues(b, row, uh)
  <2>1. shown[b].text = uh[b].text \o row.html.text
    BY <1>1, <1>8, <1>13, Zenon DEF Halves
  <2> QED
    BY <1>13, <2>1, Zenon DEF Continues
<1>15. FlattenSeq(TextsOf(u, uh)) = FlattenSeq(TextsOf(store, shown))
  BY <1>2, <1>8, <1>9, <1>10, <1>11, <1>12, <1>14, NextReads
<1> QED
  BY <1>6, <1>7, <1>15, ReadingIs

LEMMA InsertionReads ==
  ASSUME EditorInv, CalmInv, Orderly, Legible, ~Tied, NEW b, InsertBlockAfter(b)
  PROVE  Reading' = Reading
<1>1. PICK row : row = StoreRow(Fresh, Para(<<>>), "paragraph", RowIn(store, b).index + 1)
  OBVIOUS
<1>2. /\ ShowFrom(Append(Opened(store, row.index), row), shown, saved, b) /\ b \in Ids(store)
      /\ made + 1 \in Block
  BY <1>1 DEF InsertBlockAfter, At, CreateLocally, ChooseId, Fresh
<1>3. RowIn(store, b).index + 1 \in Int
  BY <1>2, RowInIs DEF EditorInv, IsRow
<1>4. /\ IsRow(row) /\ row.id = made + 1 /\ row.html = Para(<<>>) /\ row.id \in Block
      /\ row.index = RowIn(store, b).index + 1
  BY <1>1, <1>2, <1>3, StoreRowIs DEF Fresh
<1>5. IsText(row.html) /\ row.html.text = <<>>
  BY <1>4, NoTextIs, ParaIsText
<1>6. PICK u : u = store'
  OBVIOUS
<1>7. PICK uh : uh = shown'
  OBVIOUS
<1>8. Screen(store, shown) /\ IsRows(store)
  BY DEF Legible, EditorInv
<1>9. /\ u = Append(Opened(store, row.index), row) /\ Screen(u, uh)
      /\ \A c \in Ids(store) : uh[c] = shown[c]
  BY <1>2, <1>4, <1>5, <1>6, <1>7, <1>8, InsertLegible
<1>10. Keeps(store)
  BY <1>8 DEF Keeps, Screen
<1>11. Continues(b, row, uh)
  <2>1. PICK t : t = shown[b].text
    OBVIOUS
  <2>2. IsSeq(t)
    BY <1>2, <2>1, IdsAreBlocks DEF Legible, Screen, AreTexts, IsText
  <2>3. t = t \o <<>>
    BY <2>2, EmptyCat, Zenon
  <2>4. uh[b].text = t
    BY <1>2, <1>9, <2>1
  <2>5. shown[b].text = uh[b].text \o row.html.text
    BY <1>5, <2>1, <2>3, <2>4, Zenon
  <2> QED
    BY <1>9, <2>5, Zenon DEF Continues
<1>12. FlattenSeq(TextsOf(u, uh)) = FlattenSeq(TextsOf(store, shown))
  BY <1>2, <1>4, <1>8, <1>9, <1>10, <1>11, NextReads
<1> QED
  BY <1>6, <1>7, <1>12, ReadingIs

LEMMA MergeReads ==
  ASSUME EditorInv, CalmInv, Orderly, Legible, NEW k \in 1..Len(store) - 1,
         NEW p \in Ids(store), p = Order(store)[k], NEW c \in Ids(store), c = Order(store)[k + 1], MergeBlocks(p, c)
  PROVE  Reading' = Reading
<1>1. Legible' /\ \E kept, sh : Merges(kept, sh, p, c)
  BY MergeLegible
<1>2. PICK kept, sh : Merges(kept, sh, p, c)
  BY <1>1
<1>3. PICK html : html = Merged(RowIn(store, p), RowIn(store, c))
  OBVIOUS
<1>4. PICK u : u = store'
  OBVIOUS
<1>5. PICK uh : uh = shown'
  OBVIOUS
<1>6. /\ u = Drop(kept, c) /\ OnceEach(kept) /\ IsRows(kept) /\ Ids(kept) = Ids(store)
      /\ \A x \in Ids(store) \ {c} : uh[x] = IF x = p THEN html ELSE shown[x]
  BY <1>2, <1>3, <1>4, <1>5 DEF Merges
<1>7. Screen(u, uh) /\ Screen(store, shown)
  BY <1>1, <1>4, <1>5 DEF Legible
<1>8. Keeps(kept)
  BY <1>2, <1>7, PutKeeps DEF Merges, Screen
<1>9. IsRows(u) /\ Ids(u) = Ids(store) \ {c} /\ Ids(store) \subseteq Block
  BY <1>6, DropIs, IdsAreBlocks
<1>10. Len(kept) = Len(store) /\ Len(store) \in Nat /\ k \in 1..Len(kept) /\ k + 1 \in 1..Len(kept) /\ k \in 1..Len(kept) - 1
  <2>1. Len(kept) \in Nat /\ Len(store) \in Nat /\ 1..Len(kept) = 1..Len(store)
    BY <1>6, <1>8, RankedRows DEF Keeps, EditorInv
  <2>2. Len(kept) = Len(store)
    BY <2>1
  <2> QED
    BY <2>1, <2>2
<1>11. Order(kept)[k] = p /\ Order(kept)[k + 1] = c
  BY <1>8 DEF Keeps
<1>12. PICK j \in DOMAIN kept : Rank(kept, j) = (k + 1) - 1 /\ Order(kept)[k + 1] = kept[j].id
  BY <1>6, <1>10, RankedRows
<1>13. Rank(kept, j) = k /\ kept[j].id = c
  BY <1>11, <1>12
<1>14. Len(kept) = Len(u) + 1 /\ JoinsAt(Order(kept), Order(u), k, Len(u), c)
  BY <1>6, <1>9, <1>13, DroppedLeavesTheRest
<1>15. p # c
  <2>1. k # k + 1
    OBVIOUS
  <2> QED
    BY <1>6, <1>10, <1>11, <2>1, OrderOnce
<1>16. k \in 1..Len(u) /\ Order(u)[k] = p
  <2>1. Len(u) \in Nat
    BY <1>9, RankedRows
  <2>2. k \in 1..Len(u) /\ k \in 1..k
    BY <1>10, <1>14, <2>1
  <2> QED
    BY <1>11, <1>14, <2>2 DEF JoinsAt
<1>17. uh[p].text = shown[p].text \o shown[c].text
  <2>1. uh[p] = html
    BY <1>6, <1>15
  <2>2. html.text = shown[p].text \o shown[c].text
    BY <1>3, MergedIsText, Zenon
  <2> QED
    BY <2>1, <2>2, Zenon
<1>18. Rejoins(u, uh, kept, shown, k, p, c)
  <2>1. \A x \in Ids(u) : x # p => shown[x] = uh[x]
    BY <1>6, <1>9
  <2> QED
    BY <1>14, <1>16, <1>17, <2>1, Zenon DEF Rejoins
<1>19. FlattenSeq(TextsOf(u, uh)) = FlattenSeq(TextsOf(kept, shown))
  <2>1. OnceEach(u) /\ AreTexts(uh) /\ AreTexts(shown) /\ Ids(u) \subseteq Block /\ Ids(kept) \subseteq Block
    BY <1>6, <1>7, <1>9 DEF Screen
  <2> QED
    BY <1>6, <1>9, <1>18, <2>1, RejoinedReads
<1>20. TextsOf(kept, shown) = TextsOf(store, shown)
  BY <1>8, KeptReads
<1> QED
  BY <1>4, <1>5, <1>19, <1>20, ReadingIs

RestructuresText ==
  \/ Reading' = Reading
  \/ misread \/ refused \/ Tied \/ uncut'
  \/ ~Restructure

LEMMA RestructuringStep ==
  ASSUME EditorInv, CalmInv, LegibleInv
  PROVE  RestructuresText
<1> SUFFICES ASSUME ~misread, ~refused, ~Tied, ~uncut', Restructure
             PROVE  Reading' = Reading
  BY DEF RestructuresText
<1>0. \A b, k : ~ModEnter(b, k)
  BY DEF ModEnter
<1>u. ~uncut
  BY RestructureMarks
<1>1. Orderly /\ Legible
  BY <1>u, CleanIsOrderly DEF LegibleInv
<1>2. CASE \E b \in Block, k \in 0..typed : Enter(b, k)
  BY <1>1, <1>2, EnterReads
<1>3. CASE \E b \in Block : InsertBlockAfter(b)
  BY <1>1, <1>3, InsertionReads
<1>4. CASE \E i \in DOMAIN store : Backspace(i) \/ ForwardDelete(i)
  <2>1. PICK k \in 1..Len(store) - 1 : /\ Order(store)[k] \in Ids(store) /\ Order(store)[k + 1] \in Ids(store)
                                       /\ MergeBlocks(Order(store)[k], Order(store)[k + 1])
    BY <1>4, BackspaceMerges
  <2>2. PICK p : p = Order(store)[k]
    OBVIOUS
  <2>3. PICK c : c = Order(store)[k + 1]
    OBVIOUS
  <2> QED
    BY <1>1, <2>1, <2>2, <2>3, MergeReads
<1> QED
  BY <1>0, <1>2, <1>3, <1>4 DEF Restructure

\* Enter, a new block, Backspace and Delete move text from block to block
\* (BlockEditor.tsx, blockStore.ts): the page reads after them as it did before,
\* whatever is under way, while no request was refused, no listing went astray,
\* no two blocks share an index, and Mod-Enter divided none of them: that leaves
\* the whole of the block in its editor (BlockNavigationExtension.ts 192-204).
\* The editors show the store, so that a merge, which reads the store, takes
\* what is on the screen (LegibleInv); and the index after a block's puts the
\* new one right behind it in the order.
THEOREM RestructuringKeepsText == EditorSpec => RestructuringKeepsTheText
<1>1. EditorInv /\ [EditorNext]_editorVars => EditorInv'
  BY StepKeeps
<1>2. EditorInv /\ CalmInv /\ [EditorNext]_editorVars => CalmInv'
  BY CalmStep
<1>3. EditorInv /\ EditorInv' /\ CalmInv /\ LegibleInv /\ [EditorNext]_editorVars => LegibleInv'
  BY LegibleStep
<1>4. EditorInit => EditorInv /\ CalmInv /\ LegibleInv
  BY InitKeeps, CalmInit, LegibleInit
<1>5. EditorInv /\ CalmInv /\ LegibleInv => [RestructuresText]_editorVars
  BY RestructuringStep
<1>6. RestructuringKeepsTheText <=> [][RestructuresText]_editorVars
  BY DEF RestructuringKeepsTheText, RestructuresText
<1> QED
  BY <1>1, <1>2, <1>3, <1>4, <1>5, <1>6, PTL DEF EditorSpec

-----------------------------------------------------------------------------
(* The store has every block once, whatever Mod-Enter left in an editor.   *)

ListOnce(F) == \A q \in F : OnceEach(q.rows)
Unique == OnceEach(store) /\ ListOnce(ToSet(flight)) /\ ListOnce(ToSet(held))
UniqueInv == misread \/ refused \/ Unique

LEMMA UniqueInit == EditorInit => UniqueInv
<1> SUFFICES ASSUME EditorInit PROVE Unique
  BY DEF UniqueInv
<1>1. Legible
  BY LegibleInit DEF LegibleInv, EditorInit
<1> QED
  BY <1>1 DEF Unique, ListOnce, Legible, Screen, OnTheWire, Spells, Spelled

\* Requests are sent without rows.
LEMMA OneKeepsUnique ==
  ASSUME EditorInv, Unique, OnceEach(store'), NEW r, r.rows = <<>>, Send(<<r>>)
  PROVE  Unique'
<1> DEFINE R == <<r>>
<1>1. IsSeq(R) /\ Send(R) /\ \A p \in DOMAIN R : R[p].rows = <<>>
  BY OneIs
<1> HIDE DEF R
<1> QED
  BY <1>1, SendAdds, NoTextIs DEF Unique, ListOnce

LEMMA TwoKeepUnique ==
  ASSUME EditorInv, Unique, OnceEach(store'), NEW q, q.rows = <<>>, NEW r, r.rows = <<>>, Send(<<q, r>>)
  PROVE  Unique'
<1> DEFINE R == <<q, r>>
<1>1. IsSeq(R) /\ Send(R) /\ \A p \in DOMAIN R : R[p].rows = <<>>
  BY TwoAre
<1> HIDE DEF R
<1> QED
  BY <1>1, SendAdds, NoTextIs DEF Unique, ListOnce

LEMMA PutKeepsUnique ==
  ASSUME EditorInv, Unique, NEW b, NEW html, NEW type, store' = Put(store, b, html, type),
         UNCHANGED <<flight, held>> \/ \E t : Send(<<Update(b, html, t)>>)
  PROVE  Unique'
<1>1. OnceEach(store')
  BY PutOnce DEF EditorInv, Unique
<1>2. CASE UNCHANGED <<flight, held>>
  BY <1>1, <1>2 DEF Unique
<1>3. CASE \E t : Send(<<Update(b, html, t)>>)
  BY <1>1, <1>3, RowsOfRequests, OneKeepsUnique
<1> QED
  BY <1>2, <1>3

LEMMA TypingKeepsUnique ==
  ASSUME EditorInv, Unique, NEW b, Type(b) \/ MakeList(b) \/ LeaveList(b) \/ TimerFires(b)
  PROVE  Unique'
<1>1. CASE Type(b) \/ MakeList(b)
  <2>1. PICK html : Edit(b, html)
    BY <1>1 DEF Type, MakeList
  <2> QED
    BY <2>1, PutKeepsUnique DEF Edit, SetLocalContent
<1>2. CASE LeaveList(b)
  BY <1>2, PutKeepsUnique DEF LeaveList
<1>3. CASE TimerFires(b)
  <2>1. CASE SaveNeeded(b)
    BY <1>3, <2>1, PutKeepsUnique DEF TimerFires, SetLocalContent
  <2>2. CASE ~SaveNeeded(b)
    BY <1>3, <2>2 DEF TimerFires, Unique
  <2> QED
    BY <2>1, <2>2
<1> QED
  BY <1>1, <1>2, <1>3

LEMMA CreationKeepsUnique ==
  ASSUME EditorInv, Orderly, Unique, NEW b, InsertBlockAfter(b) \/ DuplicateBlock(b)
  PROVE  Unique'
<1>1. PICK row, focus : IsRow(row) /\ row.id = made + 1 /\ CreateLocally(row, focus)
  BY InsertCreates, DuplicateCreates
<1>2. store' = Append(Opened(store, row.index), row) /\ Send(<<Create(row)>>)
  BY <1>1 DEF CreateLocally, ShowFrom
<1>3. OnceEach(store')
  BY <1>1, <1>2, NewIsNew, InsertOnce DEF EditorInv, Unique
<1> QED
  BY <1>2, <1>3, RowsOfRequests, OneKeepsUnique DEF Create

LEMMA SplitKeepsUnique ==
  ASSUME EditorInv, Orderly, Unique, NEW b, NEW k, Enter(b, k) \/ ModEnter(b, k)
  PROVE  Unique'
<1>1. PICK before, after, type, display : b \in Ids(store) /\ SplitBlock(b, before, after, type, display)
  BY EnterDivides
<1>2. PICK row : row = StoreRow(made + 1, after, TypeOf(after), RowIn(store, b).index + 1)
  OBVIOUS
<1>3. PICK kept : kept = Put(store, b, before, IF type = Keep THEN RowIn(store, b).type ELSE type)
  OBVIOUS
<1>4. store' = Append(Opened(kept, row.index), row) /\ Send(<<Create(row), Update(b, before, type)>>)
  BY <1>1, <1>2, <1>3 DEF SplitBlock, Fresh, ShowFrom
<1>5. RowIn(store, b).index + 1 \in Int
  BY <1>1, RowInIs DEF EditorInv, IsRow
<1>6. IsRow(row) /\ row.id = made + 1
  BY <1>2, <1>5, StoreRowIs
<1>7. IsRows(kept) /\ Ids(kept) = Ids(store) /\ OnceEach(kept)
  BY <1>3, PutIs, PutOnce DEF EditorInv, Unique
<1>8. OnceEach(store')
  BY <1>4, <1>6, <1>7, NewIsNew, InsertOnce
<1> QED
  BY <1>4, <1>8, RowsOfRequests, TwoKeepUnique DEF Create

LEMMA MergeKeepsUnique ==
  ASSUME EditorInv, Unique, NEW p, NEW c, MergeBlocks(p, c)
  PROVE  Unique'
<1>1. PICK html : html = Merged(RowIn(store, p), RowIn(store, c))
  OBVIOUS
<1>2. PICK kept : kept = Put(store, p, html, RowIn(store, p).type)
  OBVIOUS
<1>3. store' = Drop(kept, c) /\ Send(<<Update(p, html, Keep), Delete(c)>>)
  BY <1>1, <1>2 DEF MergeBlocks, ShowFrom
<1>4. OnceEach(store')
  BY <1>2, <1>3, PutIs, PutOnce, DropOnce DEF EditorInv, Unique
<1> QED
  BY <1>3, <1>4, RowsOfRequests, TwoKeepUnique

LEMMA RemovalKeepsUnique ==
  ASSUME EditorInv, Unique, NEW b, RemoveBlock(b) \/ MoveBlock(b)
  PROVE  Unique'
<1>1. CASE RemoveBlock(b)
  <2>1. store' = Drop(store, b) /\ Send(<<Delete(b)>>)
    BY <1>1 DEF RemoveBlock, Show, ShowFrom
  <2>2. OnceEach(store')
    BY <2>1, DropOnce DEF EditorInv, Unique
  <2> QED
    BY <2>1, <2>2, RowsOfRequests, OneKeepsUnique
<1>2. CASE MoveBlock(b)
  <2>1. PICK ids : Send(<<Reorder(ids)>>) /\ store' = store
    BY <1>2 DEF MoveBlock
  <2> QED
    BY <2>1, RowsOfRequests, OneKeepsUnique DEF Unique
<1> QED
  BY <1>1, <1>2

LEMMA UndoKeepsUnique ==
  ASSUME EditorInv, Unique, Undo \/ Redo
  PROVE  Unique'
<1>1. PICK way, op : Apply(way, op) /\ IsOp(op)
  BY LastIs DEF Undo, Redo, EditorInv, HistoryInv
<1>2. PICK again : again = [op.row EXCEPT !.id = Fresh]
  OBVIOUS
<1>3. IsRow(again)
  <2>1. again = [id |-> Fresh, html |-> op.row.html, type |-> op.row.type, index |-> op.row.index]
    BY <1>1, <1>2 DEF IsOp, IsRow
  <2> QED
    BY <1>1, <2>1 DEF IsOp, IsRow
<1>4. \/ UNCHANGED <<store, flight, held>>
      \/ \E r : /\ IsRequest(r) /\ r.rows = <<>> /\ Send(<<[r EXCEPT !.by = way]>>)
                /\ store' = store \/ \E b : store' = Drop(store, b)
  <2>1. \/ op.row.id \in Ids(store) /\ Send(<<[Delete(op.row.id) EXCEPT !.by = way]>>) /\ store' = Drop(store, op.row.id)
        \/ UNCHANGED <<store, flight, held>>
        \/ Send(<<[Request("recreate", again) EXCEPT !.by = way]>>) /\ store' = store
        \/ Send(<<[Reorder(op.ids) EXCEPT !.by = way]>>) /\ store' = store
    BY <1>1, <1>2 DEF Apply, Revert, Show, ShowFrom
  <2>2. IsRequest(Request("recreate", again)) /\ IsRequest(Reorder(op.ids))
    BY <1>1, <1>3, RequestIs, ReorderIs DEF IsOp, EditorInv
  <2>3. op.row.id \in Ids(store) => IsRequest(Delete(op.row.id))
    BY DeleteIs DEF EditorInv
  <2> QED
    BY <2>1, <2>2, <2>3, RowsOfRequests
<1>5. CASE UNCHANGED <<store, flight, held>>
  BY <1>5 DEF Unique
<1>6. ASSUME NEW r, IsRequest(r), r.rows = <<>>, Send(<<[r EXCEPT !.by = way]>>),
             store' = store \/ \E b : store' = Drop(store, b)
      PROVE  Unique'
  <2>1. PICK s : s = [r EXCEPT !.by = way]
    OBVIOUS
  <2>2. s.rows = <<>> /\ Send(<<s>>)
    BY <1>6, <2>1 DEF IsRequest
  <2>3. OnceEach(store')
    BY <1>6, DropOnce DEF EditorInv, Unique
  <2> QED
    BY <2>2, <2>3, OneKeepsUnique
<1> QED
  BY <1>4, <1>5, <1>6

LEMMA ReplyKeepsUnique ==
  ASSUME EditorInv, Orderly, Unique, NEW i \in DOMAIN flight, Reply(i), ~misread'
  PROVE  Unique'
<1>1. CASE Recreated(i)
  <2>1. PICK q : q = Request("relist", NoRow)
    OBVIOUS
  <2>2. PICK r : r = [q EXCEPT !.by = flight[i].by]
    OBVIOUS
  <2>3. IsRequest(q) /\ q.rows = <<>>
    BY <2>1, NoRowIs, RequestIs, RowsOfRequests
  <2>4. r.rows = <<>> /\ r = Relisting(i)
    BY <2>1, <2>2, <2>3 DEF IsRequest, Relisting
  <2>5. UNCHANGED store
    BY <1>1 DEF Recreated
  <2> QED
    BY <1>1, <2>4, <2>5, RecreatedAdds, NoTextIs DEF Unique, ListOnce
<1>2. CASE ~Recreated(i)
  <2>1. Created(i) \/ UpdateFailed(i) \/ Deleted(i) \/ ReorderAnswered(i) \/ Relisted(i)
    BY <1>2, NoneFailed DEF Reply
  <2>2. Settled(i) \/ Released(i)
    BY <2>1 DEF Created, UpdateFailed, Deleted, ReorderAnswered, Relisted
  <2>3. store' = store \/ store' = flight[i].rows
    BY <2>1, RollsNothingBack
       DEF Created, UpdateFailed, Deleted, ReorderAnswered, Relisted, Adopt, Show, ShowFrom
  <2>4. flight[i] \in ToSet(flight)
    BY DEF ToSet
  <2>5. OnceEach(store')
    BY <2>3, <2>4 DEF Unique, ListOnce
  <2> QED
    BY <2>2, <2>5, SettledLeaves DEF Unique, ListOnce
<1> QED
  BY <1>1, <1>2

LEMMA UniqueStep ==
  ASSUME EditorInv, EditorInv', CalmInv, UniqueInv, [EditorNext]_editorVars
  PROVE  UniqueInv'
<1> SUFFICES ASSUME ~misread', ~refused' PROVE Unique'
  BY DEF UniqueInv
<1>c. Unique /\ Orderly
  BY SteadyBefore, CleanIsOrderly DEF UniqueInv
<1>1. CASE Blur \/ (\E b : Click(b)) \/ UNCHANGED editorVars
  BY <1>c, <1>1 DEF Blur, Click, editorVars, Unique
<1>2. ASSUME NEW b, Type(b) \/ MakeList(b) \/ LeaveList(b) \/ TimerFires(b)
      PROVE  Unique'
  BY <1>c, <1>2, TypingKeepsUnique
<1>3. ASSUME NEW b, DuplicateBlock(b) \/ RemoveBlock(b) \/ MoveBlock(b)
      PROVE  Unique'
  BY <1>c, <1>3, CreationKeepsUnique, RemovalKeepsUnique
<1>4. CASE Restructure
  <2>1. CASE \E i \in DOMAIN store : Backspace(i) \/ ForwardDelete(i)
    BY <1>c, <2>1, BackspaceMerges, MergeKeepsUnique
  <2>2. CASE ~\E i \in DOMAIN store : Backspace(i) \/ ForwardDelete(i)
    BY <1>c, <1>4, <2>2, SplitKeepsUnique, CreationKeepsUnique DEF Restructure
  <2> QED
    BY <2>1, <2>2
<1>5. ASSUME NEW i \in DOMAIN flight, Serve(i) \/ Refuse(i) \/ Reply(i)
      PROVE  Unique'
  <2>1. CASE Serve(i)
    <3>1. UNCHANGED <<store, held>>
      BY <2>1 DEF Serve
    <3> QED
      BY <1>c, <2>1, <3>1, ServedAre DEF Unique, ListOnce
  <2>2. CASE Refuse(i)
    BY <2>2 DEF Refuse
  <2>3. CASE Reply(i)
    BY <1>c, <2>3, ReplyKeepsUnique
  <2> QED
    BY <1>5, <2>1, <2>2, <2>3
<1>6. CASE Undo \/ Redo
  BY <1>c, <1>6, UndoKeepsUnique
<1> QED
  BY <1>1, <1>2, <1>3, <1>4, <1>5, <1>6 DEF EditorNext, Saving

-----------------------------------------------------------------------------
(* The undo stack leads back.                                              *)
(*                                                                         *)
(* Deeds are the entries of the stack and those that requests under way    *)
(* will put there.  An answer turns one of the latter into one of the      *)
(* former, and so changes no deed.                                         *)

EntryOf(q) == IF q.kind = "reorder" THEN Op("reorder", NoRow, q.prev) ELSE Op(q.kind, q.row, <<>>)
EntriesOf(F) == {EntryOf(q) : q \in {r \in F : Enters(r)}}
Deeds == ToSet(past) \union EntriesOf(ToSet(flight)) \union EntriesOf(ToSet(held))

Makes(E, b) == \E e \in E : e.kind = "create" /\ e.row.id = b
Took(E, row) == \E e \in E : e.kind = "delete" /\ e.row = row

\* The blocks 1..n, that the page was loaded with: ids has them in their order.
Ascending(ids, n) ==
  /\ \A b \in 1..n : \E k \in DOMAIN ids : ids[k] = b
  /\ \A k, l \in DOMAIN ids : ids[k] \in 1..n /\ ids[l] \in 1..n /\ k < l => ids[k] < ids[l]
\* So have the indexes of s.
Climbing(s, n) ==
  \A i, j \in DOMAIN s : s[i].id \in 1..n /\ s[j].id \in 1..n /\ s[i].id < s[j].id
                           => s[i].index < s[j].index
\* There they leave room for row.
FitsBack(row, s, n) ==
  row.id \in 1..n => \A i \in DOMAIN s : s[i].id \in 1..n =>
                       /\ s[i].id < row.id => s[i].index < row.index
                       /\ row.id < s[i].id => row.index <= s[i].index

\* Every block is one of the first or was made by a deed, and none is missing
\* that no deed took.
Everyone(E, ids, n) ==
  /\ \A b \in 1..n : b \in ids \/ \E row : Took(E, row) /\ row.id = b
  /\ \A b \in ids : b \in 1..n \/ Makes(E, b)
  /\ \A b : Makes(E, b) => b \notin 1..n
  /\ \A row : Took(E, row) => row.id \notin ids /\ (row.id \in 1..n \/ Makes(E, row.id))
Unshuffled(E, s, n) ==
  /\ Climbing(s, n)
  /\ \A row : Took(E, row) => FitsBack(row, s, n)
  /\ \A e \in E : e.kind = "reorder" => Ascending(e.ids, n)
Shuffled(p) == \E k \in DOMAIN p : p[k].kind = "reorder"
FirstMove(p, k) == p[k].kind = "reorder" /\ \A l \in DOMAIN p : l < k => p[l].kind # "reorder"

LedBy(E, s, p, n) ==
  /\ Everyone(E, Ids(s), n)
  /\ ~Shuffled(p) => Unshuffled(E, s, n)
  /\ \A k \in DOMAIN p : FirstMove(p, k) => Ascending(p[k].ids, n)
Awaited(F, s, p, inverse, n) ==
  \A q \in F : /\ q.by = "undo" /\ q.kind = "delete" => Last(p).row.id \notin Ids(s)
               /\ q.by = "redo" /\ ~Shuffled(p) => Ascending(inverse.ids, n)
Led ==
  /\ LedBy(Deeds, store, past, opening)
  /\ Awaited(ToSet(flight), store, past, applying.inverse, opening)

\* A deletion was followed by something else, or an undo meets a gesture: the
\* stack will not be one that PastLeadsBack speaks of.
Buried(p, more) == \E n \in DOMAIN p : p[n].kind = "delete" /\ (n < Len(p) \/ more)
Takes(q) == Enters(q) /\ (q.kind = "delete" \/ (q.kind = "create" /\ HeldDelete(q.row.id)))
Precedes(f) == \E i, j \in DOMAIN f : i < j /\ Takes(f[i]) /\ Enters(f[j])
Lost ==
  \/ Buried(past, \/ future # <<>> \/ applying # Idle
                  \/ \E j \in DOMAIN flight : Enters(flight[j]))
  \/ UndoMeetsGesture
  \/ Precedes(flight)

\* A listing that was answered has the rows where q put them.
Places(q) ==
  q.state = "done" =>
    \A k \in DOMAIN q.rows : \A m \in DOMAIN q.ids : q.ids[m] = q.rows[k].id =>
      q.rows[k].index = (CHOOSE i \in DOMAIN q.ids : q.ids[i] = q.rows[k].id) - 1
\* The request of the undo in progress.
UndoOf(q) ==
  \/ /\ q.by = "undo" /\ past # <<>> /\ applying.inverse.kind # "create"
     /\ \/ q.kind = "delete" /\ Last(past).kind = "create"
        \/ /\ q.kind = "reorder" /\ Last(past).kind = "reorder"
           /\ q.ids = Last(past).ids /\ Places(q)
  \/ q.by = "redo" /\ q.kind = "reorder" /\ applying.inverse.kind = "reorder"
Regular(q) ==
  /\ ~Brings(q)
  /\ q.kind = "create" => q.by = "user"
  /\ q.kind = "reorder" => q.state # "refused"
  /\ Undoes(q) => UndoOf(q)
Straight ==
  /\ opening \in Nat /\ opening <= made
  /\ \A q \in ToSet(flight) : Regular(q)
  /\ \A q \in ToSet(held) : ~Undoes(q)
  /\ \A k \in DOMAIN past : past[k].kind \in Recorded
  /\ \A k \in DOMAIN future : future[k].kind # "create"
  /\ Waits(ToSet(flight), ToSet(held))

Sure == ~misread /\ ~refused /\ ~overtaken /\ ~tangled
LeadsInv == Sure => Straight /\ (Lost \/ Led)

-----------------------------------------------------------------------------
(* Requests come and go, and keep their order.                             *)

Alike(r, q) == r.kind = q.kind /\ r.row = q.row /\ r.by = q.by /\ r.prev = q.prev

LEMMA AlikeEnters ==
  ASSUME NEW r, NEW q, Alike(r, q)
  PROVE  EntryOf(r) = EntryOf(q) /\ (Enters(r) <=> Enters(q))
  BY DEF Alike, EntryOf, Enters

\* g has the gestures' requests of f, but for the one at x, in the order of f.
Retains(g, f, x) ==
  \E e : /\ \A i \in DOMAIN f : Enters(f[i]) /\ i # x => e[i] \in DOMAIN g /\ Alike(g[e[i]], f[i])
         /\ \A i, j \in DOMAIN f : Enters(f[i]) /\ Enters(f[j]) /\ i # x /\ j # x /\ i < j => e[i] < e[j]

LEMMA RetainsSame ==
  ASSUME NEW f, NEW g, DOMAIN f \subseteq DOMAIN g,
         \A i \in DOMAIN f : Enters(f[i]) => Alike(g[i], f[i]), NEW x
  PROVE  Retains(g, f, x)
<1> DEFINE e == [i \in DOMAIN f |-> i]
<1>1. \A i \in DOMAIN f : e[i] = i
  OBVIOUS
<1> HIDE DEF e
<1> QED
  BY <1>1 DEF Retains

LEMMA RetainsCat ==
  ASSUME NEW f, IsSeq(f), NEW A, IsSeq(A), NEW x
  PROVE  Retains(f \o A, f, x)
<1>1. PICK g : g = f \o A
  OBVIOUS
<1>2. Len(f) \in Nat /\ DOMAIN f = 1..Len(f) /\ Len(A) \in Nat
  BY IsSeqDomain
<1>3. IsSeq(g) /\ Len(g) = Len(f) + Len(A) /\ \A i \in 1..Len(f) + Len(A) : g[i] = IF i <= Len(f) THEN f[i] ELSE A[i - Len(f)]
  BY <1>1, CatIs
<1>4. DOMAIN g = 1..Len(f) + Len(A)
  BY <1>3, IsSeqDomain
<1>5. DOMAIN f \subseteq DOMAIN g /\ \A i \in DOMAIN f : g[i] = f[i]
  BY <1>2, <1>3, <1>4
<1>6. \A i \in DOMAIN f : Alike(g[i], f[i])
  BY <1>5 DEF Alike
<1>7. Retains(g, f, x)
  BY <1>5, <1>6, RetainsSame
<1> QED
  BY <1>1, <1>7

LEMMA RetainsRest ==
  ASSUME NEW f, IsSeq(f), NEW x \in DOMAIN f
  PROVE  Retains(RemoveAt(f, x), f, x)
<1> DEFINE e == [i \in DOMAIN f |-> IF i < x THEN i ELSE i - 1]
<1>0. PICK g : g = RemoveAt(f, x)
  OBVIOUS
<1>1. Len(f) \in Nat /\ DOMAIN f = 1..Len(f) /\ x \in 1..Len(f)
  BY IsSeqDomain
<1>2. IsSeq(g) /\ Len(g) = Len(f) - 1 /\ \A j \in 1..Len(f) - 1 : g[j] = IF j < x THEN f[j] ELSE f[j + 1]
  BY <1>0, <1>1, RemoveAtIs, Zenon
<1>3. DOMAIN g = 1..Len(f) - 1
  BY <1>2, IsSeqDomain
<1>4. ASSUME NEW i \in DOMAIN f, i # x
      PROVE  e[i] \in DOMAIN g /\ g[e[i]] = f[i]
  BY <1>1, <1>2, <1>3, <1>4
<1>5. ASSUME NEW i \in DOMAIN f, NEW j \in DOMAIN f, i # x, j # x, i < j
      PROVE  e[i] < e[j]
  BY <1>1, <1>5
<1> HIDE DEF e
<1>6. \A i \in DOMAIN f : i # x => e[i] \in DOMAIN g /\ Alike(g[e[i]], f[i])
  BY <1>4 DEF Alike
<1>7. Retains(g, f, x)
  BY <1>5, <1>6 DEF Retains
<1> QED
  BY <1>0, <1>7

\* None of the gestures' was at x.
LEMMA RetainsAll ==
  ASSUME NEW f, NEW g, NEW x, Retains(g, f, x), ~Enters(f[x]), NEW y
  PROVE  Retains(g, f, y)
<1>1. PICK e : /\ \A i \in DOMAIN f : Enters(f[i]) /\ i # x => e[i] \in DOMAIN g /\ Alike(g[e[i]], f[i])
               /\ \A i, j \in DOMAIN f : Enters(f[i]) /\ Enters(f[j]) /\ i # x /\ j # x /\ i < j => e[i] < e[j]
  BY DEF Retains
<1>2. /\ \A i \in DOMAIN f : Enters(f[i]) /\ i # y => e[i] \in DOMAIN g /\ Alike(g[e[i]], f[i])
      /\ \A i, j \in DOMAIN f : Enters(f[i]) /\ Enters(f[j]) /\ i # y /\ j # y /\ i < j => e[i] < e[j]
  BY <1>1
<1> QED
  BY <1>2 DEF Retains

LEMMA RetainsTwice ==
  ASSUME NEW f, NEW g, NEW h, NEW x, Retains(g, f, x), \A y : Retains(h, g, y), DOMAIN g \subseteq Nat
  PROVE  Retains(h, f, x)
<1>1. PICK e : /\ \A i \in DOMAIN f : Enters(f[i]) /\ i # x => e[i] \in DOMAIN g /\ Alike(g[e[i]], f[i])
               /\ \A i, j \in DOMAIN f : Enters(f[i]) /\ Enters(f[j]) /\ i # x /\ j # x /\ i < j => e[i] < e[j]
  BY DEF Retains
<1>2. Retains(h, g, 0 - 1)
  OBVIOUS
<1>3. PICK d : /\ \A i \in DOMAIN g : Enters(g[i]) /\ i # 0 - 1 => d[i] \in DOMAIN h /\ Alike(h[d[i]], g[i])
               /\ \A i, j \in DOMAIN g : Enters(g[i]) /\ Enters(g[j]) /\ i # 0 - 1 /\ j # 0 - 1 /\ i < j => d[i] < d[j]
  BY <1>2 DEF Retains
<1> DEFINE c == [i \in DOMAIN f |-> d[e[i]]]
<1>4. ASSUME NEW i \in DOMAIN f, Enters(f[i]), i # x
      PROVE  /\ e[i] \in DOMAIN g /\ e[i] # 0 - 1 /\ Enters(g[e[i]])
             /\ c[i] \in DOMAIN h /\ Alike(h[c[i]], f[i])
  <2>1. e[i] \in DOMAIN g /\ Alike(g[e[i]], f[i])
    BY <1>1, <1>4
  <2>2. Enters(g[e[i]]) /\ e[i] # 0 - 1
    BY <1>4, <2>1, AlikeEnters
  <2>3. d[e[i]] \in DOMAIN h /\ Alike(h[d[e[i]]], g[e[i]])
    BY <1>3, <2>1, <2>2
  <2> QED
    BY <2>1, <2>2, <2>3 DEF Alike
<1>5. ASSUME NEW i \in DOMAIN f, NEW j \in DOMAIN f, Enters(f[i]), Enters(f[j]), i # x, j # x, i < j
      PROVE  c[i] < c[j]
  <2>1. e[i] < e[j]
    BY <1>1, <1>5
  <2>2. e[i] \in DOMAIN g /\ e[j] \in DOMAIN g /\ e[i] # 0 - 1 /\ e[j] # 0 - 1 /\ Enters(g[e[i]]) /\ Enters(g[e[j]])
    BY <1>4, <1>5
  <2> QED
    BY <1>3, <2>1, <2>2
<1> HIDE DEF c
<1> QED
  BY <1>4, <1>5 DEF Retains

\* Another than the one at x is there still.
LEMMA OthersRetained ==
  ASSUME NEW f, NEW g, NEW x, Retains(g, f, x), NEW j \in DOMAIN f, Enters(f[j]), j # x
  PROVE  \E k \in DOMAIN g : Enters(g[k]) /\ Alike(g[k], f[j])
  BY AlikeEnters DEF Retains

HeldStill(x) ==
  \A i \in DOMAIN flight : i # x /\ flight[i].kind = "create" =>
    \A b : b = flight[i].row.id /\ HeldDelete(b) => HeldDelete(b)'

LEMMA PrecedesStill ==
  ASSUME NEW i \in DOMAIN flight, NEW j \in DOMAIN flight, i < j, Takes(flight[i]), Enters(flight[j]),
         NEW x, i # x, j # x, Retains(flight', flight, x), HeldStill(x)
  PROVE  Precedes(flight)'
<1>1. PICK g : g = flight'
  OBVIOUS
<1>2. Retains(g, flight, x)
  BY <1>1
<1>3. PICK e : /\ \A k \in DOMAIN flight : Enters(flight[k]) /\ k # x => e[k] \in DOMAIN g /\ Alike(g[e[k]], flight[k])
               /\ \A k, l \in DOMAIN flight : Enters(flight[k]) /\ Enters(flight[l]) /\ k # x /\ l # x /\ k < l => e[k] < e[l]
  BY <1>2 DEF Retains
<1>4. Enters(flight[i])
  BY DEF Takes
<1>5. /\ e[i] \in DOMAIN g /\ Alike(g[e[i]], flight[i])
      /\ e[j] \in DOMAIN g /\ Alike(g[e[j]], flight[j]) /\ e[i] < e[j]
  BY <1>3, <1>4
<1>6. Enters(g[e[i]]) /\ Enters(g[e[j]])
  BY <1>4, <1>5, AlikeEnters
<1>7. PICK b : b = flight[i].row.id
  OBVIOUS
<1>8. g[e[i]].row.id = b /\ g[e[i]].kind = flight[i].kind
  BY <1>5, <1>7 DEF Alike
<1>9. g[e[i]].kind = "delete" \/ (g[e[i]].kind = "create" /\ HeldDelete(b)')
  BY <1>4, <1>7, <1>8 DEF Takes, HeldStill
<1>10. PICK k : k = e[i]
  OBVIOUS
<1>11. PICK l : l = e[j]
  OBVIOUS
<1>12. k \in DOMAIN flight' /\ l \in DOMAIN flight' /\ k < l /\ Enters(flight'[k]) /\ Enters(flight'[l])
  BY <1>1, <1>5, <1>6, <1>10, <1>11
<1>13. flight'[k].row.id = b /\ (flight'[k].kind = "delete" \/ (flight'[k].kind = "create" /\ HeldDelete(b)'))
  BY <1>1, <1>8, <1>9, <1>10
<1>14. (\E m \in DOMAIN flight : Takes(flight[m]) /\ m = k)'
  BY <1>12, <1>13 DEF Takes
<1> QED
  BY <1>12, <1>14 DEF Precedes

LEMMA LostStill ==
  ASSUME Lost, Retains(flight', flight, 0), HeldStill(0), UNCHANGED history, DOMAIN flight \subseteq Nat \ {0}
  PROVE  Lost'
<1>1. past' = past /\ future' = future /\ applying' = applying
  BY DEF history
<1>2. ASSUME NEW j \in DOMAIN flight, Enters(flight[j])
      PROVE  (\E k \in DOMAIN flight : Enters(flight[k]))'
  <2>1. PICK g : g = flight'
    OBVIOUS
  <2>2. \E k \in DOMAIN g : Enters(g[k])
    BY <1>2, <2>1, OthersRetained
  <2> QED
    BY <2>1, <2>2
<1>3. CASE Buried(past, \/ future # <<>> \/ applying # Idle \/ \E j \in DOMAIN flight : Enters(flight[j]))
  BY <1>1, <1>2, <1>3 DEF Lost, Buried
<1>4. CASE UndoMeetsGesture
  BY <1>1, <1>2, <1>4 DEF Lost, UndoMeetsGesture
<1>5. CASE Precedes(flight)
  <2>1. PICK i \in DOMAIN flight, j \in DOMAIN flight : i < j /\ Takes(flight[i]) /\ Enters(flight[j])
    BY <1>5 DEF Precedes
  <2>2. i # 0 /\ j # 0
    OBVIOUS
  <2> QED
    BY <2>1, <2>2, PrecedesStill DEF Lost
<1> QED
  BY <1>3, <1>4, <1>5 DEF Lost

-----------------------------------------------------------------------------
(* What a gesture sends.                                                   *)

LEMMA EntriesJoin ==
  ASSUME NEW F, NEW G
  PROVE  EntriesOf(F \union G) = EntriesOf(F) \union EntriesOf(G)
  BY DEF EntriesOf

LEMMA EntriesSame ==
  ASSUME NEW F, NEW G, \A q \in F : Enters(q) => \E r \in G : Alike(r, q),
         \A r \in G : Enters(r) => \E q \in F : Alike(r, q)
  PROVE  EntriesOf(F) = EntriesOf(G)
<1>1. \A q \in F, r \in G : Alike(r, q) => EntryOf(r) = EntryOf(q) /\ (Enters(r) <=> Enters(q))
  BY AlikeEnters
<1> QED
  BY <1>1 DEF EntriesOf

\* R goes out: some of it, A, to the wire, and the rest of it, B, waits.
SendsAs(R, A, B) ==
  /\ IsSeq(flight) /\ IsSeq(held) /\ IsSeq(A) /\ IsSeq(B)
  /\ flight' = flight \o A /\ held' = held \o B
  /\ ToSet(flight') = ToSet(flight) \union ToSet(A) /\ ToSet(held') = ToSet(held) \union ToSet(B)
  /\ ToSet(R) = ToSet(A) \union ToSet(B)
  /\ \A q \in ToSet(R) : ~Writes(q) => q \in ToSet(A)

LEMMA SentAs ==
  ASSUME EditorInv, NEW R, IsSeq(R), Send(R)
  PROVE  \E A, B : SendsAs(R, A, B)
<1>1. PICK W : W = {p \in DOMAIN R : AsksCreation(ToSet(flight), R[p])}
  OBVIOUS
<1>2. PICK O : O = DOMAIN R \ W
  OBVIOUS
<1>3. PICK A : A = Picked(R, O)
  OBVIOUS
<1>4. PICK B : B = Picked(R, W)
  OBVIOUS
<1>5. flight' = flight \o A /\ held' = held \o B
  BY <1>1, <1>2, <1>3, <1>4, SentWhere DEF Posts
<1>6. O \subseteq DOMAIN R /\ W \subseteq DOMAIN R /\ IsSeq(flight) /\ IsSeq(held)
  BY <1>1, <1>2 DEF EditorInv
<1>7. IsSeq(A) /\ ToSet(A) = {R[p] : p \in O} /\ IsSeq(B) /\ ToSet(B) = {R[p] : p \in W}
  BY <1>3, <1>4, <1>6, PickedIs, SetOfPicked, Zenon
<1>8. ToSet(flight \o A) = ToSet(flight) \union ToSet(A) /\ ToSet(held \o B) = ToSet(held) \union ToSet(B)
  BY <1>6, <1>7, SetOfCat
<1>9. ToSet(flight') = ToSet(flight) \union ToSet(A) /\ ToSet(held') = ToSet(held) \union ToSet(B)
  BY <1>5, <1>8
<1>10. ToSet(R) = ToSet(A) \union ToSet(B)
  BY <1>2, <1>6, <1>7 DEF ToSet
<1>11. \A q \in ToSet(R) : ~Writes(q) => q \in ToSet(A)
  BY <1>1, <1>2, <1>7 DEF ToSet, AsksCreation
<1> QED
  BY <1>5, <1>6, <1>7, <1>9, <1>10, <1>11 DEF SendsAs

LEMMA SentDeeds ==
  ASSUME EditorInv, NEW R, IsSeq(R), Send(R), past' = past
  PROVE  Deeds' = Deeds \union EntriesOf(ToSet(R))
<1>1. PICK A, B : SendsAs(R, A, B)
  BY SentAs
<1>2. PICK F : F = ToSet(flight')
  OBVIOUS
<1>3. PICK H : H = ToSet(held')
  OBVIOUS
<1>4. F = ToSet(flight) \union ToSet(A) /\ H = ToSet(held) \union ToSet(B) /\ ToSet(R) = ToSet(A) \union ToSet(B)
  BY <1>1, <1>2, <1>3 DEF SendsAs
<1>5. /\ EntriesOf(F) = EntriesOf(ToSet(flight)) \union EntriesOf(ToSet(A))
      /\ EntriesOf(H) = EntriesOf(ToSet(held)) \union EntriesOf(ToSet(B))
      /\ EntriesOf(ToSet(R)) = EntriesOf(ToSet(A)) \union EntriesOf(ToSet(B))
  BY <1>4, EntriesJoin
<1>6. Deeds' = ToSet(past) \union EntriesOf(F) \union EntriesOf(H)
  BY <1>2, <1>3 DEF Deeds
<1> QED
  BY <1>5, <1>6 DEF Deeds

LEMMA SentRetains ==
  ASSUME EditorInv, NEW R, IsSeq(R), Send(R)
  PROVE  (\A x : Retains(flight', flight, x)) /\ \A b : HeldDelete(b) => HeldDelete(b)'
<1>1. PICK A, B : SendsAs(R, A, B)
  BY SentAs
<1>2. \A x : Retains(flight \o A, flight, x)
  BY <1>1, RetainsCat DEF SendsAs
<1>3. PICK h : h = held \o B
  OBVIOUS
<1>4. Len(held) \in Nat /\ DOMAIN held = 1..Len(held) /\ Len(B) \in Nat
  BY <1>1, IsSeqDomain DEF SendsAs
<1>5. IsSeq(h) /\ Len(h) = Len(held) + Len(B)
      /\ \A j \in 1..Len(held) + Len(B) : h[j] = IF j <= Len(held) THEN held[j] ELSE B[j - Len(held)]
  BY <1>1, <1>3, CatIs DEF SendsAs
<1>6. DOMAIN h = 1..Len(held) + Len(B)
  BY <1>5, IsSeqDomain
<1>7. \A j \in DOMAIN held : j \in DOMAIN h /\ h[j] = held[j]
  BY <1>4, <1>5, <1>6
<1>8. held' = h
  BY <1>1, <1>3 DEF SendsAs
<1>9. \A b : HeldDelete(b) => HeldDelete(b)'
  BY <1>7, <1>8 DEF HeldDelete
<1> QED
  BY <1>1, <1>2, <1>9 DEF SendsAs

LEMMA SentLost ==
  ASSUME EditorInv, NEW R, IsSeq(R), Send(R), UNCHANGED history, Lost
  PROVE  Lost'
<1>1. Retains(flight', flight, 0) /\ HeldStill(0)
  BY SentRetains DEF HeldStill
<1>2. DOMAIN flight \subseteq Nat \ {0}
  BY IsSeqDomain DEF EditorInv
<1> QED
  BY <1>1, <1>2, LostStill

\* No deletion, and no undo, is followed by another gesture.
LEMMA EntersLast ==
  ASSUME EditorInv, Straight, NEW R, IsSeq(R), Send(R), UNCHANGED history,
         NEW q \in ToSet(R), Enters(q), ~Writes(q),
         (\E row : Took(Deeds, row)) \/ applying # Idle
  PROVE  Lost'
<1>1. PICK A, B : SendsAs(R, A, B)
  BY SentAs
<1>2. PICK f : f = flight'
  OBVIOUS
<1>3. PICK m \in DOMAIN A : A[m] = q
  BY <1>1 DEF SendsAs, ToSet
<1>4. Len(flight) \in Nat /\ DOMAIN flight = 1..Len(flight) /\ Len(A) \in Nat /\ DOMAIN A = 1..Len(A)
  BY <1>1, IsSeqDomain DEF SendsAs
<1>5. IsSeq(f) /\ Len(f) = Len(flight) + Len(A)
      /\ \A j \in 1..Len(flight) + Len(A) : f[j] = IF j <= Len(flight) THEN flight[j] ELSE A[j - Len(flight)]
  BY <1>1, <1>2, CatIs DEF SendsAs
<1>6. DOMAIN f = 1..Len(flight) + Len(A)
  BY <1>5, IsSeqDomain
<1>7. PICK k : k = Len(flight) + m
  OBVIOUS
<1>8. k \in DOMAIN f /\ f[k] = q /\ \A j \in DOMAIN flight : j < k /\ j \in DOMAIN f /\ f[j] = flight[j]
  BY <1>3, <1>4, <1>5, <1>6, <1>7
<1>9. k \in DOMAIN flight' /\ Enters(flight'[k])
      /\ \A j \in DOMAIN flight : j < k /\ j \in DOMAIN flight' /\ flight'[j] = flight[j]
  BY <1>2, <1>8
<1>10. past' = past /\ future' = future /\ applying' = applying
  BY DEF history
<1>11. CASE applying # Idle
  BY <1>9, <1>10, <1>11 DEF Lost, UndoMeetsGesture
<1>12. \A b : HeldDelete(b) => HeldDelete(b)'
  BY SentRetains
<1>13. ASSUME NEW j \in DOMAIN flight, Takes(flight[j]) PROVE Lost'
  <2>1. PICK b : b = flight[j].row.id
    OBVIOUS
  <2>2. HeldDelete(b) => HeldDelete(b)'
    BY <1>12
  <2>3. flight'[j].row.id = b /\ flight'[j] = flight[j]
    BY <1>9, <2>1
  <2>4. (\E l \in DOMAIN flight : Takes(flight[l]) /\ l = j)'
    BY <1>9, <1>13, <2>1, <2>2, <2>3 DEF Takes
  <2> QED
    BY <1>9, <2>4 DEF Lost, Precedes
<1>14. ASSUME NEW row, Took(Deeds, row) PROVE Lost'
  <2>1. PICK e \in Deeds : e.kind = "delete" /\ e.row = row
    BY <1>14 DEF Took
  <2>2. CASE e \in ToSet(past)
    BY <1>9, <1>10, <2>1, <2>2 DEF Lost, Buried, ToSet
  <2>3. ASSUME NEW r, Enters(r), e = EntryOf(r) PROVE r.kind = "delete"
    BY <2>1, <2>3 DEF EntryOf, Op, Enters, Recorded
  <2>4. CASE e \in EntriesOf(ToSet(flight))
    <3>1. PICK j \in DOMAIN flight : Enters(flight[j]) /\ e = EntryOf(flight[j])
      BY <2>4 DEF EntriesOf, ToSet
    <3> QED
      BY <1>13, <2>3, <3>1 DEF Takes
  <2>5. CASE e \in EntriesOf(ToSet(held))
    <3>1. PICK j \in DOMAIN held : Enters(held[j]) /\ e = EntryOf(held[j])
      BY <2>5 DEF EntriesOf, ToSet
    <3>2. held[j].kind = "delete" /\ held[j] \in ToSet(held)
      BY <2>3, <3>1 DEF ToSet
    <3>3. PICK i \in DOMAIN flight : flight[i].kind = "create" /\ flight[i].row.id = held[j].row.id
      BY <3>2 DEF Straight, Waits, ToSet
    <3>4. flight[i].by = "user"
      BY <3>3 DEF Straight, Regular, ToSet
    <3>5. HeldDelete(flight[i].row.id)
      BY <3>2, <3>3 DEF HeldDelete
    <3> QED
      BY <1>13, <3>3, <3>4, <3>5 DEF Takes, Enters, Recorded
  <2> QED
    BY <2>1, <2>2, <2>4, <2>5 DEF Deeds
<1> QED
  BY <1>11, <1>14

-----------------------------------------------------------------------------
(* What an answer takes off the wire.                                      *)

GoesOut(i) ==
  /\ Retains(flight', flight, i)
  /\ \A b : HeldDelete(b) => HeldDelete(b)' \/ (flight[i].kind = "create" /\ b = flight[i].row.id)
  /\ EntriesOf(ToSet(flight')) \union EntriesOf(ToSet(held')) = EntriesOf(Rest(flight, i)) \union EntriesOf(ToSet(held))
  /\ \A q \in ToSet(flight') : q \in Rest(flight, i) \/ q \in ToSet(held)
  /\ \A q \in ToSet(held') : q \in ToSet(held)
  /\ Waits(ToSet(flight), ToSet(held)) => Waits(ToSet(flight'), ToSet(held'))

LEMMA SettledGoes ==
  ASSUME EditorInv, NEW i \in DOMAIN flight, Settled(i), flight[i].kind # "create"
  PROVE  GoesOut(i)
<1>1. flight' = RemoveAt(flight, i) /\ held' = held /\ IsSeq(flight)
  BY DEF Settled, EditorInv
<1>2. ToSet(flight') = Rest(flight, i) /\ Retains(flight', flight, i)
  BY <1>1, SetOfRest, RetainsRest
<1>3. Waits(ToSet(flight), ToSet(held)) => Waits(ToSet(flight'), ToSet(held'))
  BY <1>1, GoneWaits
<1>4. \A b : HeldDelete(b) => HeldDelete(b)'
  BY <1>1 DEF HeldDelete
<1> QED
  BY <1>1, <1>2, <1>3, <1>4 DEF GoesOut

LEMMA ReleasedGoes ==
  ASSUME EditorInv, NEW i \in DOMAIN flight, Released(i), flight[i].kind = "create"
  PROVE  GoesOut(i)
<1>1. PICK q : q = flight[i]
  OBVIOUS
<1>2. PICK I : I = {j \in DOMAIN held : held[j].row.id = q.row.id}
  OBVIOUS
<1>3. PICK J : J = DOMAIN held \ I
  OBVIOUS
<1>4. PICK g : g = RemoveAt(flight, i)
  OBVIOUS
<1>5. PICK A : A = Picked(held, I)
  OBVIOUS
<1>6. PICK B : B = Picked(held, J)
  OBVIOUS
<1>7. flight' = g \o A /\ held' = B
  BY <1>1, <1>2, <1>3, <1>4, <1>5, <1>6 DEF Released
<1>8. /\ IsSeq(flight) /\ IsSeq(held) /\ IsSeq(g)
      /\ ToSet(g) = Rest(flight, i) /\ ToSet(flight) = Rest(flight, i) \union {q}
  BY <1>1, <1>4, IsSeqDomain, RemoveAtIs, SetOfRest DEF EditorInv
<1>9. I \subseteq DOMAIN held /\ J \subseteq DOMAIN held
  BY <1>2, <1>3
<1>10. IsSeq(A) /\ IsSeq(B) /\ ToSet(A) = {held[j] : j \in I} /\ ToSet(B) = {held[j] : j \in J}
  BY <1>5, <1>6, <1>8, <1>9, PickedIs, SetOfPicked, Zenon
<1>11. ToSet(g \o A) = ToSet(g) \union ToSet(A)
  BY <1>8, <1>10, SetOfCat
<1>12. ToSet(held) = ToSet(A) \union ToSet(B)
  BY <1>3, <1>9, <1>10 DEF ToSet
<1>13. PICK F : F = ToSet(flight')
  OBVIOUS
<1>14. F = Rest(flight, i) \union ToSet(A)
  BY <1>7, <1>8, <1>11, <1>13
<1>15. /\ EntriesOf(F) = EntriesOf(Rest(flight, i)) \union EntriesOf(ToSet(A))
       /\ EntriesOf(ToSet(held)) = EntriesOf(ToSet(A)) \union EntriesOf(ToSet(B))
  BY <1>12, <1>14, EntriesJoin
<1>16. Retains(flight', flight, i)
  <2>1. Retains(g, flight, i)
    BY <1>4, <1>8, RetainsRest
  <2>2. \A y : Retains(g \o A, g, y)
    BY <1>8, <1>10, RetainsCat
  <2>3. DOMAIN g \subseteq Nat
    BY <1>8, IsSeqDomain
  <2>4. Retains(g \o A, flight, i)
    BY <2>1, <2>2, <2>3, RetainsTwice
  <2> QED
    BY <1>7, <2>4
<1>17. ASSUME NEW b, HeldDelete(b), b # q.row.id PROVE HeldDelete(b)'
  <2>1. PICK j \in DOMAIN held : held[j].kind = "delete" /\ held[j].row.id = b
    BY <1>17 DEF HeldDelete
  <2>2. held[j] \in ToSet(B)
    BY <1>2, <1>3, <1>10, <1>17, <2>1
  <2>3. \E k \in DOMAIN B : B[k].kind = "delete" /\ B[k].row.id = b
    BY <2>1, <2>2 DEF ToSet
  <2> QED
    BY <1>7, <2>3 DEF HeldDelete
<1>18. ASSUME Waits(ToSet(flight), ToSet(held)) PROVE Waits(F, ToSet(B))
  <2>1. ASSUME NEW w \in ToSet(B) PROVE \E r \in F : r.kind = "create" /\ r.row.id = w.row.id
    <3>1. w \in ToSet(held) /\ w.row.id # q.row.id
      BY <1>2, <1>3, <1>10, <2>1 DEF ToSet
    <3>2. PICK r \in ToSet(flight) : r.kind = "create" /\ r.row.id = w.row.id
      BY <1>18, <3>1 DEF Waits
    <3> QED
      BY <1>8, <1>14, <3>1, <3>2
  <2> QED
    BY <2>1 DEF Waits
<1>19. \A b : HeldDelete(b) => HeldDelete(b)' \/ b = q.row.id
  BY <1>17
<1> QED
  BY <1>1, <1>7, <1>12, <1>13, <1>14, <1>15, <1>16, <1>18, <1>19 DEF GoesOut

\* The entry of a request answered goes from the wire to the stack.
LEMMA AnsweredDeeds ==
  ASSUME EditorInv, NEW i \in DOMAIN flight, GoesOut(i),
         \/ ~Enters(flight[i]) /\ ToSet(past') = ToSet(past)
         \/ Enters(flight[i]) /\ ToSet(past') = ToSet(past) \union {EntryOf(flight[i])}
  PROVE  Deeds' = Deeds
<1>1. PICK q : q = flight[i]
  OBVIOUS
<1>2. PICK F : F = ToSet(flight')
  OBVIOUS
<1>3. PICK H : H = ToSet(held')
  OBVIOUS
<1>4. ToSet(flight) = Rest(flight, i) \union {q}
  BY <1>1, SetOfRest DEF EditorInv
<1>5. EntriesOf(ToSet(flight)) = EntriesOf(Rest(flight, i)) \union EntriesOf({q})
  BY <1>4, EntriesJoin
<1>6. EntriesOf({q}) = IF Enters(q) THEN {EntryOf(q)} ELSE {}
  BY DEF EntriesOf
<1>7. EntriesOf(F) \union EntriesOf(H) = EntriesOf(Rest(flight, i)) \union EntriesOf(ToSet(held))
  BY <1>2, <1>3 DEF GoesOut
<1>8. Deeds' = ToSet(past') \union EntriesOf(F) \union EntriesOf(H)
  BY <1>2, <1>3 DEF Deeds
<1> QED
  BY <1>1, <1>5, <1>6, <1>7, <1>8 DEF Deeds

\* Nothing was deleted.
LEMMA NothingTaken ==
  ASSUME Straight, \A j \in DOMAIN flight : ~Enters(flight[j]),
         \A n \in DOMAIN past : past[n].kind # "delete"
  PROVE  /\ \A row : ~Took(Deeds, row)
         /\ \A e \in Deeds : e \in ToSet(past)
<1>1. \A q \in ToSet(flight) : ~Enters(q)
  BY DEF ToSet
<1>2. ASSUME NEW q \in ToSet(held), Enters(q) PROVE FALSE
  <2>1. PICK r \in ToSet(flight) : r.kind = "create" /\ r.row.id = q.row.id
    BY DEF Straight, Waits
  <2>2. r.by = "user"
    BY <2>1 DEF Straight, Regular
  <2> QED
    BY <1>1, <2>1, <2>2 DEF Enters, Recorded
<1>3. \A e \in Deeds : e \in ToSet(past)
  BY <1>1, <1>2 DEF Deeds, EntriesOf
<1>4. \A e \in ToSet(past) : e.kind # "delete"
  BY DEF ToSet
<1> QED
  BY <1>3, <1>4 DEF Took

LEMMA UndoFindsNothingTaken ==
  ASSUME Straight, ~Lost, applying # Idle
  PROVE  /\ \A row : ~Took(Deeds, row)
         /\ \A e \in Deeds : e \in ToSet(past)
         /\ \A j \in DOMAIN flight : ~Enters(flight[j])
<1>1. \A j \in DOMAIN flight : ~Enters(flight[j])
  BY DEF Lost, UndoMeetsGesture
<1>2. \A n \in DOMAIN past : past[n].kind # "delete"
  BY DEF Lost, Buried
<1> QED
  BY <1>1, <1>2, NothingTaken

-----------------------------------------------------------------------------
(* The stack, before and after.                                            *)

LEMMA OneMore ==
  ASSUME NEW s, IsSeq(s), NEW x
  PROVE  /\ Len(s) \in Nat /\ DOMAIN s = 1..Len(s) /\ DOMAIN Append(s, x) = 1..Len(s) + 1
         /\ Len(Append(s, x)) = Len(s) + 1 /\ Append(s, x) # <<>>
         /\ \A i \in 1..Len(s) : Append(s, x)[i] = s[i]
         /\ Append(s, x)[Len(s) + 1] = x
         /\ ToSet(Append(s, x)) = ToSet(s) \union {x}
<1>1. PICK u : u = Append(s, x)
  OBVIOUS
<1>2. IsSeq(u) /\ Len(u) = Len(s) + 1 /\ u[Len(s) + 1] = x /\ \A i \in 1..Len(s) : u[i] = s[i]
  BY <1>1, AppendIs
<1>3. Len(s) \in Nat /\ DOMAIN s = 1..Len(s) /\ DOMAIN u = 1..Len(s) + 1
  BY <1>2, IsSeqDomain
<1>4. u # <<>>
  BY <1>3
<1>5. ToSet(u) = ToSet(s) \union {x}
  <2>1. \A i \in DOMAIN u : i \in DOMAIN s \/ i = Len(s) + 1
    BY <1>3
  <2>2. Len(s) + 1 \in DOMAIN u /\ DOMAIN s \subseteq DOMAIN u
    BY <1>3
  <2> QED
    BY <1>2, <1>3, <2>1, <2>2 DEF ToSet
<1> QED
  BY <1>1, <1>2, <1>3, <1>4, <1>5

LEMMA OneLess ==
  ASSUME NEW s, IsSeq(s), s # <<>>
  PROVE  /\ Len(s) \in Nat \ {0} /\ DOMAIN s = 1..Len(s)
         /\ DOMAIN Front(s) = 1..Len(s) - 1 /\ Len(Front(s)) = Len(s) - 1
         /\ \A i \in 1..Len(s) - 1 : Front(s)[i] = s[i]
         /\ Last(s) = s[Len(s)]
         /\ ToSet(s) = ToSet(Front(s)) \union {Last(s)}
<1>1. Len(s) \in Nat /\ DOMAIN s = 1..Len(s)
  BY IsSeqDomain
<1>2. Len(s) # 0
  <2>1. ASSUME Len(s) = 0 PROVE FALSE
    <3>1. s = [i \in 1..0 |-> s[i]]
      BY <2>1 DEF IsSeq
    <3> QED
      BY <3>1
  <2> QED
    BY <2>1
<1>3. PICK u : u = Front(s)
  OBVIOUS
<1>4. IsSeq(u) /\ Len(u) = Len(s) - 1
  <2>1. u = SubSeq(s, 1, Len(s) - 1)
    BY <1>3 DEF Front
  <2>2. 1 \in 1..Len(s) + 1 /\ Len(s) - 1 \in 0..Len(s) /\ 1 <= (Len(s) - 1) + 1 /\ (Len(s) - 1) + 1 - 1 = Len(s) - 1
    BY <1>1, <1>2
  <2>3. IsSeq(SubSeq(s, 1, Len(s) - 1)) /\ Len(SubSeq(s, 1, Len(s) - 1)) = (Len(s) - 1) + 1 - 1
    BY <2>2, SubSeqIs
  <2> QED
    BY <2>1, <2>2, <2>3
<1>5. DOMAIN u = 1..Len(s) - 1
  BY <1>4, IsSeqDomain
<1>6. \A i \in 1..Len(s) - 1 : u[i] = s[i]
  BY <1>3, <1>5, FrontIs
<1>7. Last(s) = s[Len(s)]
  BY DEF Last
<1>8. ToSet(s) = ToSet(u) \union {Last(s)}
  <2>1. \A i \in DOMAIN s : i \in DOMAIN u \/ i = Len(s)
    BY <1>1, <1>5
  <2>2. Len(s) \in DOMAIN s /\ DOMAIN u \subseteq DOMAIN s
    BY <1>1, <1>2, <1>5
  <2> QED
    BY <1>5, <1>6, <1>7, <2>1, <2>2 DEF ToSet
<1> QED
  BY <1>1, <1>2, <1>3, <1>4, <1>5, <1>6, <1>7, <1>8

-----------------------------------------------------------------------------
(* Undo and redo, and the answers, by what they do to the stack.           *)

OfStack(way, op) ==
  \/ way = "undo" /\ past # <<>> /\ op = Last(past)
  \/ way = "redo" /\ future # <<>> /\ op = Last(future)

StartsUndo(way, kind, ids) ==
  /\ UNCHANGED <<past, future>>
  /\ applying' # Idle /\ applying'.inverse.kind = kind /\ applying'.inverse.ids = ids
Posting(way, kind, ids) ==
  \E r : Send(<<r>>) /\ r.kind = kind /\ r.by = way /\ r.state = "sent" /\ r.ids = ids
Reverts(way, op) ==
  /\ op.kind # "delete" /\ applying = Idle /\ \A j \in DOMAIN flight : ~Enters(flight[j])
  /\ \/ /\ op.kind = "create" /\ op.row.id \in Ids(store) /\ store' = Drop(store, op.row.id)
        /\ StartsUndo(way, "delete", <<>>) /\ Posting(way, "delete", <<>>)
     \/ /\ op.kind = "create" /\ op.row.id \notin Ids(store) /\ UNCHANGED <<store, flight, held>>
        /\ \E row : Finish(way, Op("delete", row, <<>>))
     \/ /\ op.kind = "reorder" /\ UNCHANGED store
        /\ StartsUndo(way, "reorder", Order(store)) /\ Posting(way, "reorder", op.ids)

LEMMA ApplyReverts ==
  ASSUME EditorInv, NEW way \in {"undo", "redo"}, NEW op, IsOp(op), Apply(way, op), ~tangled'
  PROVE  Reverts(way, op)
<1> DEFINE b == op.row.id
           del == Delete(b)
           ord == Reorder(op.ids)
           s(r) == [r EXCEPT !.by = way]
           starts(kind, row, ids) == /\ applying' = [way |-> way, inverse |-> Op(kind, row, ids)]
                                     /\ UNCHANGED <<past, future>>
           deletes == /\ op.kind = "create" /\ b \in Ids(store) /\ store' = Drop(store, b) /\ Send(<<s(del)>>)
                      /\ starts("delete", RowIn(store, b), <<>>)
           finishes == /\ op.kind = "create" /\ b \notin Ids(store) /\ UNCHANGED <<store, flight, held>>
                       /\ Finish(way, Op("delete", op.row, <<>>))
           reorders == /\ op.kind = "reorder" /\ Send(<<s(ord)>>) /\ UNCHANGED store
                       /\ starts("reorder", NoRow, Order(store))
<1>1. op.kind # "delete" /\ \A j \in DOMAIN flight : ~Enters(flight[j])
  BY DEF Apply
<1>2. applying = Idle /\ (deletes \/ finishes \/ reorders)
  BY <1>1 DEF Apply, Revert, Show, ShowFrom
<1>3. \A kind, row, ids : starts(kind, row, ids) /\ IsRow(row) /\ IsPlaces(ids) => StartsUndo(way, kind, ids)
  <2>1. ASSUME NEW kind, NEW row, NEW ids, starts(kind, row, ids), IsRow(row), IsPlaces(ids)
        PROVE  StartsUndo(way, kind, ids)
    <3>1. applying' # Idle
      BY <2>1, PendingIs DEF EditorInv
    <3>2. applying'.inverse = Op(kind, row, ids)
      BY <2>1
    <3> QED
      BY <2>1, <3>1, <3>2 DEF StartsUndo, Op
  <2> QED
    BY <2>1
<1>4. \A r : IsRequest(r) => s(r).kind = r.kind /\ s(r).state = r.state /\ s(r).ids = r.ids /\ s(r).by = way
  <2>1. ASSUME NEW r, IsRequest(r) PROVE s(r).kind = r.kind /\ s(r).state = r.state /\ s(r).ids = r.ids /\ s(r).by = way
    <3>1. r = [kind |-> r.kind, row |-> r.row, old |-> r.old, ids |-> r.ids,
               prev |-> r.prev, by |-> r.by, state |-> r.state, rows |-> r.rows]
      BY <2>1 DEF IsRequest
    <3> QED
      BY <3>1
  <2> QED
    BY <2>1
<1> HIDE DEF s, starts
<1>5. IsRows(store) /\ IsPlaces(<<>>) /\ IsRow(NoRow) /\ IsPlaces(Order(store))
  BY NoRowIs, OrderIs, IsSeqDomain DEF EditorInv, IsPlaces, IsRows
<1>6. CASE deletes
  <2>1. IsRequest(del) /\ del.kind = "delete" /\ del.state = "sent"
    BY <1>5, <1>6, DeleteIs
  <2>2. del.ids = <<>>
    BY DEF Delete, Request
  <2>3. Send(<<s(del)>>)
    BY <1>6
  <2> HIDE DEF del
  <2>4. Posting(way, "delete", <<>>)
    BY <1>4, <2>1, <2>2, <2>3 DEF Posting
  <2>5. IsRow(RowIn(store, b))
    BY <1>5, <1>6, RowInIs
  <2>6. StartsUndo(way, "delete", <<>>)
    BY <1>3, <1>5, <1>6, <2>5
  <2> QED
    BY <1>1, <1>2, <1>6, <2>4, <2>6 DEF Reverts
<1>7. CASE finishes
  BY <1>1, <1>2, <1>7 DEF Reverts
<1>8. CASE reorders
  <2>1. IsRequest(ord) /\ ord.kind = "reorder" /\ ord.state = "sent"
    BY <1>5, ReorderIs DEF IsOp
  <2>2. ord.ids = op.ids
    BY DEF Reorder, Request
  <2>3. Send(<<s(ord)>>)
    BY <1>8
  <2> HIDE DEF ord
  <2>4. Posting(way, "reorder", op.ids)
    BY <1>4, <2>1, <2>2, <2>3 DEF Posting
  <2>5. StartsUndo(way, "reorder", Order(store))
    BY <1>3, <1>5, <1>8
  <2> QED
    BY <1>1, <1>2, <1>8, <2>4, <2>5 DEF Reverts
<1> QED
  BY <1>2, <1>6, <1>7, <1>8

\* What an answer does to the stack: nothing, or it puts a gesture's entry
\* there, or it ends an undo or a redo.
Recording(q) ==
  /\ Enters(q) /\ past' = Append(past, EntryOf(q)) /\ future' = <<>>
  /\ applying = Idle /\ applying' = Idle /\ (q.kind = "reorder" \/ store' = store)
Undoing(q) ==
  /\ q.by = "undo" /\ UndoOf(q) /\ Finish("undo", applying.inverse)
  /\ \/ q.kind = "delete" /\ store' = store
     \/ q.kind = "reorder" /\ q.state = "done" /\ store' = q.rows
Redoing(q) ==
  /\ q.by = "redo" /\ UndoOf(q) /\ Finish("redo", applying.inverse)
RepliesAs(i) ==
  /\ GoesOut(i) /\ Ids(store') = Ids(store) /\ UNCHANGED <<made, opening>>
  /\ \/ Recording(flight[i]) \/ Undoing(flight[i]) \/ Redoing(flight[i])
     \/ flight[i].kind = "update" /\ UNCHANGED <<store, history>>

LEMMA ReplyIsOne ==
  ASSUME EditorInv, CalmInv, Straight, NEW i \in DOMAIN flight, Reply(i), ~misread', ~refused', ~tangled'
  PROVE  RepliesAs(i)
<1>1. PICK q : q = flight[i]
  OBVIOUS
<1>2. /\ ~misread /\ ~refused /\ ~UndoMeetsGesture /\ ~ReplacesMore(q) /\ UNCHANGED <<made, opening>>
  BY <1>1 DEF Reply, bounds
<1>3. q \in ToSet(flight) /\ Regular(q) /\ Orderly
  BY <1>1, <1>2, CleanIsOrderly DEF ToSet, Straight
<1>4. ~CreateFailed(i) /\ ~DeleteFailed(i)
  BY <1>3, NoneFailed
<1>5. ~Recreated(i) /\ ~Relisted(i) /\ ~UndoFailed(i)
  BY <1>1, <1>3 DEF Recreated, Relisted, UndoFailed, Answered, Regular, Brings
<1>6. Enters(q) => applying = Idle
  BY <1>1, <1>2 DEF UndoMeetsGesture
<1>7. ASSUME NEW op, Enters(q), Record(op) PROVE past' = Append(past, op) /\ future' = <<>> /\ applying = Idle /\ applying' = Idle
  BY <1>6, <1>7 DEF Record
<1>8. Undoes(q) => UndoOf(q) /\ (q.by = "undo" \/ q.by = "redo")
  BY <1>3 DEF Regular, UndoOf
<1>9. CASE Created(i)
  <2>1. q.kind = "create" /\ Record(Op("create", q.row, <<>>)) /\ Released(i) /\ store' = store
    BY <1>1, <1>9 DEF Created, Answered
  <2>2. Enters(q)
    BY <1>3, <2>1 DEF Regular, Enters, Recorded
  <2>3. EntryOf(q) = Op("create", q.row, <<>>)
    BY <2>1 DEF EntryOf
  <2>4. Recording(q)
    BY <1>7, <2>1, <2>2, <2>3 DEF Recording
  <2>5. GoesOut(i)
    BY <1>1, <2>1, ReleasedGoes
  <2> QED
    BY <1>1, <1>2, <2>1, <2>4, <2>5 DEF RepliesAs
<1>10. CASE Deleted(i)
  <2>1. q.kind = "delete" /\ Settled(i) /\ store' = store
    BY <1>1, <1>10 DEF Deleted, Answered
  <2>2. GoesOut(i)
    BY <1>1, <2>1, SettledGoes
  <2>3. CASE q.by = "user"
    <3>1. Enters(q) /\ EntryOf(q) = Op("delete", q.row, <<>>) /\ Record(Op("delete", q.row, <<>>))
      BY <1>1, <1>10, <2>1, <2>3 DEF Enters, Recorded, EntryOf, Deleted
    <3>2. Recording(q)
      BY <1>7, <2>1, <3>1 DEF Recording
    <3> QED
      BY <1>1, <1>2, <2>1, <2>2, <3>2 DEF RepliesAs
  <2>4. CASE q.by # "user"
    <3>1. Finish(q.by, applying.inverse) /\ UndoOf(q) /\ (q.by = "undo" \/ q.by = "redo")
      BY <1>1, <1>8, <1>10, <2>4 DEF Deleted, Undoes
    <3>2. q.by = "undo"
      BY <2>1, <3>1 DEF UndoOf
    <3>3. Undoing(q)
      BY <2>1, <3>1, <3>2 DEF Undoing
    <3> QED
      BY <1>1, <1>2, <2>1, <2>2, <3>3 DEF RepliesAs
  <2> QED
    BY <2>3, <2>4
<1>11. CASE ReorderAnswered(i)
  <2>1. q.kind = "reorder" /\ q.state # "sent" /\ Settled(i)
    BY <1>1, <1>11 DEF ReorderAnswered
  <2>2. q.state = "done"
    BY <1>1, <1>3, <2>1, ToldApart DEF IsRequest, Regular
  <2>3. store' = q.rows
    BY <1>1, <1>11, <2>2 DEF ReorderAnswered, Adopt, ShowFrom
  <2>4. GoesOut(i)
    BY <1>1, <2>1, SettledGoes
  <2>5. Ids(q.rows) = Ids(store)
    <3>1. Contents(q.rows) = Contents(store)
      BY <1>2, <2>1, <2>2 DEF ReplacesMore, Listing
    <3>2. \A b \in Ids(store) : b \in Ids(q.rows)
      <4>1. \A c \in Contents(store) : c \in Contents(q.rows)
        BY <3>1
      <4> QED
        BY <4>1, ContentsTell
    <3>3. \A b \in Ids(q.rows) : b \in Ids(store)
      <4>1. \A c \in Contents(q.rows) : c \in Contents(store)
        BY <3>1
      <4> QED
        BY <4>1, ContentsTell
    <3> QED
      BY <3>2, <3>3
  <2>6. CASE q.by = "user"
    <3>1. Enters(q) /\ EntryOf(q) = Op("reorder", NoRow, q.prev) /\ Record(Op("reorder", NoRow, q.prev))
      BY <1>1, <1>11, <2>1, <2>2, <2>6 DEF Enters, Recorded, EntryOf, ReorderAnswered
    <3>2. Recording(q)
      BY <1>7, <2>1, <3>1 DEF Recording
    <3> QED
      BY <1>1, <1>2, <2>3, <2>4, <2>5, <3>2 DEF RepliesAs
  <2>7. CASE q.by # "user"
    <3>1. Finish(q.by, applying.inverse) /\ UndoOf(q) /\ (q.by = "undo" \/ q.by = "redo")
      BY <1>1, <1>8, <1>11, <2>7 DEF ReorderAnswered, Undoes
    <3>2. Undoing(q) \/ Redoing(q)
      BY <2>1, <2>2, <2>3, <3>1 DEF Undoing, Redoing
    <3> QED
      BY <1>1, <1>2, <2>3, <2>4, <2>5, <3>2 DEF RepliesAs
  <2> QED
    BY <2>6, <2>7
<1>12. CASE UpdateFailed(i)
  <2>1. q.kind = "update" /\ q.state = "refused" /\ Show(RolledBack(q)) /\ Settled(i) /\ UNCHANGED history
    BY <1>1, <1>12 DEF UpdateFailed, Answered
  <2>3. RolledBack(q) = store
    BY <1>1, <1>3, <1>12, RollsNothingBack
  <2>4. store' = store
    BY <2>1, <2>3 DEF Show, ShowFrom
  <2>5. GoesOut(i)
    BY <1>1, <2>1, SettledGoes
  <2> QED
    BY <1>1, <1>2, <2>1, <2>4, <2>5 DEF RepliesAs
<1> QED
  BY <1>4, <1>5, <1>9, <1>10, <1>11, <1>12 DEF Reply

-----------------------------------------------------------------------------
(* What PastLeadsBack does not speak of, it does not speak of later.       *)

LEMMA StackIs ==
  ASSUME EditorInv
  PROVE  /\ IsSeq(past) /\ Len(past) \in Nat /\ DOMAIN past = 1..Len(past) /\ IsSeq(future)
         /\ DOMAIN flight \subseteq Nat \ {0}
  BY IsSeqDomain DEF EditorInv, HistoryInv, IsOps

\* An undo takes no deletion off the stack.
LEMMA UndoneStaysBuried ==
  ASSUME EditorInv, past # <<>>, Last(past).kind # "delete", NEW more, Buried(past, more),
         NEW op, past' = Front(past), future' = Append(future, op)
  PROVE  Lost'
<1>1. PICK p : p = Front(past)
  OBVIOUS
<1>2. PICK n \in DOMAIN past : past[n].kind = "delete"
  BY DEF Buried
<1>3. /\ Len(past) \in Nat \ {0} /\ DOMAIN past = 1..Len(past) /\ Last(past) = past[Len(past)]
      /\ DOMAIN p = 1..Len(past) - 1 /\ \A i \in 1..Len(past) - 1 : p[i] = past[i]
  BY <1>1, StackIs, OneLess
<1>4. n \in DOMAIN p /\ p[n].kind = "delete"
  BY <1>2, <1>3
<1>5. future' # <<>>
  BY StackIs, OneMore
<1>6. \E m \in DOMAIN past' : past'[m].kind = "delete"
  BY <1>1, <1>4
<1> QED
  BY <1>5, <1>6 DEF Lost, Buried

LEMMA AppendedStaysBuried ==
  ASSUME EditorInv, NEW more, Buried(past, more), NEW op, past' = Append(past, op)
  PROVE  Lost'
<1>1. PICK p : p = past'
  OBVIOUS
<1>2. PICK n \in DOMAIN past : past[n].kind = "delete"
  BY DEF Buried
<1>3. /\ Len(past) \in Nat /\ DOMAIN past = 1..Len(past) /\ DOMAIN p = 1..Len(past) + 1
      /\ Len(p) = Len(past) + 1 /\ \A i \in 1..Len(past) : p[i] = past[i]
  BY <1>1, StackIs, OneMore
<1>4. n \in DOMAIN p /\ p[n].kind = "delete" /\ n < Len(p)
  BY <1>2, <1>3
<1>5. \E m \in DOMAIN past' : past'[m].kind = "delete" /\ m < Len(past')
  BY <1>1, <1>4
<1> QED
  BY <1>5 DEF Lost, Buried

LEMMA ApplyLost ==
  ASSUME EditorInv, Lost, NEW way, NEW op, OfStack(way, op), Reverts(way, op)
  PROVE  Lost'
<1>1. applying = Idle /\ op.kind # "delete" /\ \A j \in DOMAIN flight : ~Enters(flight[j])
  BY DEF Reverts
<1>2. PICK more : Buried(past, more) /\ (more <=> future # <<>>)
  BY <1>1 DEF Lost, UndoMeetsGesture, Precedes
<1>3. PICK n \in DOMAIN past : past[n].kind = "delete" /\ (n < Len(past) \/ more)
  BY <1>2 DEF Buried
<1>4. CASE \E kind, ids : StartsUndo(way, kind, ids)
  BY <1>3, <1>4 DEF StartsUndo, Lost, Buried
<1>5. ASSUME NEW row, Finish(way, Op("delete", row, <<>>)) PROVE Lost'
  <2>1. CASE way = "undo"
    <3>1. past # <<>> /\ Last(past).kind # "delete"
      BY <1>1, <2>1 DEF OfStack
    <3>2. past' = Front(past) /\ future' = Append(future, Op("delete", row, <<>>))
      BY <1>5, <2>1 DEF Finish
    <3> QED
      BY <1>2, <3>1, <3>2, UndoneStaysBuried
  <2>2. CASE way # "undo"
    BY <1>2, <1>5, <2>2, AppendedStaysBuried DEF Finish
  <2> QED
    BY <2>1, <2>2
<1> QED
  BY <1>4, <1>5 DEF Reverts

LEMMA ReplyLost ==
  ASSUME EditorInv, Straight, Lost, NEW i \in DOMAIN flight, Reply(i), RepliesAs(i), ~tangled'
  PROVE  Lost'
<1>1. PICK q : q = flight[i]
  OBVIOUS
<1>2. ~UndoMeetsGesture /\ ~RecordedLate(i)
  BY DEF Reply
<1>3. GoesOut(i) /\ q \in ToSet(flight) /\ Retains(flight', flight, i)
  BY <1>1 DEF RepliesAs, GoesOut, ToSet
<1>4. CASE Precedes(flight)
  <2>1. PICK k \in DOMAIN flight, l \in DOMAIN flight : k < l /\ Takes(flight[k]) /\ Enters(flight[l])
    BY <1>4 DEF Precedes
  <2>2. k \in Nat /\ l \in Nat /\ i \in Nat /\ k # 0
    BY StackIs
  <2>3. Enters(flight[k])
    BY <2>1 DEF Takes
  <2>4. l # i
    <3>1. ASSUME l = i PROVE k \in 1..i - 1 /\ Enters(flight[i])
      BY <2>1, <2>2, <3>1
    <3> QED
      BY <1>2, <2>3, <3>1 DEF RecordedLate
  <2>5. CASE k # i
    <3>1. HeldStill(i)
      <4>1. ASSUME NEW j \in DOMAIN flight, j # i, flight[j].kind = "create", NEW b, b = flight[j].row.id, HeldDelete(b)
            PROVE  HeldDelete(b)'
        <5>1. flight[i].kind = "create" => flight[i].row.id # b
          BY <4>1, CreationsDiffer
        <5> QED
          BY <1>3, <4>1, <5>1 DEF GoesOut
      <4> QED
        BY <4>1 DEF HeldStill
    <3>2. Precedes(flight)'
      BY <1>3, <2>1, <2>4, <2>5, <3>1, PrecedesStill
    <3> QED
      BY <3>2 DEF Lost
  <2>6. CASE k = i
    <3>1. q.kind = "delete"
      BY <1>1, <1>2, <2>1, <2>3, <2>4, <2>6 DEF Takes, RecordedLate
    <3>2. Enters(q)
      BY <1>1, <2>3, <2>6
    <3>3. Recording(q)
      BY <1>1, <3>1, <3>2 DEF RepliesAs, Undoing, Redoing, Enters
    <3>4. past' = Append(past, EntryOf(q)) /\ EntryOf(q).kind = "delete"
      BY <3>1, <3>3 DEF Recording, EntryOf, Op
    <3>5. PICK p : p = past'
      OBVIOUS
    <3>6. Len(past) + 1 \in DOMAIN p /\ p[Len(past) + 1].kind = "delete"
      BY <3>4, <3>5, StackIs, OneMore
    <3>7. PICK f : f = flight'
      OBVIOUS
    <3>8. \E m \in DOMAIN f : Enters(f[m])
      BY <1>3, <2>1, <2>4, <3>7, OthersRetained
    <3>9. (\E m \in DOMAIN past : past[m].kind = "delete")' /\ (\E m \in DOMAIN flight : Enters(flight[m]))'
      BY <3>5, <3>6, <3>7, <3>8
    <3> QED
      BY <3>9 DEF Lost, Buried
  <2> QED
    BY <2>5, <2>6
<1>5. ASSUME NEW more, Buried(past, more), (more <=> \/ future # <<>> \/ applying # Idle
                                                     \/ \E j \in DOMAIN flight : Enters(flight[j]))
      PROVE  Lost'
  <2>1. CASE Recording(q)
    BY <1>5, <2>1, AppendedStaysBuried DEF Recording
  <2>2. CASE Undoing(q)
    <3>1. past # <<>> /\ Last(past).kind # "delete"
      BY <2>2 DEF Undoing, UndoOf
    <3>2. past' = Front(past) /\ future' = Append(future, applying.inverse)
      BY <2>2 DEF Undoing, Finish
    <3> QED
      BY <1>5, <3>1, <3>2, UndoneStaysBuried
  <2>3. CASE Redoing(q)
    BY <1>5, <2>3, AppendedStaysBuried DEF Redoing, Finish
  <2>4. CASE q.kind = "update" /\ UNCHANGED history
    <3>1. ~Enters(flight[i])
      BY <1>1, <2>4 DEF Enters, Recorded
    <3>2. Retains(flight', flight, 0)
      BY <1>3, <3>1, RetainsAll
    <3>3. HeldStill(0)
      BY <1>1, <1>3, <2>4 DEF GoesOut, HeldStill
    <3> QED
      BY <2>4, <3>2, <3>3, StackIs, LostStill
  <2> QED
    BY <1>1, <2>1, <2>2, <2>3, <2>4 DEF RepliesAs
<1> QED
  BY <1>2, <1>4, <1>5 DEF Lost

-----------------------------------------------------------------------------
(* Requests and stacks stay of the kinds there are.                        *)

LEMMA SentWaits ==
  ASSUME EditorInv, Waits(ToSet(flight), ToSet(held)), NEW R, IsSeq(R), Send(R)
  PROVE  Waits(ToSet(flight'), ToSet(held'))
  BY SentWhere, PostedAgrees DEF EditorInv, PostsWell

LEMMA StraightSends ==
  ASSUME EditorInv, Straight, NEW R, IsSeq(R), Send(R), opening' = opening, made' \in {made, made + 1},
         \A q \in ToSet(flight) \union ToSet(R) : Regular(q)',
         \A q \in ToSet(R) : Undoes(q) => \A r \in ToSet(flight) : ~Writes(q) \/ ~(r.kind = "create" /\ r.row.id = q.row.id),
         (\A k \in DOMAIN past : past[k].kind \in Recorded)',
         (\A k \in DOMAIN future : future[k].kind # "create")'
  PROVE  Straight'
<1>1. Waits(ToSet(flight'), ToSet(held'))
  BY SentWaits DEF Straight
<1>2. opening' \in Nat /\ opening' <= made'
  BY CreatedSoFar DEF Straight
<1>3. PICK A, B : SendsAs(R, A, B)
  BY SentAs
<1>4. PICK F : F = ToSet(flight')
  OBVIOUS
<1>5. PICK H : H = ToSet(held')
  OBVIOUS
<1>6. \A q \in F : Regular(q)'
  BY <1>3, <1>4 DEF SendsAs
<1>7. \A q \in H : ~Undoes(q)
  <2>1. PICK W : W = {p \in DOMAIN R : AsksCreation(ToSet(flight), R[p])}
    OBVIOUS
  <2>2. PICK C : C = Picked(R, W)
    OBVIOUS
  <2>3. held' = held \o C /\ W \subseteq DOMAIN R
    BY <2>1, <2>2, SentWhere DEF Posts
  <2>4. ToSet(C) = {R[p] : p \in W} /\ IsSeq(C)
    BY <2>2, <2>3, PickedIs, SetOfPicked, Zenon
  <2>5. H = ToSet(held) \union ToSet(C)
    BY <1>5, <2>3, <2>4, SetOfCat DEF EditorInv
  <2>6. ASSUME NEW p \in W PROVE ~Undoes(R[p])
    <3>1. R[p] \in ToSet(R) /\ Writes(R[p]) /\ \E r \in ToSet(flight) : r.kind = "create" /\ r.row.id = R[p].row.id
      BY <2>1 DEF ToSet, AsksCreation
    <3> QED
      BY <3>1
  <2> QED
    BY <2>4, <2>5, <2>6 DEF Straight
<1> QED
  BY <1>1, <1>2, <1>4, <1>5, <1>6, <1>7 DEF Straight

Plain(q) == q.by = "user" /\ ~Brings(q) /\ q.state = "sent"

LEMMA GestureStraight ==
  ASSUME EditorInv, Straight, NEW R, IsSeq(R), Send(R), UNCHANGED <<history, opening>>, made' \in {made, made + 1},
         \A q \in ToSet(R) : Plain(q)
  PROVE  Straight'
<1>1. past' = past /\ future' = future /\ applying' = applying
  BY DEF history
<1>2. \A q \in ToSet(flight) : Regular(q)'
  BY <1>1 DEF Straight, Regular, UndoOf
<1>3. \A q \in ToSet(R) : Regular(q)' /\ ~Undoes(q)
  BY DEF Plain, Regular, Undoes
<1> QED
  BY <1>1, <1>2, <1>3, StraightSends DEF Straight

\* Nothing but the store and what the user sees of it changes.
LEMMA QuietStraight ==
  ASSUME Straight, UNCHANGED <<history, flight, held, opening, made>>
  PROVE  Straight' /\ Deeds' = Deeds /\ (Lost => Lost')
<1>1. past' = past /\ future' = future /\ applying' = applying /\ flight' = flight /\ held' = held
  BY DEF history
<1>2. Straight'
  BY <1>1 DEF Straight, Regular, UndoOf
<1>3. Deeds' = Deeds
  BY <1>1 DEF Deeds
<1>4. Lost => Lost'
  BY <1>1 DEF Lost, UndoMeetsGesture, Precedes, Takes, HeldDelete
<1> QED
  BY <1>2, <1>3, <1>4

\* While no undo is under way there is no request of one.
LEMMA NoneUndoing ==
  ASSUME EditorInv, applying = Idle
  PROVE  \A q \in ToSet(flight) : ~Undoes(q)
<1>1. ASSUME NEW i \in DOMAIN flight PROVE ~Undoes(flight[i])
  BY SentOnTheWire DEF OfUndo
<1> QED
  BY <1>1 DEF ToSet

\* No two requests of undos are under way.
LEMMA UndoIsAlone ==
  ASSUME EditorInv, NEW i \in DOMAIN flight, Undoes(flight[i])
  PROVE  \A q \in Rest(flight, i) \union ToSet(held) : ~Undoes(q)
<1>1. ASSUME NEW j \in DOMAIN flight, Undoes(flight[j]) PROVE j = i
  <2>1. /\ <<1, i>> \in DOMAIN UnderWay /\ UnderWay[<<1, i>>] = flight[i]
        /\ <<1, j>> \in DOMAIN UnderWay /\ UnderWay[<<1, j>>] = flight[j]
    BY SentOnTheWire
  <2>2. <<1, i>> = <<1, j>>
    BY <1>1, <2>1 DEF EditorInv, Sound, OneUndo
  <2> QED
    BY <2>2
<1>2. ASSUME NEW j \in DOMAIN held, Undoes(held[j]) PROVE FALSE
  <2>1. /\ <<1, i>> \in DOMAIN UnderWay /\ UnderWay[<<1, i>>] = flight[i]
        /\ <<2, j>> \in DOMAIN UnderWay /\ UnderWay[<<2, j>>] = held[j]
    BY SentOnTheWire, BesideIs DEF UnderWay
  <2>2. <<1, i>> = <<2, j>>
    BY <1>2, <2>1 DEF EditorInv, Sound, OneUndo
  <2> QED
    BY <2>2
<1> QED
  BY <1>1, <1>2 DEF ToSet, Rest

LEMMA LastOf ==
  ASSUME NEW s, IsSeq(s), s # <<>>
  PROVE  Last(s) = s[Len(s)] /\ Len(s) \in DOMAIN s
  BY OneLess

\* Taking an entry off, or putting one on, leaves the others.
LEMMA StackKinds ==
  ASSUME NEW s, IsSeq(s), NEW op
  PROVE  /\ \A k \in DOMAIN Append(s, op) : Append(s, op)[k] = op \/ \E l \in DOMAIN s : Append(s, op)[k] = s[l]
         /\ \A k \in DOMAIN Front(s) : \E l \in DOMAIN s : Front(s)[k] = s[l]
<1>1. PICK u : u = Append(s, op)
  OBVIOUS
<1>2. /\ Len(s) \in Nat /\ DOMAIN s = 1..Len(s) /\ DOMAIN u = 1..Len(s) + 1
      /\ u[Len(s) + 1] = op /\ \A i \in 1..Len(s) : u[i] = s[i]
  BY <1>1, OneMore
<1>3. \A k \in DOMAIN u : k \in 1..Len(s) \/ k = Len(s) + 1
  BY <1>2
<1>4. \A k \in DOMAIN u : u[k] = op \/ \E l \in DOMAIN s : u[k] = s[l]
  BY <1>2, <1>3
<1>5. \A k \in DOMAIN Front(s) : \E l \in DOMAIN s : Front(s)[k] = s[l]
  BY FrontIs
<1> QED
  BY <1>1, <1>4, <1>5

LEMMA FinishStraight ==
  ASSUME EditorInv, Straight, NEW way, NEW op, Finish(way, op),
         IF way = "undo" THEN op.kind # "create" ELSE op.kind \in Recorded
  PROVE  (\A k \in DOMAIN past : past[k].kind \in Recorded)' /\ (\A k \in DOMAIN future : future[k].kind # "create")'
<1>1. PICK p : p = past'
  OBVIOUS
<1>2. PICK f : f = future'
  OBVIOUS
<1>3. IsSeq(past) /\ IsSeq(future)
  BY StackIs
<1>4. CASE way = "undo"
  <2>1. p = Front(past) /\ f = Append(future, op)
    BY <1>1, <1>2, <1>4 DEF Finish
  <2>2. \A k \in DOMAIN p : p[k].kind \in Recorded
    BY <1>3, <1>4, <2>1, StackKinds DEF Straight
  <2>3. op.kind # "create"
    BY <1>4
  <2>4. \A k \in DOMAIN f : f[k] = op \/ \E l \in DOMAIN future : f[k] = future[l]
    BY <1>3, <2>1, StackKinds
  <2>5. \A k \in DOMAIN f : f[k].kind # "create"
    BY <2>3, <2>4 DEF Straight
  <2> QED
    BY <1>1, <1>2, <2>2, <2>5
<1>5. CASE way # "undo"
  <2>1. p = Append(past, op) /\ f = Front(future)
    BY <1>1, <1>2, <1>5 DEF Finish
  <2>2. \A k \in DOMAIN f : f[k].kind # "create"
    BY <1>3, <1>5, <2>1, StackKinds DEF Straight
  <2>3. op.kind \in Recorded
    BY <1>5
  <2>4. \A k \in DOMAIN p : p[k] = op \/ \E l \in DOMAIN past : p[k] = past[l]
    BY <1>3, <2>1, StackKinds
  <2>5. \A k \in DOMAIN p : p[k].kind \in Recorded
    BY <2>3, <2>4 DEF Straight
  <2> QED
    BY <1>1, <1>2, <2>2, <2>5
<1> QED
  BY <1>4, <1>5

LEMMA ApplyStraight ==
  ASSUME EditorInv, Straight, NEW way \in {"undo", "redo"}, NEW op, OfStack(way, op), Reverts(way, op),
         opening' = opening, made' \in {made, made + 1}
  PROVE  Straight'
<1>1. applying = Idle /\ op.kind # "delete" /\ \A q \in ToSet(flight) : ~Enters(q) /\ ~Undoes(q)
  BY NoneUndoing DEF Reverts, ToSet
<1>2. op.kind = "create" => way = "undo"
  <2>1. ASSUME op.kind = "create", way = "redo" PROVE FALSE
    <3>1. IsSeq(future) /\ future # <<>> /\ op = Last(future)
      BY <2>1, StackIs DEF OfStack
    <3> QED
      BY <2>1, <3>1, LastOf DEF Straight
  <2> QED
    BY <2>1
<1>3. \A q \in ToSet(flight) : Regular(q)'
  BY <1>1 DEF Straight, Regular
<1>4. ASSUME NEW kind, NEW ids, StartsUndo(way, kind, ids), Posting(way, kind, op.ids) \/ (kind = "delete" /\ Posting(way, kind, <<>>)),
             (kind = "delete" /\ op.kind = "create") \/ (kind = "reorder" /\ op.kind = "reorder")
      PROVE  Straight'
  <2>1. PICK r : /\ Send(<<r>>) /\ r.kind = kind /\ r.by = way /\ r.state = "sent"
                 /\ kind = "reorder" => r.ids = op.ids
    BY <1>4 DEF Posting
  <2>2. past' = past /\ future' = future /\ applying'.inverse.kind = kind
    BY <1>4 DEF StartsUndo
  <2>3. CASE way = "undo"
    <3>1. past' # <<>> /\ op = Last(past')
      BY <2>2, <2>3 DEF OfStack
    <3>2. Places(r)
      BY <2>1 DEF Places
    <3>3. UndoOf(r)'
      BY <1>4, <2>1, <2>2, <2>3, <3>1, <3>2 DEF UndoOf
    <3> QED
      <4>1. Regular(r)'
        BY <1>4, <2>1, <3>3 DEF Regular, Brings
      <4>2. IsSeq(<<r>>) /\ ToSet(<<r>>) = {r}
        BY OneIs DEF ToSet
      <4>3. \A q \in ToSet(flight) : ~(q.kind = "create" /\ q.row.id = r.row.id)
        BY <1>1 DEF Enters, Recorded, Straight, Regular
      <4> QED
        BY <1>3, <2>1, <2>2, <4>1, <4>2, <4>3, StraightSends DEF Straight
  <2>4. CASE way = "redo"
    <3>1. kind = "reorder"
      BY <1>2, <1>4, <2>4
    <3>2. UndoOf(r)'
      BY <2>1, <2>2, <2>4, <3>1 DEF UndoOf
    <3>3. Regular(r)'
      BY <2>1, <3>1, <3>2 DEF Regular, Brings
    <3>4. IsSeq(<<r>>) /\ ToSet(<<r>>) = {r}
      BY OneIs DEF ToSet
    <3>5. ~Writes(r)
      BY <2>1, <3>1 DEF Writes
    <3> QED
      BY <1>3, <2>1, <2>2, <3>3, <3>4, <3>5, StraightSends DEF Straight
  <2> QED
    BY <2>3, <2>4
<1>5. CASE op.kind = "create" /\ op.row.id \in Ids(store)
  BY <1>4, <1>5 DEF Reverts
<1>6. CASE op.kind = "reorder"
  BY <1>4, <1>6 DEF Reverts
<1>7. CASE op.kind = "create" /\ op.row.id \notin Ids(store)
  <2>1. UNCHANGED <<flight, held>>
    BY <1>7 DEF Reverts
  <2>2. PICK row : Finish(way, Op("delete", row, <<>>))
    BY <1>7 DEF Reverts
  <2>3. past # <<>>
    BY <1>2, <1>7 DEF OfStack
  <2>4. Op("delete", row, <<>>).kind = "delete"
    BY DEF Op
  <2>5. (\A k \in DOMAIN past : past[k].kind \in Recorded)' /\ (\A k \in DOMAIN future : future[k].kind # "create")'
    BY <1>2, <1>7, <2>2, <2>3, <2>4, FinishStraight DEF Recorded
  <2>6. flight' = flight /\ held' = held /\ opening' \in Nat /\ opening' <= made'
    BY <2>1, CreatedSoFar DEF Straight
  <2> QED
    BY <1>3, <2>5, <2>6 DEF Straight
<1> QED
  BY <1>5, <1>6, <1>7 DEF Reverts

-----------------------------------------------------------------------------
(* What the server does to the requests.                                   *)

\* A row that is listed after a reorder is at its place in the list.
LEMMA ReorderedPlaces ==
  ASSUME NEW t, NEW n, IsTable(t, n), NEW ids, IsPlaces(ids), NEW q, q.ids = ids, q.rows = Adopted(Reordered(t, ids))
  PROVE  Places(q)
<1>1. PICK u : u = Reordered(t, ids)
  OBVIOUS
<1>2. IsTable(u, n) /\ DOMAIN u = DOMAIN t
  BY <1>1, ReorderedIs
<1>3. PICK rows : rows = Adopted(u)
  OBVIOUS
<1>4. ASSUME NEW k \in DOMAIN rows, NEW m \in DOMAIN ids, ids[m] = rows[k].id
      PROVE  rows[k].index = (CHOOSE i \in DOMAIN ids : ids[i] = rows[k].id) - 1
  <2>1. PICK b : b = ListBlocks(u)[k]
    OBVIOUS
  <2>2. DOMAIN rows = DOMAIN ListBlocks(u) /\ rows[k] = StoreRow(b, u[b].html, u[b].type, u[b].index)
    BY <1>3, <2>1 DEF Adopted
  <2>3. rows[k].id = b /\ rows[k].index = u[b].index
    BY <2>2 DEF StoreRow
  <2>4. b \in DOMAIN t
    BY <1>2, <2>1, <2>2, ListIs
  <2>5. u[b] = [t[b] EXCEPT !.index = (CHOOSE i \in DOMAIN ids : ids[i] = b) - 1]
    BY <1>1, <1>4, <2>3, <2>4 DEF Reordered
  <2>6. t[b] = [html |-> t[b].html, type |-> t[b].type, index |-> t[b].index, rowid |-> t[b].rowid]
    BY <2>4 DEF IsTable, IsTableRow
  <2>7. u[b].index = (CHOOSE i \in DOMAIN ids : ids[i] = b) - 1
    BY <2>5, <2>6
  <2> QED
    BY <2>3, <2>7
<1> QED
  BY <1>1, <1>3, <1>4 DEF Places

LEMMA AnswerIsAlike ==
  ASSUME EditorInv, NEW i \in DOMAIN flight, NEW state, NEW rows, Answer(i, state, rows)
  PROVE  Alike(flight'[i], flight[i])
<1>1. PICK r : r = flight[i]
  OBVIOUS
<1>2. r = [kind |-> r.kind, row |-> r.row, old |-> r.old, ids |-> r.ids,
           prev |-> r.prev, by |-> r.by, state |-> r.state, rows |-> r.rows]
  BY <1>1, ToldApart DEF IsRequest
<1>3. flight'[i] = [r EXCEPT !.state = state, !.rows = rows]
  BY <1>1 DEF Answer
<1>4. flight'[i].prev = r.prev
  BY <1>2, <1>3
<1> QED
  BY <1>1, <1>4, AnsweredIs DEF Alike

\* How the server answers a request.
AnswersWell(i) ==
  \E state, rows :
    /\ Answer(i, state, rows)
    /\ flight[i].kind = "reorder" => state = "done" /\ Places(flight'[i])
LEMMA ServesWell ==
  ASSUME EditorInv, NEW i \in DOMAIN flight, Serve(i)
  PROVE  /\ UNCHANGED <<store, held, history, opening, made>>
         /\ AnswersWell(i) \/ (flight[i].kind = "update" /\ flight' = RemoveAt(flight, i))
<1>1. UNCHANGED <<store, held, history, opening, made>>
  BY DEF Serve, bounds
<1>2. PICK q : q = flight[i]
  OBVIOUS
<1>3. CASE q.kind = "reorder"
  <2>1. PICK rows : rows = Adopted(Reordered(table, q.ids))
    OBVIOUS
  <2>2. Answer(i, "done", rows)
    BY <1>2, <1>3, <2>1 DEF Serve, ReorderBlocks
  <2>3. flight'[i].ids = q.ids /\ flight'[i].rows = rows
    BY <1>2, <2>2, AnsweredIs
  <2>4. IsPlaces(q.ids) /\ IsTable(table, made)
    BY <1>2, ToldApart DEF IsRequest, EditorInv
  <2>5. PICK r : r = flight'[i]
    OBVIOUS
  <2>6. Places(r)
    BY <2>1, <2>3, <2>4, <2>5, ReorderedPlaces
  <2> QED
    BY <1>1, <1>2, <2>2, <2>5, <2>6 DEF AnswersWell
<1>4. CASE q.kind # "reorder" /\ \E state, rows : Answer(i, state, rows)
  BY <1>1, <1>2, <1>4 DEF AnswersWell
<1>5. CASE q.kind = "update" /\ ServeUpdate(i)
  BY <1>1, <1>2, <1>5 DEF ServeUpdate
<1>6. q.kind = "reorder" \/ (\E state, rows : Answer(i, state, rows)) \/ (q.kind = "update" /\ ServeUpdate(i))
  BY <1>2, Zenon DEF Serve
<1> QED
  BY <1>2, <1>3, <1>4, <1>5, <1>6

\* The same gestures' requests are on the wire, in the same order.
Keeping ==
  /\ \A x : Retains(flight', flight, x)
  /\ EntriesOf(ToSet(flight')) = EntriesOf(ToSet(flight))
LEMMA ServeKeepsGestures ==
  ASSUME EditorInv, NEW i \in DOMAIN flight, Serve(i)
  PROVE  Keeping
<1>1. CASE AnswersWell(i)
  <2>1. PICK g : g = flight'
    OBVIOUS
  <2>2. DOMAIN g = DOMAIN flight /\ \A j \in DOMAIN flight : Alike(g[j], flight[j])
    BY <1>1, <2>1, AnsweredIs, AnswerIsAlike DEF AnswersWell, Alike
  <2>3. \A x : Retains(g, flight, x)
    BY <2>2, RetainsSame
  <2>4. \A q \in ToSet(flight) : \E r \in ToSet(g) : Alike(r, q)
    BY <2>2 DEF ToSet
  <2>5. \A r \in ToSet(g) : \E q \in ToSet(flight) : Alike(r, q)
    BY <2>2 DEF ToSet
  <2>6. EntriesOf(ToSet(flight)) = EntriesOf(ToSet(g))
    BY <2>4, <2>5, EntriesSame
  <2> QED
    BY <2>1, <2>3, <2>6 DEF Keeping
<1>2. CASE flight[i].kind = "update" /\ flight' = RemoveAt(flight, i)
  <2>1. PICK g : g = flight'
    OBVIOUS
  <2>2. ~Enters(flight[i])
    BY <1>2 DEF Enters, Recorded
  <2>3. Retains(g, flight, i) /\ ToSet(g) = Rest(flight, i) /\ ToSet(flight) = Rest(flight, i) \union {flight[i]}
    BY <1>2, <2>1, RetainsRest, SetOfRest DEF EditorInv
  <2>4. \A x : Retains(g, flight, x)
    BY <2>2, <2>3, RetainsAll
  <2>5. EntriesOf(ToSet(flight)) = EntriesOf(ToSet(g)) \union EntriesOf({flight[i]}) /\ EntriesOf({flight[i]}) = {}
    BY <2>2, <2>3, EntriesJoin DEF EntriesOf
  <2> QED
    BY <2>1, <2>4, <2>5 DEF Keeping
<1> QED
  BY <1>1, <1>2, ServesWell

LEMMA ServeStraight ==
  ASSUME EditorInv, Straight, NEW i \in DOMAIN flight, Serve(i)
  PROVE  Straight' /\ Deeds' = Deeds /\ (Lost => Lost')
<1>1. /\ past' = past /\ future' = future /\ applying' = applying /\ held' = held
      /\ opening' = opening /\ made' = made
  BY ServesWell DEF history
<1>2. PICK F : F = ToSet(flight')
  OBVIOUS
<1>3. Keeping
  BY ServeKeepsGestures
<1>4. Deeds' = Deeds
  BY <1>1, <1>3 DEF Deeds, Keeping
<1>5. Lost => Lost'
  <2>1. HeldStill(0)
    BY <1>1 DEF HeldStill, HeldDelete
  <2> QED
    BY <1>1, <1>3, <2>1, StackIs, LostStill DEF Keeping, history
<1>6. (\A q \in F : Regular(q)') /\ Waits(F, ToSet(held))
  <2>1. CASE AnswersWell(i)
    <3>1. PICK state, rows : Answer(i, state, rows) /\ (flight[i].kind = "reorder" => state = "done" /\ Places(flight'[i]))
      BY <2>1 DEF AnswersWell
    <3>2. PICK r : r = flight'[i]
      OBVIOUS
    <3>3. /\ F = Rest(flight, i) \union {r} /\ ToSet(flight) = Rest(flight, i) \union {flight[i]}
      BY <1>2, <3>1, <3>2, AnsweredIs, AnsweredSet, SetOfRest DEF EditorInv
    <3>4. /\ r.kind = flight[i].kind /\ r.row = flight[i].row /\ r.by = flight[i].by /\ r.ids = flight[i].ids
          /\ r.state = state
      BY <3>1, <3>2, AnsweredIs
    <3>5. r.kind = "reorder" => r.state = "done" /\ Places(r)
      BY <3>1, <3>2, <3>4
    <3>6. Regular(flight[i])
      BY <3>3 DEF Straight
    <3>7. Regular(r)'
      BY <1>1, <3>4, <3>5, <3>6 DEF Regular, Brings, Undoes, UndoOf
    <3>8. \A q \in Rest(flight, i) : Regular(q)'
      BY <1>1, <3>3 DEF Straight, Regular, UndoOf
    <3>9. Waits(F, ToSet(held))
      BY <3>3, <3>4 DEF Straight, Waits
    <3> QED
      BY <3>3, <3>7, <3>8, <3>9
  <2>2. CASE flight[i].kind = "update" /\ flight' = RemoveAt(flight, i)
    <3>1. F = Rest(flight, i) /\ ToSet(flight) = Rest(flight, i) \union {flight[i]}
      BY <1>2, <2>2, SetOfRest DEF EditorInv
    <3>2. Waits(F, ToSet(held))
      BY <1>2, <2>2, GoneWaits DEF Straight
    <3> QED
      BY <1>1, <3>1, <3>2 DEF Straight, Regular, UndoOf
  <2> QED
    BY <2>1, <2>2, ServesWell
<1> QED
  BY <1>1, <1>2, <1>4, <1>5, <1>6 DEF Straight

LEMMA ReplyStraight ==
  ASSUME EditorInv, CalmInv, ~misread, ~refused, Straight, NEW i \in DOMAIN flight, RepliesAs(i)
  PROVE  Straight'
<1>1. PICK q : q = flight[i]
  OBVIOUS
<1>2. GoesOut(i) /\ made' = made /\ opening' = opening /\ Orderly
  BY CleanIsOrderly DEF RepliesAs
<1>3. q \in ToSet(flight) /\ ToSet(flight) = Rest(flight, i) \union {q} /\ Regular(q)
  BY <1>1, SetOfRest DEF EditorInv, Straight
<1>4. PICK F : F = ToSet(flight')
  OBVIOUS
<1>5. PICK H : H = ToSet(held')
  OBVIOUS
<1>6. (\A r \in F : r \in Rest(flight, i) \/ r \in ToSet(held)) /\ H \subseteq ToSet(held) /\ Waits(F, H)
  BY <1>2, <1>4, <1>5 DEF GoesOut, Straight
<1>7. \A r \in ToSet(held) : Writes(r) /\ ~Undoes(r)
  BY <1>2 DEF Straight, Orderly, InTurn
<1>8. \A r \in ToSet(held) : Regular(r)'
  BY <1>7 DEF Regular, Writes, Brings
<1>9. ASSUME \A r \in Rest(flight, i) : ~Undoes(r) PROVE \A r \in F : Regular(r)'
  BY <1>3, <1>6, <1>8, <1>9 DEF Straight, Regular
<1>10. ASSUME (\A r \in F : Regular(r)'),
              (\A k \in DOMAIN past : past[k].kind \in Recorded)' /\ (\A k \in DOMAIN future : future[k].kind # "create")'
       PROVE  Straight'
  BY <1>2, <1>4, <1>5, <1>6, <1>7, <1>10 DEF Straight
<1>11. CASE Recording(q)
  <2>1. \A r \in Rest(flight, i) : ~Undoes(r)
    BY <1>3, <1>11, NoneUndoing DEF Recording
  <2>2. PICK e : e = EntryOf(q)
    OBVIOUS
  <2>3. e.kind \in Recorded
    BY <1>11, <2>2 DEF Recording, Enters, Recorded, EntryOf, Op
  <2>4. PICK p : p = past'
    OBVIOUS
  <2>5. p = Append(past, e) /\ future' = <<>>
    BY <1>11, <2>2, <2>4 DEF Recording
  <2>6. \A k \in DOMAIN p : p[k] = e \/ \E l \in DOMAIN past : p[k] = past[l]
    BY <2>5, StackIs, StackKinds
  <2>7. \A k \in DOMAIN p : p[k].kind \in Recorded
    BY <2>3, <2>6 DEF Straight
  <2> QED
    BY <1>9, <1>10, <2>1, <2>4, <2>5, <2>7
<1>12. CASE Undoing(q) \/ Redoing(q)
  <2>1. \A r \in Rest(flight, i) : ~Undoes(r)
    BY <1>1, <1>12, UndoIsAlone DEF Undoing, Redoing, Undoes
  <2>2. PICK way : way = q.by
    OBVIOUS
  <2>3. Finish(way, applying.inverse) /\ UndoOf(q)
    BY <1>12, <2>2 DEF Undoing, Redoing
  <2>4. IF way = "undo" THEN applying.inverse.kind # "create" ELSE applying.inverse.kind \in Recorded
    BY <2>2, <2>3 DEF UndoOf, Recorded
  <2> QED
    BY <1>9, <1>10, <2>1, <2>3, <2>4, FinishStraight
<1>13. CASE UNCHANGED history
  <2>1. past' = past /\ future' = future /\ applying' = applying
    BY <1>13 DEF history
  <2>2. \A r \in Rest(flight, i) : Regular(r)'
    BY <1>3, <2>1 DEF Straight, Regular, UndoOf
  <2> QED
    BY <1>6, <1>8, <1>10, <2>1, <2>2 DEF Straight
<1> QED
  BY <1>1, <1>11, <1>12, <1>13 DEF RepliesAs

-----------------------------------------------------------------------------
(* What the user does leads on.                                            *)

\* The rows of u are where rows of s were.
Sits(u, s) == \A k \in DOMAIN u : \E i \in DOMAIN s : u[k].id = s[i].id /\ u[k].index = s[i].index

LEMMA SitsUnshuffled ==
  ASSUME NEW E, NEW s, NEW n, Unshuffled(E, s, n), NEW u, Sits(u, s)
  PROVE  Unshuffled(E, u, n)
<1>1. Climbing(u, n)
  <2>1. ASSUME NEW i \in DOMAIN u, NEW j \in DOMAIN u, u[i].id \in 1..n, u[j].id \in 1..n, u[i].id < u[j].id
        PROVE  u[i].index < u[j].index
    <3>1. PICK k \in DOMAIN s : u[i].id = s[k].id /\ u[i].index = s[k].index
      BY DEF Sits
    <3>2. PICK l \in DOMAIN s : u[j].id = s[l].id /\ u[j].index = s[l].index
      BY DEF Sits
    <3> QED
      BY <2>1, <3>1, <3>2 DEF Unshuffled, Climbing
  <2> QED
    BY <2>1 DEF Climbing
<1>2. ASSUME NEW row, FitsBack(row, s, n) PROVE FitsBack(row, u, n)
  <2>1. ASSUME row.id \in 1..n, NEW i \in DOMAIN u, u[i].id \in 1..n
        PROVE  /\ u[i].id < row.id => u[i].index < row.index
               /\ row.id < u[i].id => row.index <= u[i].index
    <3>1. PICK k \in DOMAIN s : u[i].id = s[k].id /\ u[i].index = s[k].index
      BY DEF Sits
    <3> QED
      BY <1>2, <2>1, <3>1 DEF FitsBack
  <2> QED
    BY <2>1 DEF FitsBack
<1> QED
  BY <1>1, <1>2 DEF Unshuffled

LEMMA LedStays ==
  ASSUME EditorInv, Led, UNCHANGED history, opening' = opening, Deeds' = Deeds,
         Ids(store') = Ids(store), Sits(store', store),
         \A q \in ToSet(flight') : ~Undoes(q) \/ \E r \in ToSet(flight) : r.by = q.by /\ r.kind = q.kind
  PROVE  Led'
<1>1. PICK s : s = store'
  OBVIOUS
<1>2. Ids(s) = Ids(store) /\ Sits(s, store) /\ past' = past /\ applying' = applying
  BY <1>1 DEF history
<1>3. LedBy(Deeds, s, past, opening)
  BY <1>2, SitsUnshuffled DEF Led, LedBy
<1>4. PICK F : F = ToSet(flight')
  OBVIOUS
<1>5. Awaited(F, s, past, applying.inverse, opening)
  BY <1>2, <1>4 DEF Led, Awaited, Undoes
<1> QED
  BY <1>1, <1>2, <1>3, <1>4, <1>5 DEF Led

\* A gesture's requests, and what is led to with their entries.
LEMMA GestureLeads ==
  ASSUME EditorInv, Led, UNCHANGED history, opening' = opening, NEW R, IsSeq(R), Send(R), \A q \in ToSet(R) : Plain(q),
         NEW E, E = EntriesOf(ToSet(R)), NEW s, s = store', LedBy(Deeds \union E, s, past, opening),
         Ids(s) \subseteq Ids(store) \/ applying = Idle
  PROVE  Led'
<1>1. past' = past /\ applying' = applying
  BY DEF history
<1>2. Deeds' = Deeds \union E
  BY <1>1, SentDeeds
<1>3. PICK F : F = ToSet(flight')
  OBVIOUS
<1>4. PICK A, B : SendsAs(R, A, B)
  BY SentAs
<1>5. F \subseteq ToSet(flight) \union ToSet(R)
  BY <1>3, <1>4 DEF SendsAs
<1>6. Awaited(F, s, past, applying.inverse, opening)
  <2>1. CASE Ids(s) \subseteq Ids(store)
    BY <1>5, <2>1 DEF Led, Awaited, Plain
  <2>2. CASE applying = Idle
    BY <1>5, <2>2, NoneUndoing DEF Awaited, Plain, Undoes
  <2> QED
    BY <2>1, <2>2
<1> QED
  BY <1>1, <1>2, <1>3, <1>6 DEF Led

\* A new block, with room made for it.
LEMMA CreatedLed ==
  ASSUME NEW E, NEW s, IsRows(s), NEW p, NEW n, LedBy(E, s, p, n), NEW row, IsRow(row), row.id \notin 1..n,
         \A taken : ~Took(E, taken), NEW kept, IsRows(kept), Ids(kept) = Ids(s), Sits(kept, s),
         NEW u, Inserts(u, kept, row), Ids(u) = Ids(s) \union {row.id}, NEW e, e.kind = "create", e.row = row
  PROVE  LedBy(E \union {e}, u, p, n)
<1>1. \A taken : ~Took(E \union {e}, taken)
  BY DEF Took
<1>2. \A b : Makes(E \union {e}, b) <=> Makes(E, b) \/ b = row.id
  BY DEF Makes
<1>3. Everyone(E \union {e}, Ids(u), n)
  BY <1>1, <1>2 DEF LedBy, Everyone
<1>4. ASSUME Unshuffled(E, s, n) PROVE Unshuffled(E \union {e}, u, n)
  <2>1. Climbing(kept, n)
    BY <1>4, SitsUnshuffled DEF Unshuffled
  <2>2. ASSUME NEW i \in DOMAIN u, NEW j \in DOMAIN u, u[i].id \in 1..n, u[j].id \in 1..n, u[i].id < u[j].id
        PROVE  u[i].index < u[j].index
    <3>1. DOMAIN kept = 1..Len(kept) /\ DOMAIN u = 1..Len(kept) + 1 /\ Len(kept) \in Nat /\ u[Len(kept) + 1] = row
      BY DEF Inserts
    <3>2. i \in DOMAIN kept /\ j \in DOMAIN kept
      BY <2>2, <3>1
    <3>3. /\ u[i].id = kept[i].id /\ u[i].index = Up(kept[i].index, row.index)
          /\ u[j].id = kept[j].id /\ u[j].index = Up(kept[j].index, row.index)
      BY <3>1, <3>2 DEF Inserts
    <3>4. kept[i].index < kept[j].index
      BY <2>1, <2>2, <3>2, <3>3 DEF Climbing
    <3>5. kept[i].index \in Int /\ kept[j].index \in Int /\ row.index \in Int
      BY <3>2 DEF IsRows, IsRow
    <3> QED
      BY <3>3, <3>4, <3>5 DEF Up
  <2>3. Climbing(u, n)
    BY <2>2 DEF Climbing
  <2> QED
    BY <1>1, <1>4, <2>3 DEF Unshuffled
<1> QED
  BY <1>3, <1>4 DEF LedBy

\* A block that goes.
LEMMA DeletedLed ==
  ASSUME NEW E, NEW s, IsRows(s), NEW p, NEW n, LedBy(E, s, p, n), NEW c \in Ids(s),
         NEW kept, Ids(kept) = Ids(s), Sits(kept, s), NEW u, Sits(u, kept), Ids(u) = Ids(s) \ {c},
         NEW e, e.kind = "delete", e.row = RowIn(s, c)
  PROVE  LedBy(E \union {e}, u, p, n)
<1>1. \A b : Makes(E \union {e}, b) <=> Makes(E, b)
  BY DEF Makes
<1>2. \A row : Took(E \union {e}, row) <=> Took(E, row) \/ row = RowIn(s, c)
  BY DEF Took
<1>3. PICK j \in DOMAIN s : s[j].id = c /\ RowIn(s, c) = s[j]
  BY RowOf
<1>4. Everyone(E \union {e}, Ids(u), n)
  <2>1. \A b \in 1..n : b \in Ids(u) \/ \E row : Took(E \union {e}, row) /\ row.id = b
    BY <1>2, <1>3 DEF LedBy, Everyone
  <2>2. \A row : Took(E \union {e}, row) => row.id \notin Ids(u) /\ (row.id \in 1..n \/ Makes(E, row.id))
    BY <1>2, <1>3 DEF LedBy, Everyone
  <2> QED
    BY <1>1, <2>1, <2>2 DEF LedBy, Everyone
<1>5. ASSUME Unshuffled(E, s, n) PROVE Unshuffled(E \union {e}, u, n)
  <2>1. Sits(u, s)
    BY DEF Sits
  <2>2. Unshuffled(E, u, n)
    BY <1>5, <2>1, SitsUnshuffled
  <2>3. FitsBack(s[j], u, n)
    <3>1. ASSUME s[j].id \in 1..n, NEW k \in DOMAIN u, u[k].id \in 1..n
          PROVE  /\ u[k].id < s[j].id => u[k].index < s[j].index
                 /\ s[j].id < u[k].id => s[j].index <= u[k].index
      <4>1. PICK i \in DOMAIN s : u[k].id = s[i].id /\ u[k].index = s[i].index
        BY <2>1 DEF Sits
      <4>2. s[i].index \in Int /\ s[j].index \in Int
        BY DEF IsRows, IsRow
      <4> QED
        BY <1>5, <3>1, <4>1, <4>2 DEF Unshuffled, Climbing
    <3> QED
      BY <3>1 DEF FitsBack
  <2> QED
    BY <1>2, <1>3, <2>2, <2>3 DEF Unshuffled
<1> QED
  BY <1>4, <1>5 DEF LedBy

\* Blocks that nobody moved stand in the order they were loaded in.
LEMMA OrderAscends ==
  ASSUME NEW s, IsRows(s), OnceEach(s), NEW n \in Nat, Climbing(s, n), \A b \in 1..n : b \in Ids(s)
  PROVE  Ascending(Order(s), n)
<1>1. PICK ids : ids = Order(s)
  OBVIOUS
<1>2. /\ DOMAIN s = 1..Len(s) /\ DOMAIN ids = 1..Len(s) /\ Len(s) \in Nat
      /\ \A i \in DOMAIN s : Rank(s, i) + 1 \in 1..Len(s) /\ ids[Rank(s, i) + 1] = s[i].id
      /\ \A k \in 1..Len(s) : \E i \in DOMAIN s : Rank(s, i) = k - 1 /\ ids[k] = s[i].id
  BY <1>1, RankedRows
<1>3. ASSUME NEW b \in 1..n PROVE \E k \in DOMAIN ids : ids[k] = b
  <2>1. PICK i \in DOMAIN s : s[i].id = b
    BY DEF Ids
  <2> QED
    BY <1>2, <2>1
<1>4. ASSUME NEW k \in DOMAIN ids, NEW l \in DOMAIN ids, ids[k] \in 1..n, ids[l] \in 1..n, k < l
      PROVE  ids[k] < ids[l]
  <2>1. PICK i \in DOMAIN s : Rank(s, i) = k - 1 /\ ids[k] = s[i].id
    BY <1>2
  <2>2. PICK j \in DOMAIN s : Rank(s, j) = l - 1 /\ ids[l] = s[j].id
    BY <1>2
  <2>3. k \in Int /\ l \in Int
    BY <1>2
  <2>4. Rank(s, i) < Rank(s, j) /\ Rank(s, i) # Rank(s, j)
    BY <1>4, <2>1, <2>2, <2>3
  <2>5. i \in Behind(s, j)
    BY <2>4, RanksDecide
  <2>6. s[i].index <= s[j].index /\ s[i].index \in Int /\ s[j].index \in Int
    BY <2>5 DEF Behind, IsRows, IsRow
  <2>7. ~(s[j].index < s[i].index)
    BY <2>6
  <2>8. ~(s[j].id < s[i].id)
    BY <1>4, <2>1, <2>2, <2>7 DEF Climbing
  <2>9. s[j].id # s[i].id
    BY <2>4 DEF OnceEach
  <2> QED
    BY <1>4, <2>1, <2>2, <2>8, <2>9
<1> QED
  BY <1>1, <1>3, <1>4 DEF Ascending

LEMMA LedAscends ==
  ASSUME NEW E, NEW s, IsRows(s), OnceEach(s), NEW p, NEW n \in Nat, LedBy(E, s, p, n), ~Shuffled(p),
         \A taken : ~Took(E, taken)
  PROVE  Ascending(Order(s), n)
  BY OrderAscends DEF LedBy, Everyone, Unshuffled

\* A move.
LEMMA MovedLed ==
  ASSUME NEW E, NEW s, IsRows(s), OnceEach(s), NEW p, NEW n \in Nat, LedBy(E, s, p, n), \A taken : ~Took(E, taken),
         NEW e, e.kind = "reorder", e.ids = Order(s)
  PROVE  LedBy(E \union {e}, s, p, n)
<1>1. \A b : Makes(E \union {e}, b) <=> Makes(E, b)
  BY DEF Makes
<1>2. \A row : Took(E \union {e}, row) <=> Took(E, row)
  BY DEF Took
<1>3. Everyone(E \union {e}, Ids(s), n)
  BY <1>1, <1>2 DEF LedBy, Everyone
<1>4. ~Shuffled(p) => Ascending(e.ids, n)
  BY LedAscends
<1> QED
  BY <1>2, <1>3, <1>4 DEF LedBy, Unshuffled

\* An entry that is taken off when its creation is gone from the store.
LEMMA UncreatedLed ==
  ASSUME NEW E, NEW s, NEW p, NEW n, LedBy(E, s, p, n), \A taken : ~Took(E, taken),
         IsSeq(p), p # <<>>, Last(p).kind = "create", Last(p).row.id \notin Ids(s),
         NEW D, E = D \union {Last(p)}
  PROVE  LedBy(D, s, Front(p), n)
<1>1. PICK f : f = Front(p)
  OBVIOUS
<1>2. PICK op : op = Last(p)
  OBVIOUS
<1>3. \A taken : ~Took(D, taken)
  BY DEF Took
<1>4. \A b : (Makes(D, b) => Makes(E, b)) /\ (Makes(E, b) => Makes(D, b) \/ b = op.row.id)
  BY <1>2 DEF Makes
<1>5. Everyone(D, Ids(s), n)
  BY <1>2, <1>3, <1>4 DEF LedBy, Everyone
<1>6. /\ Len(p) \in Nat \ {0} /\ DOMAIN p = 1..Len(p) /\ DOMAIN f = 1..Len(p) - 1
      /\ \A i \in 1..Len(p) - 1 : f[i] = p[i]
  BY <1>1, OneLess
<1>7. op = p[Len(p)]
  BY <1>2, OneLess
<1>8. ~Shuffled(f) => ~Shuffled(p)
  <2>1. \A k \in DOMAIN p : k \in DOMAIN f \/ k = Len(p)
    BY <1>6
  <2> QED
    BY <1>2, <1>6, <1>7, <2>1 DEF Shuffled
<1>9. \A k \in DOMAIN f : FirstMove(f, k) => FirstMove(p, k) /\ k \in DOMAIN p /\ f[k] = p[k]
  <2>1. ASSUME NEW k \in DOMAIN f, FirstMove(f, k) PROVE FirstMove(p, k) /\ k \in DOMAIN p /\ f[k] = p[k]
    <3>1. k \in DOMAIN p /\ f[k] = p[k]
      BY <1>6, <2>1
    <3>2. \A l \in DOMAIN p : l < k => l \in DOMAIN f /\ f[l] = p[l]
      BY <1>6, <2>1
    <3> QED
      BY <2>1, <3>1, <3>2 DEF FirstMove
  <2> QED
    BY <2>1
<1>10. Unshuffled(E, s, n) => Unshuffled(D, s, n)
  BY <1>3 DEF Unshuffled
<1> QED
  BY <1>1, <1>5, <1>8, <1>9, <1>10 DEF LedBy

\* Undo and redo find nothing taken.
LEMMA UndoneWithNothingTaken ==
  ASSUME EditorInv, Straight, ~Lost, NEW way \in {"undo", "redo"}, NEW op, OfStack(way, op), Reverts(way, op)
  PROVE  /\ \A row : ~Took(Deeds, row)
         /\ \A e \in Deeds : e \in ToSet(past)
<1>1. applying = Idle /\ op.kind # "delete" /\ \A j \in DOMAIN flight : ~Enters(flight[j])
  BY DEF Reverts
<1>2. IsSeq(past) /\ DOMAIN past = 1..Len(past) /\ Len(past) \in Nat
  BY StackIs
<1>3. ASSUME NEW m \in DOMAIN past, past[m].kind = "delete" PROVE FALSE
  <2>1. CASE way = "redo"
    BY <1>3, <2>1 DEF OfStack, Lost, Buried
  <2>2. CASE way = "undo"
    <3>1. past # <<>> /\ op = past[Len(past)]
      BY <1>2, <2>2, LastOf DEF OfStack
    <3>2. m # Len(past)
      BY <1>1, <1>3, <3>1
    <3>3. m < Len(past)
      BY <1>2, <1>3, <3>2
    <3> QED
      BY <1>3, <3>3 DEF Lost, Buried
  <2> QED
    BY <2>1, <2>2
<1> QED
  BY <1>1, <1>3, NothingTaken

LEMMA ApplyLeads ==
  ASSUME EditorInv, Unique, Straight, Lost \/ Led, NEW way \in {"undo", "redo"}, NEW op, OfStack(way, op), Reverts(way, op),
         opening' = opening
  PROVE  (Lost \/ Led)'
<1>1. CASE Lost
  BY <1>1, ApplyLost
<1>2. SUFFICES ASSUME ~Lost, Led PROVE Led'
  BY <1>1
<1>3. (\A row : ~Took(Deeds, row)) /\ \A e \in Deeds : e \in ToSet(past)
  BY <1>2, UndoneWithNothingTaken
<1>4. applying = Idle /\ \A q \in ToSet(flight) : ~Undoes(q)
  BY NoneUndoing DEF Reverts
<1>5. opening \in Nat /\ IsRows(store) /\ OnceEach(store) /\ IsSeq(past) /\ IsSeq(future)
  BY StackIs DEF Straight, EditorInv, Unique
<1>6. op.kind = "create" => way = "undo" /\ past # <<>> /\ op = Last(past)
  <2>1. ASSUME op.kind = "create", way = "redo" PROVE FALSE
    <3>1. future # <<>> /\ op = Last(future)
      BY <2>1 DEF OfStack
    <3> QED
      BY <1>5, <2>1, <3>1, LastOf DEF Straight
  <2> QED
    BY <2>1 DEF OfStack
<1>7. PICK F : F = ToSet(flight')
  OBVIOUS
<1>8. PICK s : s = store'
  OBVIOUS
<1>9. ASSUME NEW kind, NEW ids, NEW places, StartsUndo(way, kind, ids), Posting(way, kind, places)
      PROVE  /\ past' = past /\ Deeds' = Deeds /\ applying'.inverse.ids = ids
             /\ \A q \in F : ~Undoes(q) \/ (q.by = way /\ q.kind = kind)
  <2>1. PICK r : Send(<<r>>) /\ r.kind = kind /\ r.by = way
    BY <1>9 DEF Posting
  <2>2. past' = past /\ applying'.inverse.ids = ids
    BY <1>9 DEF StartsUndo
  <2>3. IsSeq(<<r>>) /\ ToSet(<<r>>) = {r}
    BY OneIs DEF ToSet
  <2>4. EntriesOf(ToSet(<<r>>)) = {}
    BY <2>1, <2>3 DEF EntriesOf, Enters
  <2>5. Deeds' = Deeds
    BY <2>1, <2>2, <2>3, <2>4, SentDeeds
  <2>6. PICK A, B : SendsAs(<<r>>, A, B)
    BY <2>1, <2>3, SentAs
  <2>7. F \subseteq ToSet(flight) \union {r}
    BY <1>7, <2>3, <2>6 DEF SendsAs
  <2> QED
    BY <1>4, <2>1, <2>2, <2>5, <2>7
<1>10. CASE op.kind = "create" /\ op.row.id \in Ids(store)
  <2>1. StartsUndo(way, "delete", <<>>) /\ Posting(way, "delete", <<>>) /\ s = Drop(store, op.row.id)
    BY <1>8, <1>10 DEF Reverts
  <2>2. past' = past /\ Deeds' = Deeds /\ \A q \in F : ~Undoes(q) \/ (q.by = way /\ q.kind = "delete")
    BY <1>9, <2>1
  <2>3. op \in ToSet(past)
    BY <1>5, <1>6, <1>10, OneLess
  <2>4. Makes(Deeds, op.row.id)
    BY <1>10, <2>3 DEF Deeds, Makes
  <2>5. Ids(s) = Ids(store) \ {op.row.id}
    BY <1>5, <2>1, DropIs
  <2>6. Sits(s, store)
    BY <1>5, <2>1, DropRows DEF Drops, Sits
  <2>7. Everyone(Deeds, Ids(s), opening)
    BY <1>2, <1>3, <2>4, <2>5 DEF Led, LedBy, Everyone
  <2>8. LedBy(Deeds, s, past, opening)
    BY <1>2, <2>6, <2>7, SitsUnshuffled DEF Led, LedBy
  <2>9. PICK inverse : inverse = applying'.inverse
    OBVIOUS
  <2>10. Awaited(F, s, past, inverse, opening)
    BY <1>6, <1>10, <2>2, <2>5 DEF Awaited, Undoes
  <2> QED
    BY <1>7, <1>8, <2>2, <2>8, <2>9, <2>10 DEF Led
<1>11. CASE op.kind = "create" /\ op.row.id \notin Ids(store)
  <2>1. s = store /\ flight' = flight /\ held' = held
    BY <1>8, <1>11 DEF Reverts
  <2>2. PICK row : Finish(way, Op("delete", row, <<>>))
    BY <1>11 DEF Reverts
  <2>3. past' = Front(past)
    BY <1>6, <1>11, <2>2 DEF Finish
  <2>4. PICK D : D = ToSet(Front(past)) \union EntriesOf(ToSet(flight)) \union EntriesOf(ToSet(held))
    OBVIOUS
  <2>5. Deeds' = D
    BY <2>1, <2>3, <2>4 DEF Deeds
  <2>6. Deeds = D \union {Last(past)}
    BY <1>5, <1>6, <1>11, <2>4, OneLess DEF Deeds
  <2>7. LedBy(D, store, Front(past), opening)
    BY <1>2, <1>3, <1>5, <1>6, <1>11, <2>6, UncreatedLed DEF Led
  <2>8. \A inverse, p : Awaited(ToSet(flight), store, p, inverse, opening)
    BY <1>4 DEF Awaited, Undoes
  <2>9. PICK inverse : inverse = applying'.inverse
    OBVIOUS
  <2> QED
    BY <1>8, <2>1, <2>3, <2>5, <2>7, <2>8, <2>9 DEF Led
<1>12. CASE op.kind = "reorder"
  <2>1. StartsUndo(way, "reorder", Order(store)) /\ Posting(way, "reorder", op.ids) /\ s = store
    BY <1>8, <1>12 DEF Reverts
  <2>2. PICK inverse : inverse = applying'.inverse
    OBVIOUS
  <2>3. /\ past' = past /\ Deeds' = Deeds /\ inverse.ids = Order(store)
        /\ \A q \in F : ~Undoes(q) \/ (q.by = way /\ q.kind = "reorder")
    BY <1>9, <2>1, <2>2
  <2>4. ~Shuffled(past) => Ascending(Order(store), opening)
    BY <1>2, <1>3, <1>5, LedAscends DEF Led
  <2>5. Awaited(F, store, past, inverse, opening)
    BY <2>3, <2>4 DEF Awaited, Undoes
  <2> QED
    BY <1>2, <1>7, <1>8, <2>1, <2>2, <2>3, <2>5 DEF Led
<1> QED
  BY <1>10, <1>11, <1>12 DEF Reverts

\* The rows a list puts at their places stand in the order of the list.
LEMMA PlacedClimbing ==
  ASSUME NEW q, Places(q), q.state = "done", IsPlaces(q.ids), NEW n, n \in Nat, Ascending(q.ids, n)
  PROVE  Climbing(q.rows, n)
<1> DEFINE at(b) == CHOOSE i \in DOMAIN q.ids : q.ids[i] = b
<1>1. ASSUME NEW k \in DOMAIN q.rows, q.rows[k].id \in 1..n
      PROVE  /\ at(q.rows[k].id) \in DOMAIN q.ids /\ q.ids[at(q.rows[k].id)] = q.rows[k].id
             /\ q.rows[k].index = at(q.rows[k].id) - 1 /\ at(q.rows[k].id) \in Int
  <2>1. PICK m \in DOMAIN q.ids : q.ids[m] = q.rows[k].id
    BY <1>1 DEF Ascending
  <2>2. q.rows[k].index = at(q.rows[k].id) - 1
    BY <2>1 DEF Places
  <2>3. at(q.rows[k].id) \in DOMAIN q.ids /\ q.ids[at(q.rows[k].id)] = q.rows[k].id
    BY <2>1
  <2> HIDE DEF at
  <2> QED
    BY <2>2, <2>3 DEF IsPlaces
<1> HIDE DEF at
<1>2. ASSUME NEW i \in DOMAIN q.rows, NEW j \in DOMAIN q.rows, q.rows[i].id \in 1..n, q.rows[j].id \in 1..n,
             q.rows[i].id < q.rows[j].id
      PROVE  q.rows[i].index < q.rows[j].index
  <2>1. PICK k : k = at(q.rows[i].id)
    OBVIOUS
  <2>2. PICK l : l = at(q.rows[j].id)
    OBVIOUS
  <2>3. /\ k \in DOMAIN q.ids /\ q.ids[k] = q.rows[i].id /\ q.rows[i].index = k - 1 /\ k \in Int
        /\ l \in DOMAIN q.ids /\ q.ids[l] = q.rows[j].id /\ q.rows[j].index = l - 1 /\ l \in Int
    BY <1>1, <1>2, <2>1, <2>2
  <2>4. ~(l < k) /\ l # k
    BY <1>2, <2>3 DEF Ascending
  <2> QED
    BY <2>3, <2>4
<1> QED
  BY <1>2 DEF Climbing

\* A stack with one entry more.
LEMMA MoreMoves ==
  ASSUME NEW p, IsSeq(p), NEW op, NEW n, \A k \in DOMAIN p : FirstMove(p, k) => Ascending(p[k].ids, n),
         op.kind = "reorder" /\ ~Shuffled(p) => Ascending(op.ids, n)
  PROVE  /\ \A k \in DOMAIN Append(p, op) : FirstMove(Append(p, op), k) => Ascending(Append(p, op)[k].ids, n)
         /\ Shuffled(Append(p, op)) <=> Shuffled(p) \/ op.kind = "reorder"
<1>1. PICK u : u = Append(p, op)
  OBVIOUS
<1>2. /\ Len(p) \in Nat /\ DOMAIN p = 1..Len(p) /\ DOMAIN u = 1..Len(p) + 1
      /\ u[Len(p) + 1] = op /\ \A i \in 1..Len(p) : u[i] = p[i]
  BY <1>1, OneMore
<1>3. \A k \in DOMAIN u : k \in DOMAIN p \/ k = Len(p) + 1
  BY <1>2
<1>4. \A k \in DOMAIN p : k \in DOMAIN u /\ u[k] = p[k] /\ k < Len(p) + 1
  BY <1>2
<1>5. Len(p) + 1 \in DOMAIN u
  BY <1>2
<1>6. Shuffled(u) <=> Shuffled(p) \/ op.kind = "reorder"
  BY <1>2, <1>3, <1>4, <1>5 DEF Shuffled
<1>7. ASSUME NEW k \in DOMAIN u, FirstMove(u, k) PROVE Ascending(u[k].ids, n)
  <2>1. CASE k \in DOMAIN p
    <3>1. FirstMove(p, k)
      BY <1>4, <1>7, <2>1 DEF FirstMove
    <3> QED
      BY <1>4, <2>1, <3>1
  <2>2. CASE k = Len(p) + 1
    <3>1. \A l \in DOMAIN p : p[l].kind # "reorder"
      BY <1>4, <1>7, <2>2 DEF FirstMove
    <3>2. ~Shuffled(p) /\ op.kind = "reorder"
      BY <1>2, <1>7, <2>2, <3>1 DEF FirstMove, Shuffled
    <3> QED
      BY <1>2, <2>2, <3>2
  <2> QED
    BY <1>3, <2>1, <2>2
<1> QED
  BY <1>1, <1>6, <1>7

\* A stack with its last entry, a move, taken off.
LEMMA UnmovedLed ==
  ASSUME NEW E, NEW s, NEW p, NEW n \in Nat, LedBy(E, s, p, n), IsSeq(p), p # <<>>, Last(p).kind = "reorder",
         NEW D, E = D \union {Last(p)}, \A taken : ~Took(E, taken), \A e \in D : e.kind = "reorder" => e \in ToSet(Front(p)),
         NEW q, q.state = "done", Places(q), q.ids = Last(p).ids, IsPlaces(q.ids), Ids(q.rows) = Ids(s)
  PROVE  LedBy(D, q.rows, Front(p), n)
<1>1. PICK f : f = Front(p)
  OBVIOUS
<1>2. PICK op : op = Last(p)
  OBVIOUS
<1>3. \A taken : ~Took(D, taken)
  BY DEF Took
<1>4. \A b : Makes(D, b) <=> Makes(E, b)
  BY DEF Makes
<1>5. Everyone(D, Ids(q.rows), n)
  BY <1>3, <1>4 DEF LedBy, Everyone
<1>6. /\ Len(p) \in Nat \ {0} /\ DOMAIN p = 1..Len(p) /\ DOMAIN f = 1..Len(p) - 1
      /\ \A i \in 1..Len(p) - 1 : f[i] = p[i]
  BY <1>1, OneLess
<1>7. op = p[Len(p)] /\ Len(p) \in DOMAIN p
  BY <1>2, OneLess
<1>8. \A l \in DOMAIN p : l < Len(p) => l \in DOMAIN f /\ f[l] = p[l]
  BY <1>6
<1>9. ASSUME ~Shuffled(f) PROVE Unshuffled(D, q.rows, n)
  <2>1. FirstMove(p, Len(p))
    BY <1>2, <1>7, <1>8, <1>9 DEF FirstMove, Shuffled
  <2>2. Ascending(q.ids, n)
    BY <1>2, <1>7, <2>1 DEF LedBy
  <2>3. Climbing(q.rows, n)
    BY <2>2, PlacedClimbing
  <2>4. \A e \in D : e.kind # "reorder"
    BY <1>1, <1>9 DEF Shuffled, ToSet
  <2> QED
    BY <1>3, <2>3, <2>4 DEF Unshuffled
<1>10. \A k \in DOMAIN f : FirstMove(f, k) => FirstMove(p, k) /\ k \in DOMAIN p /\ f[k] = p[k]
  <2>1. ASSUME NEW k \in DOMAIN f, FirstMove(f, k) PROVE FirstMove(p, k) /\ k \in DOMAIN p /\ f[k] = p[k]
    <3>1. k \in DOMAIN p /\ f[k] = p[k]
      BY <1>6, <2>1
    <3>2. \A l \in DOMAIN p : l < k => l \in DOMAIN f /\ f[l] = p[l]
      BY <1>6, <2>1
    <3> QED
      BY <2>1, <3>1, <3>2 DEF FirstMove
  <2> QED
    BY <2>1
<1> QED
  BY <1>1, <1>5, <1>9, <1>10 DEF LedBy

LEMMA ReplyLeads ==
  ASSUME EditorInv, CalmInv, ~misread, ~refused, Straight, Lost \/ Led, NEW i \in DOMAIN flight, Reply(i), RepliesAs(i), ~tangled'
  PROVE  (Lost \/ Led)'
<1>1. CASE Lost
  BY <1>1, ReplyLost
<1>2. SUFFICES ASSUME ~Lost, Led PROVE Led'
  BY <1>1
<1>3. PICK q : q = flight[i]
  OBVIOUS
<1>4. PICK s : s = store'
  OBVIOUS
<1>5. PICK F : F = ToSet(flight')
  OBVIOUS
<1>6. PICK p : p = past'
  OBVIOUS
<1>7. PICK H : H = ToSet(held')
  OBVIOUS
<1>8. PICK inverse : inverse = applying'.inverse
  OBVIOUS
<1>9. /\ GoesOut(i) /\ Ids(s) = Ids(store) /\ opening' = opening /\ opening \in Nat
      /\ q \in ToSet(flight) /\ ToSet(flight) = Rest(flight, i) \union {q} /\ Regular(q) /\ IsSeq(past) /\ Orderly
  BY <1>3, <1>4, SetOfRest, StackIs, CleanIsOrderly DEF RepliesAs, EditorInv, Straight
<1>10. /\ \A r \in F : r \in Rest(flight, i) \/ (r \in ToSet(held) /\ ~Undoes(r) /\ Writes(r))
       /\ EntriesOf(F) \union EntriesOf(H) = EntriesOf(Rest(flight, i)) \union EntriesOf(ToSet(held))
  BY <1>5, <1>7, <1>9 DEF GoesOut, Straight, Orderly, InTurn
<1>11. ASSUME \A r \in Rest(flight, i) : ~Undoes(r), LedBy(Deeds', s, p, opening) PROVE Led'
  <2>1. Awaited(F, s, p, inverse, opening)
    BY <1>10, <1>11 DEF Awaited, Undoes
  <2> QED
    BY <1>4, <1>5, <1>6, <1>8, <1>9, <1>11, <2>1 DEF Led
<1>12. CASE Recording(q)
  <2>1. \A r \in Rest(flight, i) : ~Undoes(r)
    BY <1>9, <1>12, NoneUndoing DEF Recording
  <2>2. PICK e : e = EntryOf(q)
    OBVIOUS
  <2>3. p = Append(past, e) /\ Enters(q) /\ (q.kind = "reorder" \/ s = store) /\ e.kind = q.kind
    BY <1>4, <1>6, <1>12, <2>2 DEF Recording, EntryOf, Op
  <2>4. ToSet(p) = ToSet(past) \union {e}
    BY <1>9, <2>3, OneMore
  <2>5. Deeds' = Deeds
    BY <1>3, <1>6, <1>9, <2>2, <2>3, <2>4, AnsweredDeeds
  <2>6. e \in Deeds
    BY <1>9, <2>2, <2>3 DEF Deeds, EntriesOf
  <2>7. e.kind = "reorder" /\ ~Shuffled(past) => Ascending(e.ids, opening)
    BY <1>2, <2>6 DEF Led, LedBy, Unshuffled
  <2>8. /\ \A k \in DOMAIN p : FirstMove(p, k) => Ascending(p[k].ids, opening)
        /\ Shuffled(p) <=> Shuffled(past) \/ e.kind = "reorder"
    BY <1>2, <1>9, <2>3, <2>7, MoreMoves DEF Led, LedBy
  <2>9. LedBy(Deeds, s, p, opening)
    BY <1>2, <1>9, <2>3, <2>8 DEF Led, LedBy
  <2> QED
    BY <1>11, <2>1, <2>5, <2>9
<1>13. ASSUME Undoes(q), q.by \in {"undo", "redo"}, UndoOf(q) PROVE
         /\ \A r \in Rest(flight, i) : ~Undoes(r)
         /\ (\A row : ~Took(Deeds, row)) /\ (\A e \in Deeds : e \in ToSet(past)) /\ ~Enters(q)
         /\ \A e \in EntriesOf(F) \union EntriesOf(H) : e.kind # "reorder"
  <2>1. applying # Idle
    BY <1>3, <1>13, SentOnTheWire DEF OfUndo
  <2>2. /\ (\A row : ~Took(Deeds, row)) /\ \A e \in Deeds : e \in ToSet(past)
        /\ \A j \in DOMAIN flight : ~Enters(flight[j])
    BY <1>2, <2>1, UndoFindsNothingTaken
  <2>3. \A r \in Rest(flight, i) : ~Enters(r)
    BY <2>2 DEF Rest
  <2>4. \A r \in ToSet(held) : Writes(r)
    BY <1>9 DEF Orderly, InTurn
  <2>5. \A e \in EntriesOf(Rest(flight, i)) \union EntriesOf(ToSet(held)) : e.kind # "reorder"
    <3>1. \A e \in EntriesOf(Rest(flight, i)) : FALSE
      BY <2>3 DEF EntriesOf
    <3>2. \A r \in ToSet(held) : EntryOf(r).kind # "reorder"
      BY <2>4 DEF EntryOf, Op, Writes
    <3> QED
      BY <3>1, <3>2 DEF EntriesOf
  <2>6. \A r \in Rest(flight, i) : ~Undoes(r)
    BY <1>3, <1>13, UndoIsAlone
  <2> QED
    BY <1>3, <1>10, <2>2, <2>5, <2>6
<1>14. CASE Undoing(q)
  <2>1. /\ q.by = "undo" /\ UndoOf(q) /\ Undoes(q) /\ p = Front(past) /\ past # <<>>
    BY <1>6, <1>14 DEF Undoing, UndoOf, Undoes, Finish
  <2>2. /\ \A r \in Rest(flight, i) : ~Undoes(r)
        /\ (\A row : ~Took(Deeds, row)) /\ (\A e \in Deeds : e \in ToSet(past)) /\ ~Enters(q)
        /\ \A e \in EntriesOf(F) \union EntriesOf(H) : e.kind # "reorder"
    BY <1>13, <2>1
  <2>3. PICK D : D = ToSet(p) \union (EntriesOf(F) \union EntriesOf(H))
    OBVIOUS
  <2>4. Deeds' = D
    BY <1>5, <1>6, <1>7, <2>3 DEF Deeds
  <2>5. Deeds = D \union {Last(past)}
    <3>1. EntriesOf(ToSet(flight)) = EntriesOf(Rest(flight, i))
      BY <1>9, <2>2 DEF EntriesOf
    <3>2. ToSet(past) = ToSet(p) \union {Last(past)}
      BY <1>9, <2>1, OneLess
    <3> QED
      BY <1>10, <2>3, <3>1, <3>2 DEF Deeds
  <2>6. CASE q.kind = "delete"
    <3>1. s = store /\ Last(past).kind = "create"
      BY <1>4, <1>14, <2>1, <2>6 DEF Undoing, UndoOf
    <3>2. Last(past).row.id \notin Ids(store)
      BY <1>2, <1>9, <2>1, <2>6 DEF Led, Awaited
    <3>3. LedBy(D, store, p, opening)
      BY <1>2, <1>9, <2>1, <2>2, <2>5, <3>1, <3>2, UncreatedLed DEF Led
    <3> QED
      BY <1>11, <2>2, <2>4, <3>1, <3>3
  <2>7. CASE q.kind = "reorder"
    <3>1. s = q.rows /\ q.state = "done" /\ Last(past).kind = "reorder" /\ q.ids = Last(past).ids /\ Places(q)
      BY <1>4, <1>14, <2>1, <2>7 DEF Undoing, UndoOf
    <3>2. IsPlaces(q.ids)
      BY <1>3, ToldApart DEF IsRequest
    <3>3. \A e \in D : e.kind = "reorder" => e \in ToSet(p)
      BY <2>2, <2>3
    <3>4. LedBy(D, s, p, opening)
      BY <1>2, <1>9, <2>1, <2>2, <2>5, <3>1, <3>2, <3>3, UnmovedLed DEF Led
    <3> QED
      BY <1>11, <2>2, <2>4, <3>4
  <2> QED
    BY <2>6, <2>7, <1>14 DEF Undoing
<1>15. CASE Redoing(q)
  <2>1. PICK e : e = applying.inverse
    OBVIOUS
  <2>2. q.by = "redo" /\ UndoOf(q) /\ Undoes(q) /\ p = Append(past, e) /\ e.kind = "reorder"
    BY <1>6, <1>15, <2>1 DEF Redoing, UndoOf, Undoes, Finish
  <2>3. /\ \A r \in Rest(flight, i) : ~Undoes(r)
        /\ (\A row : ~Took(Deeds, row)) /\ ~Enters(q)
    BY <1>13, <2>2
  <2>4. Deeds' = Deeds \union {e}
    <3>1. EntriesOf(ToSet(flight)) = EntriesOf(Rest(flight, i))
      BY <1>9, <2>3 DEF EntriesOf
    <3>2. ToSet(p) = ToSet(past) \union {e}
      BY <1>9, <2>2, OneMore
    <3>3. Deeds' = ToSet(p) \union EntriesOf(F) \union EntriesOf(H)
      BY <1>5, <1>6, <1>7 DEF Deeds
    <3> QED
      BY <1>10, <3>1, <3>2, <3>3 DEF Deeds
  <2>5. ~Shuffled(past) => Ascending(e.ids, opening)
    BY <1>2, <1>9, <2>1, <2>2 DEF Led, Awaited
  <2>6. /\ \A k \in DOMAIN p : FirstMove(p, k) => Ascending(p[k].ids, opening)
        /\ Shuffled(p)
    BY <1>2, <1>9, <2>2, <2>5, MoreMoves DEF Led, LedBy
  <2>7. \A b : Makes(Deeds \union {e}, b) <=> Makes(Deeds, b)
    BY <2>2 DEF Makes
  <2>8. \A row : Took(Deeds \union {e}, row) <=> Took(Deeds, row)
    BY <2>2 DEF Took
  <2>9. Everyone(Deeds \union {e}, Ids(s), opening)
    BY <1>2, <1>9, <2>7, <2>8 DEF Led, LedBy, Everyone
  <2>10. LedBy(Deeds \union {e}, s, p, opening)
    BY <2>6, <2>9 DEF LedBy
  <2> QED
    BY <1>11, <2>3, <2>4, <2>10
<1>16. CASE q.kind = "update" /\ UNCHANGED <<store, history>>
  <2>1. past' = past /\ s = store /\ ~Enters(q)
    BY <1>4, <1>16 DEF history, Enters, Recorded
  <2>2. Deeds' = Deeds
    BY <1>3, <1>9, <2>1, AnsweredDeeds
  <2>3. Sits(s, store)
    BY <2>1 DEF Sits
  <2>4. \A r \in F : ~Undoes(r) \/ \E r2 \in ToSet(flight) : r2.by = r.by /\ r2.kind = r.kind
    BY <1>9, <1>10
  <2> QED
    BY <1>2, <1>4, <1>5, <1>9, <1>16, <2>1, <2>2, <2>3, <2>4, LedStays
<1> QED
  BY <1>3, <1>12, <1>14, <1>15, <1>16 DEF RepliesAs

-----------------------------------------------------------------------------
(* The gestures lead on.                                                   *)

LEMMA StillLeads ==
  ASSUME EditorInv, Straight, Lost \/ Led, UNCHANGED <<history, flight, held, opening, made>>,
         Ids(store') = Ids(store), Sits(store', store)
  PROVE  Straight' /\ (Lost \/ Led)'
<1>1. Straight' /\ Deeds' = Deeds /\ (Lost => Lost')
  BY QuietStraight
<1>2. PICK F : F = ToSet(flight')
  OBVIOUS
<1>3. F = ToSet(flight)
  BY <1>2
<1>4. Led => Led'
  BY <1>1, <1>2, <1>3, LedStays
<1> QED
  BY <1>1, <1>4

LEMMA PutSits ==
  ASSUME NEW s, IsRows(s), NEW b, NEW html, NEW type
  PROVE  /\ IsRows(Put(s, b, html, type)) /\ Ids(Put(s, b, html, type)) = Ids(s)
         /\ Sits(Put(s, b, html, type), s)
  BY PutIs, PutRows DEF PutsRows, Sits

LEMMA OneSent ==
  ASSUME NEW r
  PROVE  IsSeq(<<r>>) /\ ToSet(<<r>>) = {r}
  BY OneIs DEF ToSet

LEMMA TwoSent ==
  ASSUME NEW q, NEW r
  PROVE  IsSeq(<<q, r>>) /\ ToSet(<<q, r>>) = {q, r}
  BY TwoAre DEF ToSet

LEMMA UpdateLeads ==
  ASSUME EditorInv, Straight, Lost \/ Led, UNCHANGED <<history, opening, made>>,
         NEW b, NEW html, NEW type, Send(<<Update(b, html, type)>>),
         NEW column, store' = Put(store, b, html, column)
  PROVE  Straight' /\ (Lost \/ Led)'
<1>1. PICK r : r = Update(b, html, type)
  OBVIOUS
<1>2. IsSeq(<<r>>) /\ ToSet(<<r>>) = {r} /\ Send(<<r>>)
  BY <1>1, OneSent
<1>3. Plain(r) /\ ~Enters(r)
  BY <1>1, UpdateIs DEF EditorInv, Plain, Brings, Enters, Recorded
<1>4. Straight'
  BY <1>2, <1>3, GestureStraight
<1>5. Lost => Lost'
  BY <1>2, SentLost
<1>6. past' = past
  BY DEF history
<1>7. EntriesOf(ToSet(<<r>>)) = {}
  BY <1>2, <1>3 DEF EntriesOf
<1>8. Deeds' = Deeds
  BY <1>2, <1>6, <1>7, SentDeeds
<1>9. Ids(store') = Ids(store) /\ Sits(store', store)
  BY PutSits DEF EditorInv
<1>10. PICK A, B : SendsAs(<<r>>, A, B)
  BY <1>2, SentAs
<1>11. PICK F : F = ToSet(flight')
  OBVIOUS
<1>12. F \subseteq ToSet(flight) \union {r}
  BY <1>2, <1>10, <1>11 DEF SendsAs
<1>13. \A q \in F : ~Undoes(q) \/ \E o \in ToSet(flight) : o.by = q.by /\ o.kind = q.kind
  BY <1>3, <1>12 DEF Plain, Undoes
<1>14. Led => Led'
  BY <1>8, <1>9, <1>11, <1>13, LedStays
<1> QED
  BY <1>4, <1>5, <1>14

\* R has q, and nothing else that enters the stack.
Bears(R, q) == IsSeq(R) /\ q \in ToSet(R) /\ \A r \in ToSet(R) : Plain(r) /\ (r = q \/ ~Enters(r))

LEMMA BearsOne ==
  ASSUME NEW R, NEW q, Bears(R, q), Enters(q)
  PROVE  EntriesOf(ToSet(R)) = {EntryOf(q)}
  BY DEF Bears, EntriesOf

LEMMA CreationLeads ==
  ASSUME EditorInv, Straight, Lost \/ Led, UNCHANGED <<history, opening>>, made' = made + 1,
         NEW row, IsRow(row), row.id = made + 1,
         NEW kept, IsRows(kept), Ids(kept) = Ids(store), Sits(kept, store),
         store' = Append(Opened(kept, row.index), row),
         NEW R, Send(R), NEW q, Bears(R, q), q.kind = "create", q.row = row
  PROVE  Straight' /\ (Lost \/ Led)'
<1>1. IsSeq(R) /\ (\A r \in ToSet(R) : Plain(r)) /\ q \in ToSet(R)
  BY DEF Bears
<1>2. Straight'
  BY <1>1, GestureStraight
<1>3. CASE Lost
  BY <1>1, <1>2, <1>3, SentLost
<1>4. Enters(q) /\ ~Writes(q)
  BY <1>1 DEF Plain, Enters, Recorded, Writes
<1>5. CASE (\E taken : Took(Deeds, taken)) \/ applying # Idle
  BY <1>1, <1>2, <1>4, <1>5, EntersLast
<1>6. CASE Led /\ (\A taken : ~Took(Deeds, taken)) /\ applying = Idle
  <2>1. PICK e : e = EntryOf(q)
    OBVIOUS
  <2>2. e.kind = "create" /\ e.row = row /\ EntriesOf(ToSet(R)) = {e}
    BY <1>4, <2>1, BearsOne DEF EntryOf, Op
  <2>3. PICK u : u = store'
    OBVIOUS
  <2>4. Inserts(u, kept, row) /\ Ids(u) = Ids(store) \union {row.id}
    BY <2>3, InsertRows, OpenedIs, AppendedIs
  <2>5. row.id \notin 1..opening
    BY DEF Straight, EditorInv, IsTable
  <2>6. IsRows(store) /\ LedBy(Deeds, store, past, opening)
    BY <1>6 DEF EditorInv, Led
  <2>7. LedBy(Deeds \union {e}, u, past, opening)
    BY <1>6, <2>2, <2>4, <2>5, <2>6, CreatedLed
  <2>8. Led'
    BY <1>1, <1>6, <2>2, <2>3, <2>7, GestureLeads
  <2> QED
    BY <1>2, <2>8
<1> QED
  BY <1>3, <1>5, <1>6

LEMMA DeletionLeads ==
  ASSUME EditorInv, Straight, Lost \/ Led, UNCHANGED <<history, opening, made>>, NEW c \in Ids(store),
         NEW kept, IsRows(kept), Ids(kept) = Ids(store), Sits(kept, store), store' = Drop(kept, c),
         NEW R, Send(R), NEW q, Bears(R, q), q = Delete(c)
  PROVE  Straight' /\ (Lost \/ Led)'
<1>1. IsSeq(R) /\ (\A r \in ToSet(R) : Plain(r)) /\ q \in ToSet(R) /\ IsRows(store)
  BY DEF Bears, EditorInv
<1>2. Straight'
  BY <1>1, GestureStraight
<1>3. CASE Lost
  BY <1>1, <1>2, <1>3, SentLost
<1>4. CASE Led
  <2>1. PICK e : e = EntryOf(q)
    OBVIOUS
  <2>2. q.kind = "delete" /\ q.row = RowIn(store, c) /\ q.by = "user"
    BY <1>1, RequestIs, RowInIs DEF Delete
  <2>3. Enters(q)
    BY <2>2 DEF Enters, Recorded
  <2>4. e.kind = "delete" /\ e.row = RowIn(store, c) /\ EntriesOf(ToSet(R)) = {e}
    BY <2>1, <2>2, <2>3, BearsOne DEF EntryOf, Op
  <2>5. PICK u : u = store'
    OBVIOUS
  <2>6. Ids(u) = Ids(store) \ {c}
    BY <2>5, DropIs
  <2>7. Sits(u, kept)
    BY <2>5, DropRows DEF Drops, Sits
  <2>8. LedBy(Deeds, store, past, opening)
    BY <1>4 DEF Led
  <2>9. LedBy(Deeds \union {e}, u, past, opening)
    BY <1>1, <2>4, <2>6, <2>7, <2>8, DeletedLed
  <2>10. Led'
    BY <1>1, <1>4, <2>4, <2>5, <2>6, <2>9, GestureLeads
  <2> QED
    BY <1>2, <2>10
<1> QED
  BY <1>3, <1>4

LEMMA MoveLeads ==
  ASSUME EditorInv, Unique, Straight, Lost \/ Led, NEW i, MoveBlock(i)
  PROVE  Straight' /\ (Lost \/ Led)'
<1>1. PICK ids : ids = Swapped(Order(store), i) /\ Send(<<Reorder(ids)>>)
  BY DEF MoveBlock
<1>2. UNCHANGED <<history, opening, made, store>>
  BY DEF MoveBlock
<1>3. IsRows(store) /\ OnceEach(store) /\ opening \in Nat
  BY DEF EditorInv, Unique, Straight
<1>4. IsPlaces(Order(store))
  BY <1>3, OrderIs DEF IsPlaces, IsRows, IsSeq
<1>5. IsPlaces(ids)
  BY <1>1, <1>4 DEF Swapped, IsPlaces
<1>6. PICK q : q = Reorder(ids)
  OBVIOUS
<1>7. q.kind = "reorder" /\ q.by = "user" /\ q.state = "sent"
  BY <1>3, <1>5, <1>6, ReorderIs
<1>8. q.prev = Order(store)
  BY <1>6 DEF Reorder, Request
<1>9. Bears(<<q>>, q) /\ Send(<<q>>) /\ Enters(q) /\ ~Writes(q)
  BY <1>1, <1>6, <1>7, OneSent DEF Bears, Plain, Brings, Enters, Recorded, Writes
<1>10. IsSeq(<<q>>) /\ ToSet(<<q>>) = {q} /\ Plain(q)
  BY <1>9, OneSent DEF Bears
<1>11. Straight'
  BY <1>2, <1>9, <1>10, GestureStraight
<1>12. CASE Lost
  BY <1>2, <1>9, <1>10, <1>11, <1>12, SentLost
<1>13. CASE (\E taken : Took(Deeds, taken)) \/ applying # Idle
  BY <1>2, <1>9, <1>10, <1>11, <1>13, EntersLast
<1>14. CASE Led /\ (\A taken : ~Took(Deeds, taken)) /\ applying = Idle
  <2>1. PICK e : e = EntryOf(q)
    OBVIOUS
  <2>2. e.kind = "reorder" /\ e.ids = Order(store) /\ EntriesOf(ToSet(<<q>>)) = {e}
    BY <1>7, <1>8, <1>9, <2>1, BearsOne DEF EntryOf, Op
  <2>3. LedBy(Deeds, store, past, opening)
    BY <1>14 DEF Led
  <2>4. LedBy(Deeds \union {e}, store, past, opening)
    BY <1>3, <1>14, <2>2, <2>3, MovedLed
  <2>5. PICK s : s = store'
    OBVIOUS
  <2>6. s = store
    BY <1>2, <2>5
  <2>7. Led'
    BY <1>2, <1>9, <1>10, <1>14, <2>2, <2>4, <2>5, <2>6, GestureLeads
  <2> QED
    BY <1>11, <2>7
<1> QED
  BY <1>12, <1>13, <1>14

LEMMA EditLeads ==
  ASSUME EditorInv, Straight, Lost \/ Led, NEW b, Type(b) \/ MakeList(b)
  PROVE  Straight' /\ (Lost \/ Led)'
<1>1. PICK html : Edit(b, html)
  BY DEF Type, MakeList
<1>2. UNCHANGED <<history, flight, held, opening, made>> /\ store' = Put(store, b, html, TypeOf(html))
  BY <1>1 DEF Edit, SetLocalContent
<1>3. Ids(store') = Ids(store) /\ Sits(store', store)
  BY <1>2, PutSits DEF EditorInv
<1> QED
  BY <1>2, <1>3, StillLeads

LEMMA IdleLeads ==
  ASSUME EditorInv, Straight, Lost \/ Led, UNCHANGED <<store, history, flight, held, opening, made>>
  PROVE  Straight' /\ (Lost \/ Led)'
<1>1. Ids(store') = Ids(store) /\ Sits(store', store)
  BY DEF Sits
<1> QED
  BY <1>1, StillLeads

LEMMA TimerLeads ==
  ASSUME EditorInv, Straight, Lost \/ Led, NEW b, TimerFires(b)
  PROVE  Straight' /\ (Lost \/ Led)'
<1>1. UNCHANGED <<history, opening, made>>
  BY DEF TimerFires, bounds
<1>2. CASE SaveNeeded(b)
  <2>1. /\ store' = Put(store, b, shown[b], TypeOf(shown[b]))
        /\ Send(<<Update(b, shown[b], LiveType(b))>>)
    BY <1>2 DEF TimerFires, SetLocalContent
  <2> QED
    BY <1>1, <2>1, UpdateLeads
<1>3. CASE ~SaveNeeded(b)
  <2>1. UNCHANGED <<store, flight, held>>
    BY <1>3 DEF TimerFires
  <2> QED
    BY <1>1, <2>1, IdleLeads
<1> QED
  BY <1>2, <1>3

LEMMA LeaveListLeads ==
  ASSUME EditorInv, Straight, Lost \/ Led, NEW b, LeaveList(b)
  PROVE  Straight' /\ (Lost \/ Led)'
<1>1. PICK html : /\ store' = Put(store, b, html, "paragraph")
                  /\ Send(<<Update(b, html, "paragraph")>>)
  BY DEF LeaveList
<1>2. UNCHANGED <<history, opening, made>>
  BY DEF LeaveList
<1> QED
  BY <1>1, <1>2, UpdateLeads

LEMMA RemoveLeads ==
  ASSUME EditorInv, Straight, Lost \/ Led, NEW b, RemoveBlock(b)
  PROVE  Straight' /\ (Lost \/ Led)'
<1>1. /\ b \in Ids(store) /\ store' = Drop(store, b) /\ Send(<<Delete(b)>>)
      /\ UNCHANGED <<history, opening, made>>
  BY DEF RemoveBlock, At, Show, ShowFrom
<1>2. IsRows(store) /\ Sits(store, store)
  BY DEF EditorInv, Sits
<1>3. PICK q : q = Delete(b)
  OBVIOUS
<1>4. q.kind = "delete" /\ q.by = "user" /\ q.state = "sent"
  BY <1>1, <1>2, <1>3, DeleteIs
<1>5. Bears(<<q>>, q)
  BY <1>4, OneSent DEF Bears, Plain, Brings
<1> QED
  BY <1>1, <1>2, <1>3, <1>5, DeletionLeads

LEMMA MergeLeads ==
  ASSUME EditorInv, Straight, Lost \/ Led, NEW i, Backspace(i) \/ ForwardDelete(i)
  PROVE  Straight' /\ (Lost \/ Led)'
<1>1. PICK p, c \in Ids(store) : MergeBlocks(p, c)
  BY BackspaceMerges
<1>2. PICK html, type : /\ store' = Drop(Put(store, p, html, type), c)
                        /\ Send(<<Update(p, html, Keep), Delete(c)>>)
  BY <1>1 DEF MergeBlocks, ShowFrom
<1>3. UNCHANGED <<history, opening, made>>
  BY <1>1 DEF MergeBlocks
<1>4. PICK kept : kept = Put(store, p, html, type)
  OBVIOUS
<1>5. IsRows(store) /\ IsRows(kept) /\ Ids(kept) = Ids(store) /\ Sits(kept, store)
  BY <1>4, PutSits DEF EditorInv
<1>6. PICK q : q = Delete(c)
  OBVIOUS
<1>7. PICK r : r = Update(p, html, Keep)
  OBVIOUS
<1>8. /\ q.kind = "delete" /\ q.by = "user" /\ q.state = "sent"
      /\ r.kind = "update" /\ r.by = "user" /\ r.state = "sent"
  BY <1>5, <1>6, <1>7, DeleteIs, UpdateIs
<1>9. Bears(<<r, q>>, q)
  BY <1>8, TwoSent DEF Bears, Plain, Brings, Enters, Recorded
<1> QED
  BY <1>2, <1>3, <1>4, <1>5, <1>6, <1>7, <1>9, DeletionLeads

LEMMA InsertionLeads ==
  ASSUME EditorInv, Straight, Lost \/ Led, NEW b, InsertBlockAfter(b) \/ DuplicateBlock(b)
  PROVE  Straight' /\ (Lost \/ Led)'
<1>1. PICK row, focus : IsRow(row) /\ row.id = made + 1 /\ CreateLocally(row, focus)
  BY InsertCreates, DuplicateCreates
<1>2. /\ made' = made + 1 /\ store' = Append(Opened(store, row.index), row) /\ Send(<<Create(row)>>)
      /\ UNCHANGED <<history, opening>>
  BY <1>1 DEF CreateLocally, ChooseId, Fresh, ShowFrom
<1>3. IsRows(store) /\ Sits(store, store)
  BY DEF EditorInv, Sits
<1>4. PICK q : q = Create(row)
  OBVIOUS
<1>5. q.kind = "create" /\ q.by = "user" /\ q.state = "sent" /\ q.row = row
  BY <1>1, <1>4, RequestIs DEF Create
<1>6. Bears(<<q>>, q)
  BY <1>5, OneSent DEF Bears, Plain, Brings
<1> QED
  BY <1>1, <1>2, <1>3, <1>4, <1>5, <1>6, CreationLeads

LEMMA EnterLeads ==
  ASSUME EditorInv, Straight, Lost \/ Led, NEW b, NEW k, Enter(b, k) \/ ModEnter(b, k)
  PROVE  Straight' /\ (Lost \/ Led)'
<1>1. PICK before, after, type, display : b \in Ids(store) /\ SplitBlock(b, before, after, type, display)
  BY EnterDivides
<1>2. PICK row : row = StoreRow(made + 1, after, TypeOf(after), RowIn(store, b).index + 1)
  OBVIOUS
<1>3. PICK kept : kept = Put(store, b, before, IF type = Keep THEN RowIn(store, b).type ELSE type)
  OBVIOUS
<1>4. /\ made' = made + 1 /\ store' = Append(Opened(kept, row.index), row)
      /\ Send(<<Create(row), Update(b, before, type)>>) /\ UNCHANGED <<history, opening>>
  BY <1>1, <1>2, <1>3 DEF SplitBlock, ChooseId, Fresh, ShowFrom
<1>5. RowIn(store, b).index + 1 \in Int
  BY <1>1, RowInIs DEF EditorInv, IsRow
<1>6. IsRow(row) /\ row.id = made + 1
  BY <1>2, <1>5, StoreRowIs
<1>7. IsRows(store) /\ IsRows(kept) /\ Ids(kept) = Ids(store) /\ Sits(kept, store)
  BY <1>3, PutSits DEF EditorInv
<1>8. PICK q : q = Create(row)
  OBVIOUS
<1>9. PICK r : r = Update(b, before, type)
  OBVIOUS
<1>10. /\ q.kind = "create" /\ q.by = "user" /\ q.state = "sent" /\ q.row = row
       /\ r.kind = "update" /\ r.by = "user" /\ r.state = "sent"
  BY <1>6, <1>7, <1>8, <1>9, RequestIs, UpdateIs DEF Create
<1>11. Bears(<<q, r>>, q)
  BY <1>10, TwoSent DEF Bears, Plain, Brings, Enters, Recorded
<1> QED
  BY <1>4, <1>6, <1>7, <1>8, <1>9, <1>10, <1>11, CreationLeads

LEMMA UndoLeads ==
  ASSUME EditorInv, Unique, Straight, Lost \/ Led, Undo \/ Redo, ~tangled'
  PROVE  Straight' /\ (Lost \/ Led)'
<1>1. IsOps(past) /\ IsOps(future)
  BY DEF EditorInv, HistoryInv
<1>2. ASSUME NEW way \in {"undo", "redo"}, NEW op, IsOp(op), OfStack(way, op), Apply(way, op)
      PROVE  Straight' /\ (Lost \/ Led)'
  <2>1. Reverts(way, op)
    BY <1>2, ApplyReverts
  <2>2. opening' = opening /\ made' \in {made, made + 1}
    BY <1>2 DEF Apply, Revert, ChooseId, Fresh
  <2> QED
    BY <1>2, <2>1, <2>2, ApplyStraight, ApplyLeads
<1>3. CASE Undo
  BY <1>1, <1>2, <1>3, LastIs DEF Undo, OfStack
<1>4. CASE Redo
  BY <1>1, <1>2, <1>4, LastIs DEF Redo, OfStack
<1> QED
  BY <1>3, <1>4

LEMMA ServeLeads ==
  ASSUME EditorInv, Straight, Lost \/ Led, NEW i \in DOMAIN flight, Serve(i)
  PROVE  Straight' /\ (Lost \/ Led)'
<1>1. Straight' /\ Deeds' = Deeds /\ (Lost => Lost')
  BY ServeStraight
<1>2. UNCHANGED <<store, history, opening>>
  BY ServesWell
<1>3. PICK F : F = ToSet(flight')
  OBVIOUS
<1>4. \A q \in F : ~Undoes(q) \/ \E r \in ToSet(flight) : r.by = q.by /\ r.kind = q.kind
  <2>1. CASE \E state, rows : Answer(i, state, rows)
    <3>1. PICK g : g = flight'
      OBVIOUS
    <3>2. DOMAIN g = DOMAIN flight /\ \A j \in DOMAIN flight : g[j].by = flight[j].by /\ g[j].kind = flight[j].kind
      BY <2>1, <3>1, AnsweredIs
    <3> QED
      BY <1>3, <3>1, <3>2 DEF ToSet
  <2>2. CASE flight' = RemoveAt(flight, i)
    <3>1. F \subseteq ToSet(flight)
      BY <1>3, <2>2, SetOfRest DEF EditorInv
    <3> QED
      BY <3>1
  <2> QED
    BY <2>1, <2>2, ServeText DEF ServedText
<1>5. Ids(store') = Ids(store) /\ Sits(store', store)
  BY <1>2 DEF Sits
<1>6. Led => Led'
  BY <1>1, <1>2, <1>3, <1>4, <1>5, LedStays
<1> QED
  BY <1>1, <1>6

LEMMA SureBefore ==
  ASSUME [EditorNext]_editorVars, Sure'
  PROVE  Sure
<1>0. ~misread /\ ~refused
  BY SteadyBefore DEF Sure
<1> SUFFICES ~overtaken /\ ~tangled
  BY <1>0 DEF Sure
<1>s. ~overtaken' /\ ~tangled'
  BY DEF Sure
<1>1. ASSUME NEW b, Type(b) \/ MakeList(b)
      PROVE  ~overtaken /\ ~tangled
  <2>1. PICK html : Edit(b, html)
    BY <1>1 DEF Type, MakeList
  <2> QED
    BY <1>s, <2>1 DEF Edit
<1>2. CASE Blur \/ (\E b : Click(b)) \/ UNCHANGED editorVars
  <2>1. UNCHANGED marks
    BY <1>2 DEF Blur, Click, editorVars
  <2> QED
    BY <1>s, <2>1 DEF marks
<1>3. CASE Restructure
  BY <1>s, <1>3, RestructureMarks
<1>4. ASSUME NEW i, Serve(i) \/ Refuse(i) \/ Reply(i)
      PROVE  ~overtaken /\ ~tangled
  <2>1. CASE Serve(i)
    <3>1. tangled' = tangled /\ overtaken' = (overtaken \/ Overtakes(i))
      BY <2>1 DEF Serve
    <3> QED
      BY <1>s, <3>1, Zenon
  <2>2. CASE Refuse(i)
    BY <1>s, <2>2 DEF Refuse
  <2>3. CASE Reply(i)
    <3>1. /\ overtaken' = (overtaken \/ AnswerOvertakes(i))
          /\ tangled' = (tangled \/ UndoMeetsGesture \/ RecordedLate(i))
      BY <2>3 DEF Reply
    <3> QED
      BY <1>s, <3>1, Zenon
  <2> QED
    BY <1>4, <2>1, <2>2, <2>3
<1>5. ASSUME NEW b, TimerFires(b) \/ LeaveList(b) \/ DuplicateBlock(b) \/ RemoveBlock(b) \/ MoveBlock(b)
      PROVE  ~overtaken /\ ~tangled
  <2>1. UNCHANGED marks
    BY <1>5 DEF TimerFires, LeaveList, DuplicateBlock, CreateLocally, RemoveBlock, MoveBlock
  <2> QED
    BY <1>s, <2>1 DEF marks
<1>6. CASE Undo \/ Redo
  <2>1. overtaken' = overtaken /\ (tangled => tangled')
    BY <1>6 DEF Undo, Redo, Apply
  <2> QED
    BY <1>s, <2>1
<1> QED
  BY <1>1, <1>2, <1>3, <1>4, <1>5, <1>6 DEF EditorNext, Saving

LEMMA LeadsStep ==
  ASSUME EditorInv, CalmInv, UniqueInv, LeadsInv, [EditorNext]_editorVars
  PROVE  LeadsInv'
<1> SUFFICES ASSUME Sure' PROVE Straight' /\ (Lost \/ Led)'
  BY DEF LeadsInv
<1>c. /\ Straight /\ (Lost \/ Led) /\ Unique /\ ~misread /\ ~refused
      /\ ~misread' /\ ~refused' /\ ~tangled'
  BY SureBefore DEF LeadsInv, UniqueInv, Sure
<1>1. ASSUME NEW b, Type(b) \/ MakeList(b)
      PROVE  Straight' /\ (Lost \/ Led)'
  BY <1>c, <1>1, EditLeads
<1>2. CASE Blur \/ (\E b : Click(b)) \/ UNCHANGED editorVars
  <2>1. UNCHANGED <<store, history, flight, held, opening, made>>
    BY <1>2 DEF Blur, Click, editorVars, bounds
  <2> QED
    BY <1>c, <2>1, IdleLeads
<1>3. CASE Restructure
  BY <1>c, <1>3, EnterLeads, InsertionLeads, MergeLeads DEF Restructure
<1>4. CASE Saving
  <2>1. ASSUME NEW i \in DOMAIN flight, Serve(i)
        PROVE  Straight' /\ (Lost \/ Led)'
    BY <1>c, <2>1, ServeLeads
  <2>2. ASSUME NEW i \in DOMAIN flight, Reply(i)
        PROVE  Straight' /\ (Lost \/ Led)'
    <3>1. RepliesAs(i)
      BY <1>c, <2>2, ReplyIsOne
    <3> QED
      BY <1>c, <2>2, <3>1, ReplyStraight, ReplyLeads
  <2>3. ASSUME NEW i \in DOMAIN flight, Refuse(i)
        PROVE  FALSE
    BY <1>c, <2>3 DEF Refuse
  <2>4. ASSUME NEW b, TimerFires(b)
        PROVE  Straight' /\ (Lost \/ Led)'
    BY <1>c, <2>4, TimerLeads
  <2> QED
    BY <1>4, <2>1, <2>2, <2>3, <2>4 DEF Saving
<1>5. ASSUME NEW b, LeaveList(b) \/ DuplicateBlock(b) \/ RemoveBlock(b)
      PROVE  Straight' /\ (Lost \/ Led)'
  BY <1>c, <1>5, LeaveListLeads, InsertionLeads, RemoveLeads
<1>6. ASSUME NEW i, MoveBlock(i)
      PROVE  Straight' /\ (Lost \/ Led)'
  BY <1>c, <1>6, MoveLeads
<1>7. CASE Undo \/ Redo
  BY <1>c, <1>7, UndoLeads
<1> QED
  BY <1>1, <1>2, <1>3, <1>4, <1>5, <1>6, <1>7 DEF EditorNext

LEMMA LeadsInit == EditorInit => LeadsInv
<1> SUFFICES ASSUME EditorInit PROVE Straight /\ Led
  BY DEF LeadsInv
<1>1. /\ flight = <<>> /\ held = <<>> /\ past = <<>> /\ future = <<>> /\ opening \in Nat /\ made = opening
      /\ store = [b \in 1..opening |-> OpeningRow(b)]
  BY OpeningAssumption DEF EditorInit
<1>2. /\ ToSet(flight) = {} /\ ToSet(held) = {} /\ ToSet(past) = {}
      /\ DOMAIN past = {} /\ DOMAIN future = {}
  BY <1>1 DEF ToSet
<1>3. Straight
  BY <1>1, <1>2 DEF Straight, Waits
<1>4. Deeds = {}
  BY <1>2 DEF Deeds, EntriesOf
<1>5. DOMAIN store = 1..opening /\ \A b \in 1..opening : store[b].id = b /\ store[b].index = b - 1
  BY <1>1 DEF OpeningRow, StoreRow
<1>6. Ids(store) = 1..opening
  BY <1>5 DEF Ids
<1>7. Everyone(Deeds, Ids(store), opening)
  BY <1>4, <1>6 DEF Everyone, Makes, Took
<1>8. Unshuffled(Deeds, store, opening)
  BY <1>1, <1>4, <1>5 DEF Unshuffled, Climbing, Took
<1> QED
  BY <1>2, <1>3, <1>7, <1>8 DEF Led, LedBy, Awaited

-----------------------------------------------------------------------------
(* The stack, taken back entry by entry.                                   *)

\* it gives, for a set of places of p, what s is with their entries taken back.
UndoneBy(it, m, n, p, s) ==
  it = [M \in SUBSET (m..n) |->
          IF M = {} THEN s ELSE TakenBack(p[Min(M)], it[M \ {Min(M)}])]

LEMMA LeastIs ==
  ASSUME NEW m \in Int, NEW M \in SUBSET Int, m \in M, \A i \in M : m <= i
  PROVE  Min(M) = m
<1>1. \A x \in M : (\A y \in M : x <= y) => x = m
  OBVIOUS
<1>2. \A y \in M : m <= y
  OBVIOUS
<1> QED
  BY <1>1, <1>2 DEF Min

LEMMA ClimbsDown ==
  ASSUME NEW n \in Nat, NEW T, n + 1 \in T, \A i \in 1..n : i + 1 \in T => i \in T
  PROVE  1..n + 1 \subseteq T
<1> DEFINE S == {j \in 0..n : n + 1 - j \in T}
<1>1. 0 \in S
  OBVIOUS
<1>2. ASSUME NEW j \in 1..n, j - 1 \in S PROVE j \in S
  <2>1. n + 1 - j \in 1..n /\ n + 1 - (j - 1) \in T /\ n + 1 - (j - 1) = (n + 1 - j) + 1
    BY <1>2
  <2> QED
    BY <2>1
<1>3. 0..n \subseteq S
  <2> HIDE DEF S
  <2> QED
    BY <1>1, <1>2, ClimbsUp
<1>4. ASSUME NEW i \in 1..n + 1 PROVE i \in T
  <2>1. n + 1 - i \in S
    BY <1>3
  <2>2. n + 1 - (n + 1 - i) = i
    OBVIOUS
  <2> QED
    BY <2>1, <2>2
<1> QED
  BY <1>4

LEMMA UndoingIsDefined ==
  ASSUME NEW n \in Nat, NEW p, NEW s
  PROVE  \E it : UndoneBy(it, 1, n, p, s)
<1> DEFINE T == {m \in 1..n + 1 : \E it : UndoneBy(it, m, n, p, s)}
<1>1. n + 1 \in T
  <2> DEFINE it == [M \in SUBSET (n + 1..n) |-> s]
  <2>1. \A M \in SUBSET (n + 1..n) : M = {}
    OBVIOUS
  <2>2. UndoneBy(it, n + 1, n, p, s)
    BY <2>1 DEF UndoneBy
  <2> QED
    BY <2>2
<1>2. ASSUME NEW m \in 1..n, m + 1 \in T PROVE m \in T
  <2>1. PICK g : UndoneBy(g, m + 1, n, p, s)
    BY <1>2
  <2> DEFINE f == [M \in SUBSET (m..n) |-> IF m \in M THEN TakenBack(p[m], g[M \ {m}]) ELSE g[M]]
  <2>2. \A M \in SUBSET (m..n) : M \ {m} \in SUBSET (m + 1..n)
    OBVIOUS
  <2>3. \A M \in SUBSET (m + 1..n) : M \in SUBSET (m..n) /\ m \notin M
    OBVIOUS
  <2>4. \A M \in SUBSET (m + 1..n) : f[M] = g[M]
    BY <2>3
  <2>5. ASSUME NEW M \in SUBSET (m..n)
        PROVE  f[M] = IF M = {} THEN s ELSE TakenBack(p[Min(M)], f[M \ {Min(M)}])
    <3>1. CASE m \in M
      <4>1. Min(M) = m
        BY <3>1, LeastIs
      <4>2. f[M \ {m}] = g[M \ {m}]
        BY <2>2, <2>4
      <4>3. f[M] = TakenBack(p[m], g[M \ {m}])
        BY <3>1
      <4> QED
        BY <3>1, <4>1, <4>2, <4>3
    <3>2. CASE m \notin M
      <4>1. M \in SUBSET (m + 1..n)
        BY <3>2
      <4>2. M \ {Min(M)} \in SUBSET (m + 1..n)
        BY <4>1
      <4>3. f[M] = g[M] /\ f[M \ {Min(M)}] = g[M \ {Min(M)}]
        BY <2>4, <4>1, <4>2
      <4>4. g[M] = IF M = {} THEN s ELSE TakenBack(p[Min(M)], g[M \ {Min(M)}])
        BY <2>1, <4>1 DEF UndoneBy
      <4> QED
        BY <4>3, <4>4
    <3> QED
      BY <3>1, <3>2
  <2>6. f = [M \in SUBSET (m..n) |-> f[M]]
    OBVIOUS
  <2>7. UndoneBy(f, m, n, p, s)
    <3> HIDE DEF f
    <3> QED
      BY <2>5, <2>6 DEF UndoneBy
  <2> QED
    BY <2>7
<1>3. 1 \in T
  <2> HIDE DEF T
  <2> QED
    BY <1>1, <1>2, ClimbsDown
<1> QED
  BY <1>3

\* acc[i] is s with the entries from i on taken back.
Unwinds(acc, n, p, s) ==
  /\ acc[n + 1] = s
  /\ \A i \in 1..n : acc[i] = TakenBack(p[i], acc[i + 1])
  /\ FoldRight(TakenBack, p, s) = acc[1]

LEMMA StackUnwinds ==
  ASSUME NEW n \in Nat, NEW p, NEW s, DOMAIN p = 1..n
  PROVE  \E acc : Unwinds(acc, n, p, s)
<1> DEFINE it == CHOOSE it : UndoneBy(it, 1, n, p, s)
           acc == [i \in 1..n + 1 |-> it[i..n]]
<1>1. UndoneBy(it, 1, n, p, s)
  BY UndoingIsDefined
<1>2. FoldRight(TakenBack, p, s) = it[1..n]
  BY DEF FoldRight, MapThenFoldSet, UndoneBy
<1> HIDE DEF it
<1>3. acc[n + 1] = s
  BY <1>1 DEF UndoneBy
<1>4. ASSUME NEW i \in 1..n PROVE acc[i] = TakenBack(p[i], acc[i + 1])
  <2>1. Min(i..n) = i
    <3>1. i..n \in SUBSET Int /\ i \in i..n /\ \A j \in i..n : i <= j
      OBVIOUS
    <3> QED
      BY <3>1, LeastIs
  <2>2. (i..n) \ {i} = i + 1..n /\ i..n \in SUBSET (1..n) /\ i..n # {}
    OBVIOUS
  <2>3. it[i..n] = TakenBack(p[i], it[i + 1..n])
    BY <1>1, <2>1, <2>2 DEF UndoneBy
  <2>4. i + 1 \in 1..n + 1 /\ i \in 1..n + 1
    OBVIOUS
  <2>5. acc[i] = it[i..n] /\ acc[i + 1] = it[i + 1..n]
    BY <2>4
  <2> QED
    BY <2>3, <2>5
<1>5. FoldRight(TakenBack, p, s) = acc[1]
  BY <1>2
<1> HIDE DEF acc
<1> QED
  BY <1>3, <1>4, <1>5 DEF Unwinds

\* Rows, whatever their indexes: a move of a list that misses one leaves none.
IsLoose(r) == r = [id |-> r.id, html |-> r.html, type |-> r.type, index |-> r.index]
AreLoose(s) == IsSeq(s) /\ \A k \in DOMAIN s : IsLoose(s[k])

\* s, with the entries of p before i still to be taken back.
Backed(s, p, i, n) ==
  /\ AreLoose(s) /\ OnceEach(s)
  /\ \A b \in 1..n : b \in Ids(s)
  /\ \A b \in Ids(s) : b \in 1..n \/ \E l \in DOMAIN p : l < i /\ p[l].kind = "create" /\ p[l].row.id = b
  /\ (\A l \in DOMAIN p : l < i => p[l].kind # "reorder") =>
       Climbing(s, n) /\ \A k \in DOMAIN s : s[k].id \in 1..n => s[k].index \in Int

LEMMA CreationBacked ==
  ASSUME NEW s, NEW p, IsSeq(p), NEW n, NEW i \in DOMAIN p, Backed(s, p, i + 1, n),
         p[i].kind = "create", p[i].row.id \notin 1..n
  PROVE  Backed(TakenBack(p[i], s), p, i, n)
<1>1. PICK b : b = p[i].row.id
  OBVIOUS
<1>2. PICK I : I = {k \in DOMAIN s : s[k].id # b}
  OBVIOUS
<1>3. PICK u : u = Picked(s, I)
  OBVIOUS
<1>4. TakenBack(p[i], s) = u
  BY <1>1, <1>2, <1>3 DEF TakenBack, Drop
<1>5. IsSeq(s) /\ I \subseteq DOMAIN s
  BY <1>2 DEF Backed, AreLoose
<1>6. IsSeq(u) /\ \E g : Picks(u, s, I, g) /\ Rising(g, u)
  BY <1>3, <1>5, PickedIs
<1>7. PICK g : Picks(u, s, I, g)
  BY <1>6
<1>8. \A k \in DOMAIN u : g[k] \in I /\ g[k] \in DOMAIN s /\ u[k] = s[g[k]] /\ u[k].id # b
  BY <1>2, <1>7 DEF Picks
<1>9. AreLoose(u)
  BY <1>6, <1>8 DEF Backed, AreLoose
<1>10. OnceEach(u)
  <2>1. ASSUME NEW k \in DOMAIN u, NEW l \in DOMAIN u, u[k].id = u[l].id PROVE k = l
    <3>1. g[k] = g[l]
      BY <1>8, <2>1 DEF Backed, OnceEach
    <3> QED
      BY <1>7, <2>1, <3>1 DEF Picks
  <2> QED
    BY <2>1 DEF OnceEach
<1>11. \A c \in 1..n : c \in Ids(u)
  <2>1. ASSUME NEW c \in 1..n PROVE c \in Ids(u)
    <3>1. PICK k \in DOMAIN s : s[k].id = c
      BY DEF Backed, Ids
    <3>2. k \in I
      BY <1>1, <1>2, <3>1
    <3>3. PICK l \in DOMAIN u : g[l] = k
      BY <1>7, <3>2 DEF Picks
    <3> QED
      BY <1>8, <3>1, <3>3 DEF Ids
  <2> QED
    BY <2>1
<1>12. i \in Int /\ \A l \in DOMAIN p : l \in Int
  BY IsSeqDomain
<1>13. \A l \in DOMAIN p : l < i + 1 => l < i \/ l = i
  BY <1>12
<1>14. \A c \in Ids(u) : c \in Ids(s) /\ c # b
  BY <1>8 DEF Ids
<1>15. \A c \in Ids(u) : c \in 1..n \/ \E l \in DOMAIN p : l < i /\ p[l].kind = "create" /\ p[l].row.id = c
  BY <1>1, <1>13, <1>14 DEF Backed
<1>16. ASSUME \A l \in DOMAIN p : l < i => p[l].kind # "reorder"
       PROVE  Climbing(u, n) /\ \A k \in DOMAIN u : u[k].id \in 1..n => u[k].index \in Int
  <2>1. Climbing(s, n) /\ \A k \in DOMAIN s : s[k].id \in 1..n => s[k].index \in Int
    BY <1>13, <1>16 DEF Backed
  <2> QED
    BY <1>8, <2>1 DEF Climbing
<1> QED
  BY <1>4, <1>9, <1>10, <1>11, <1>15, <1>16 DEF Backed

LEMMA MoveBacked ==
  ASSUME NEW s, NEW p, IsSeq(p), NEW n \in Nat, NEW i \in DOMAIN p, Backed(s, p, i + 1, n),
         p[i].kind = "reorder", IsPlaces(p[i].ids), FirstMove(p, i) => Ascending(p[i].ids, n)
  PROVE  Backed(TakenBack(p[i], s), p, i, n)
<1>1. PICK ids : ids = p[i].ids
  OBVIOUS
<1> DEFINE at(b) == CHOOSE m \in DOMAIN ids : ids[m] = b
<1>2. PICK u : u = [k \in DOMAIN s |-> [s[k] EXCEPT !.index = at(s[k].id) - 1]]
  OBVIOUS
<1>3. TakenBack(p[i], s) = u
  BY <1>1, <1>2 DEF TakenBack
<1>4. DOMAIN u = DOMAIN s /\ u = [k \in DOMAIN s |-> u[k]] /\ Len(s) \in Nat /\ DOMAIN s = 1..Len(s)
  BY <1>2, IsSeqDomain DEF Backed, AreLoose
<1>5. ASSUME NEW k \in DOMAIN s
      PROVE  IsLoose(u[k]) /\ u[k].id = s[k].id /\ u[k].index = at(s[k].id) - 1
  <2>1. IsLoose(s[k])
    BY DEF Backed, AreLoose
  <2>2. PICK r : r = s[k]
    OBVIOUS
  <2>3. PICK x : x = at(s[k].id) - 1
    OBVIOUS
  <2>4. u[k] = [r EXCEPT !.index = x]
    BY <1>2, <2>2, <2>3
  <2>5. u[k] = [id |-> r.id, html |-> r.html, type |-> r.type, index |-> x]
    BY <2>1, <2>2, <2>4 DEF IsLoose
  <2> HIDE DEF at
  <2> QED
    BY <2>2, <2>3, <2>5 DEF IsLoose
<1> HIDE DEF at
<1>6. IsSeq(u)
  BY <1>4, TableIsSeq
<1>7. AreLoose(u) /\ OnceEach(u) /\ Ids(u) = Ids(s)
  <2>1. \A k \in DOMAIN s : IsLoose(u[k]) /\ u[k].id = s[k].id
    BY <1>5
  <2>2. AreLoose(u)
    BY <1>4, <1>6, <2>1 DEF AreLoose
  <2>3. OnceEach(s)
    BY DEF Backed
  <2>4. OnceEach(u)
    BY <1>4, <2>1, <2>3 DEF OnceEach
  <2>5. Ids(u) = Ids(s)
    BY <1>4, <2>1 DEF Ids
  <2> QED
    BY <2>2, <2>4, <2>5
<1>8. i \in Int /\ \A l \in DOMAIN p : l \in Int
  BY IsSeqDomain
<1>9. \A l \in DOMAIN p : l < i + 1 => l < i \/ l = i
  BY <1>8
<1>10. \A c \in Ids(u) : c \in 1..n \/ \E l \in DOMAIN p : l < i /\ p[l].kind = "create" /\ p[l].row.id = c
  BY <1>7, <1>9 DEF Backed
<1>11. ASSUME \A l \in DOMAIN p : l < i => p[l].kind # "reorder"
       PROVE  Climbing(u, n) /\ \A k \in DOMAIN u : u[k].id \in 1..n => u[k].index \in Int
  <2>1. Ascending(ids, n) /\ IsPlaces(ids)
    BY <1>1, <1>11 DEF FirstMove
  <2>2. PICK q : q = [state |-> "done", rows |-> u, ids |-> ids]
    OBVIOUS
  <2>3. q.state = "done" /\ q.rows = u /\ q.ids = ids
    BY <2>2
  <2>4. Places(q)
    BY <1>4, <1>5, <2>3 DEF Places, at
  <2>5. Climbing(u, n)
    BY <2>1, <2>3, <2>4, PlacedClimbing
  <2>6. ASSUME NEW k \in DOMAIN u, u[k].id \in 1..n PROVE u[k].index \in Int
    <3>1. \E m \in DOMAIN ids : ids[m] = s[k].id
      BY <1>4, <1>5, <2>1, <2>6 DEF Ascending
    <3>2. at(s[k].id) \in DOMAIN ids
      BY <3>1 DEF at
    <3>3. PICK m : m = at(s[k].id)
      OBVIOUS
    <3> QED
      BY <1>4, <1>5, <2>1, <3>2, <3>3 DEF IsPlaces
  <2> QED
    BY <2>5, <2>6
<1> QED
  BY <1>3, <1>7, <1>10, <1>11 DEF Backed

\* The stack and the store that PastLeadsBack starts from.
Leading(p, s, n) ==
  /\ IsOps(p) /\ IsRows(s) /\ OnceEach(s) /\ n \in Nat
  /\ \A k \in DOMAIN p : p[k].kind \in Recorded /\ (p[k].kind = "delete" => k = Len(p))
  /\ LedBy(ToSet(p), s, p, n)

LEMMA StoreBacked ==
  ASSUME NEW p, NEW s, NEW n, Leading(p, s, n), \A k \in DOMAIN p : p[k].kind # "delete"
  PROVE  Backed(s, p, Len(p) + 1, n)
<1>1. Len(p) \in Nat /\ DOMAIN p = 1..Len(p)
  BY IsSeqDomain DEF Leading, IsOps
<1>2. \A l \in DOMAIN p : l < Len(p) + 1
  BY <1>1
<1>3. \A row : ~Took(ToSet(p), row)
  BY DEF Took, ToSet
<1>4. AreLoose(s) /\ OnceEach(s)
  BY DEF Leading, IsRows, IsRow, AreLoose, IsLoose
<1>5. \A b \in 1..n : b \in Ids(s)
  BY <1>3 DEF Leading, LedBy, Everyone
<1>6. \A b \in Ids(s) : b \in 1..n \/ \E l \in DOMAIN p : l < Len(p) + 1 /\ p[l].kind = "create" /\ p[l].row.id = b
  BY <1>2 DEF Leading, LedBy, Everyone, Makes, ToSet
<1>7. (\A l \in DOMAIN p : l < Len(p) + 1 => p[l].kind # "reorder") => Climbing(s, n)
  BY <1>2 DEF Leading, LedBy, Shuffled, Unshuffled
<1>8. \A k \in DOMAIN s : s[k].index \in Int
  BY DEF Leading, IsRows, IsRow
<1> QED
  BY <1>4, <1>5, <1>6, <1>7, <1>8 DEF Backed

LEMMA DeletionBacked ==
  ASSUME NEW p, NEW s, NEW n, Leading(p, s, n), p # <<>>, p[Len(p)].kind = "delete"
  PROVE  Backed(TakenBack(p[Len(p)], s), p, Len(p), n)
<1>1. Len(p) \in Nat /\ DOMAIN p = 1..Len(p) /\ Len(p) \in DOMAIN p
  BY IsSeqDomain, LastOf DEF Leading, IsOps
<1>2. PICK row : row = p[Len(p)].row
  OBVIOUS
<1>3. PICK u : u = Append(Opened(s, row.index), row)
  OBVIOUS
<1>4. TakenBack(p[Len(p)], s) = u
  BY <1>2, <1>3 DEF TakenBack
<1>5. IsRow(row) /\ IsRows(s) /\ OnceEach(s)
  BY <1>1, <1>2 DEF Leading, IsOps, IsOp
<1>6. Took(ToSet(p), row)
  BY <1>1, <1>2 DEF Took, ToSet
<1>7. \A taken : Took(ToSet(p), taken) => taken = row
  BY <1>2 DEF Took, ToSet, Leading
<1>8. row.id \notin Ids(s) /\ (row.id \in 1..n \/ Makes(ToSet(p), row.id))
  BY <1>6 DEF Leading, LedBy, Everyone
<1>9. IsRows(u) /\ Ids(u) = Ids(s) \union {row.id} /\ OnceEach(u) /\ Inserts(u, s, row)
  BY <1>3, <1>5, <1>8, OpenedIs, AppendedIs, InsertOnce, InsertRows
<1>10. AreLoose(u)
  BY <1>9 DEF IsRows, IsRow, AreLoose, IsLoose
<1>11. \A b \in 1..n : b \in Ids(u)
  BY <1>7, <1>9 DEF Leading, LedBy, Everyone
<1>12. \A b : Makes(ToSet(p), b) => \E l \in DOMAIN p : l < Len(p) /\ p[l].kind = "create" /\ p[l].row.id = b
  <2>1. ASSUME NEW b, Makes(ToSet(p), b)
        PROVE  \E l \in DOMAIN p : l < Len(p) /\ p[l].kind = "create" /\ p[l].row.id = b
    <3>1. PICK l \in DOMAIN p : p[l].kind = "create" /\ p[l].row.id = b
      BY <2>1 DEF Makes, ToSet
    <3>2. l # Len(p)
      BY <3>1
    <3>3. l < Len(p)
      BY <1>1, <3>2
    <3> QED
      BY <3>1, <3>3
  <2> QED
    BY <2>1
<1>13. \A b \in Ids(u) : b \in 1..n \/ \E l \in DOMAIN p : l < Len(p) /\ p[l].kind = "create" /\ p[l].row.id = b
  BY <1>8, <1>9, <1>12 DEF Leading, LedBy, Everyone
<1>14. \A k \in DOMAIN u : u[k].index \in Int
  BY <1>9 DEF IsRows, IsRow
<1>15. ASSUME \A l \in DOMAIN p : l < Len(p) => p[l].kind # "reorder"
       PROVE  Climbing(u, n)
  <2>1. \A l \in DOMAIN p : l < Len(p) \/ l = Len(p)
    BY <1>1
  <2>2. ~Shuffled(p)
    BY <1>15, <2>1 DEF Shuffled
  <2>3. Climbing(s, n) /\ FitsBack(row, s, n)
    BY <1>6, <2>2 DEF Leading, LedBy, Unshuffled
  <2>4. /\ Len(s) \in Nat /\ DOMAIN s = 1..Len(s) /\ DOMAIN u = 1..Len(s) + 1 /\ u[Len(s) + 1] = row
        /\ \A i \in 1..Len(s) : u[i].id = s[i].id /\ u[i].index = Up(s[i].index, row.index)
    BY <1>9 DEF Inserts
  <2>5. row.index \in Int /\ \A i \in DOMAIN s : s[i].index \in Int
    BY <1>5 DEF IsRows, IsRow
  <2>6. ASSUME NEW i \in DOMAIN u, NEW j \in DOMAIN u, u[i].id \in 1..n, u[j].id \in 1..n, u[i].id < u[j].id
        PROVE  u[i].index < u[j].index
    <3>1. CASE i \in DOMAIN s /\ j \in DOMAIN s
      <4>1. s[i].index < s[j].index
        BY <2>3, <2>4, <2>6, <3>1 DEF Climbing
      <4>2. PICK x, y \in Int : x = s[i].index /\ y = s[j].index
        BY <2>5, <3>1
      <4>3. u[i].index = Up(x, row.index) /\ u[j].index = Up(y, row.index)
        BY <2>4, <3>1, <4>2
      <4>4. PICK z \in Int : z = row.index
        BY <2>5
      <4>5. x < y
        BY <4>1, <4>2
      <4>6. Up(x, z) < Up(y, z)
        BY <4>5 DEF Up
      <4> QED
        BY <4>3, <4>4, <4>6
    <3>2. CASE i \in DOMAIN s /\ j = Len(s) + 1
      <4>1. s[i].index < row.index
        BY <2>3, <2>4, <2>6, <3>2 DEF FitsBack
      <4> QED
        BY <2>4, <2>5, <3>2, <4>1 DEF Up
    <3>3. CASE i = Len(s) + 1 /\ j \in DOMAIN s
      <4>1. row.index <= s[j].index
        BY <2>3, <2>4, <2>6, <3>3 DEF FitsBack
      <4> QED
        BY <2>4, <2>5, <3>3, <4>1 DEF Up
    <3>4. CASE i = Len(s) + 1 /\ j = Len(s) + 1
      <4>1. row.id \in 1..n /\ row.id < row.id
        BY <2>4, <2>6, <3>4
      <4> QED
        BY <4>1
    <3> QED
      BY <2>4, <3>1, <3>2, <3>3, <3>4
  <2> QED
    BY <2>6 DEF Climbing
<1> QED
  BY <1>4, <1>9, <1>10, <1>11, <1>13, <1>14, <1>15 DEF Backed

LEMMA StackBacked ==
  ASSUME NEW p, NEW s, NEW n, Leading(p, s, n)
  PROVE  Backed(FoldRight(TakenBack, p, s), p, 1, n)
<1>1. Len(p) \in Nat /\ DOMAIN p = 1..Len(p) /\ IsSeq(p)
  BY IsSeqDomain DEF Leading, IsOps
<1>2. PICK acc : Unwinds(acc, Len(p), p, s)
  BY <1>1, StackUnwinds
<1>3. acc[Len(p) + 1] = s /\ \A i \in 1..Len(p) : acc[i] = TakenBack(p[i], acc[i + 1])
  BY <1>2 DEF Unwinds
<1> DEFINE taken(i) == i = Len(p) + 1 /\ p # <<>> /\ p[Len(p)].kind = "delete"
           T == {i \in 1..Len(p) + 1 : taken(i) \/ Backed(acc[i], p, i, n)}
<1>4. Len(p) + 1 \in T
  <2>1. CASE \A k \in DOMAIN p : p[k].kind # "delete"
    BY <1>1, <1>3, <2>1, StoreBacked
  <2>2. CASE \E k \in DOMAIN p : p[k].kind = "delete"
    <3>1. p[Len(p)].kind = "delete" /\ p # <<>>
      BY <1>1, <2>2 DEF Leading
    <3> QED
      BY <1>1, <3>1
  <2> QED
    BY <2>1, <2>2
<1>5. ASSUME NEW i \in 1..Len(p), i + 1 \in T PROVE i \in T
  <2>1. i \in DOMAIN p /\ p[i].kind \in Recorded /\ acc[i] = TakenBack(p[i], acc[i + 1])
    BY <1>1, <1>3 DEF Leading
  <2>2. CASE p[i].kind = "delete"
    <3>1. i = Len(p) /\ p # <<>>
      BY <1>1, <2>1, <2>2 DEF Leading
    <3>2. Backed(acc[i], p, i, n)
      BY <1>3, <2>1, <2>2, <3>1, DeletionBacked
    <3> QED
      BY <1>1, <3>2
  <2>3. CASE p[i].kind # "delete"
    <3>1. ~taken(i + 1)
      BY <1>1, <2>3
    <3>2. Backed(acc[i + 1], p, i + 1, n)
      BY <1>5, <3>1
    <3>3. CASE p[i].kind = "create"
      <4>1. Makes(ToSet(p), p[i].row.id)
        BY <2>1, <3>3 DEF Makes, ToSet
      <4>2. p[i].row.id \notin 1..n
        BY <4>1 DEF Leading, LedBy, Everyone
      <4>3. Backed(acc[i], p, i, n)
        BY <1>1, <2>1, <3>2, <3>3, <4>2, CreationBacked
      <4> QED
        BY <1>1, <4>3
    <3>4. CASE p[i].kind = "reorder"
      <4>1. n \in Nat /\ IsPlaces(p[i].ids) /\ (FirstMove(p, i) => Ascending(p[i].ids, n))
        BY <2>1 DEF Leading, IsOps, IsOp, LedBy
      <4>2. Backed(acc[i], p, i, n)
        BY <1>1, <2>1, <3>2, <3>4, <4>1, MoveBacked
      <4> QED
        BY <1>1, <4>2
    <3> QED
      BY <2>1, <2>3, <3>3, <3>4 DEF Recorded
  <2> QED
    BY <2>2, <2>3
<1>6. 1 \in T
  <2> HIDE DEF T
  <2> QED
    BY <1>1, <1>4, <1>5, ClimbsDown
<1>7. ~taken(1)
  <2>1. p # <<>> => Len(p) # 0
    BY <1>1, LastOf
  <2> QED
    BY <1>1, <2>1
<1>8. Backed(acc[1], p, 1, n)
  BY <1>6, <1>7
<1> QED
  BY <1>2, <1>8 DEF Unwinds

\* Nothing is left to take back: the blocks are the first, in their order.
LEMMA BackedToTheFirst ==
  ASSUME NEW s, NEW p, IsSeq(p), NEW n \in Nat, Backed(s, p, 1, n)
  PROVE  Order(s) = [k \in 1..n |-> k]
<1>1. \A l \in DOMAIN p : ~(l < 1)
  BY IsSeqDomain
<1>2. Ids(s) = 1..n /\ OnceEach(s) /\ Climbing(s, n) /\ \A k \in DOMAIN s : s[k].id \in 1..n => s[k].index \in Int
  BY <1>1 DEF Backed
<1>3. IsRows(s)
  BY <1>2 DEF Ids, IsRows, IsRow, Backed, AreLoose, IsLoose
<1>4. Ascending(Order(s), n)
  BY <1>2, <1>3, OrderAscends
<1>5. PICK ids : ids = Order(s)
  OBVIOUS
<1>6. PICK m : m = Len(s)
  OBVIOUS
<1>7. m \in Nat /\ DOMAIN ids = 1..m /\ \A k \in 1..m : ids[k] \in 1..n
  BY <1>2, <1>3, <1>5, <1>6, RankedRows DEF Ids
<1>8. /\ \A b \in 1..n : \E k \in 1..m : ids[k] = b
      /\ \A k, l \in 1..m : k < l => ids[k] < ids[l]
  BY <1>4, <1>5, <1>7 DEF Ascending
<1> DEFINE T == {k \in 0..m : k = 0 \/ ids[k] = k}
<1>9. ASSUME NEW k \in 1..m, k - 1 \in T PROVE k \in T
  <2>1. ids[k] \in 1..n /\ ids[k] \in Int
    BY <1>7
  <2>2. k - 1 >= 1 => ids[k - 1] = k - 1
    BY <1>9
  <2>3. ids[k] >= k
    <3>1. CASE k = 1
      BY <2>1, <3>1
    <3>2. CASE k # 1
      <4>1. k - 1 \in 1..m /\ k - 1 < k
        BY <1>7, <3>2
      <4>2. ids[k - 1] < ids[k]
        BY <1>8, <4>1
      <4> QED
        BY <2>1, <2>2, <4>1, <4>2
    <3> QED
      BY <3>1, <3>2
  <2>4. ASSUME ids[k] > k PROVE FALSE
    <3>1. k \in 1..n
      BY <2>1, <2>4
    <3>2. PICK j \in 1..m : ids[j] = k
      BY <1>8, <3>1
    <3>3. CASE j < k
      <4>1. k - 1 >= 1 /\ k - 1 \in 1..m
        BY <1>7, <3>3
      <4>2. j = k - 1 \/ j < k - 1
        BY <1>7, <3>3
      <4>3. j < k - 1 => ids[j] < ids[k - 1]
        BY <1>8, <4>1
      <4> QED
        BY <2>2, <3>2, <4>1, <4>2, <4>3
    <3>4. CASE j = k
      BY <2>4, <3>2, <3>4
    <3>5. CASE k < j
      <4>1. ids[k] < ids[j]
        BY <1>8, <3>5
      <4> QED
        BY <2>1, <2>4, <3>2, <4>1
    <3> QED
      BY <3>3, <3>4, <3>5
  <2> QED
    BY <2>1, <2>3, <2>4
<1>10. 0..m \subseteq T
  <2>1. 0 \in T
    BY <1>7
  <2> HIDE DEF T
  <2> QED
    BY <1>7, <1>9, <2>1, ClimbsUp
<1>11. \A k \in 1..m : ids[k] = k
  <2>1. ASSUME NEW k \in 1..m PROVE ids[k] = k
    <3>1. k \in 0..m /\ k # 0
      BY <1>7
    <3> QED
      BY <1>10, <3>1
  <2> QED
    BY <2>1
<1> HIDE DEF T
<1>12. m = n
  <2>1. \A b \in 1..n : b \in 1..m
    BY <1>8, <1>11
  <2>2. \A k \in 1..m : k \in 1..n
    BY <1>7, <1>11
  <2>3. n # 0 => n <= m
    <3>1. ASSUME n # 0 PROVE n <= m
      <4>1. n \in 1..n
        BY <3>1
      <4> QED
        BY <2>1, <4>1
    <3> QED
      BY <3>1
  <2>4. m # 0 => m <= n
    <3>1. ASSUME m # 0 PROVE m <= n
      <4>1. m \in 1..m
        BY <1>7, <3>1
      <4> QED
        BY <2>2, <4>1
    <3> QED
      BY <3>1
  <2> QED
    BY <1>7, <2>3, <2>4
<1>13. ids = [k \in DOMAIN ids |-> ids[k]]
  BY <1>5 DEF Order
<1> QED
  BY <1>5, <1>7, <1>11, <1>12, <1>13

LEMMA LeadsBack ==
  ASSUME EditorInv, UniqueInv, LeadsInv
  PROVE  PastLeadsBack
<1> SUFFICES ASSUME Quiet, ~misread, ~overtaken, ~tangled, ~refused, DeletionLast
             PROVE  Order(FoldRight(TakenBack, past, store)) = [k \in 1..opening |-> k]
  BY DEF PastLeadsBack
<1>1. Straight /\ (Lost \/ Led) /\ Unique
  BY DEF LeadsInv, UniqueInv, Sure
<1>2. flight = <<>> /\ held = <<>> /\ applying = Idle
  BY DEF Quiet
<1>3. ToSet(flight) = {} /\ ToSet(held) = {} /\ DOMAIN flight = {}
  BY <1>2 DEF ToSet
<1>4. IsOps(past) /\ IsSeq(past) /\ Len(past) \in Nat /\ DOMAIN past = 1..Len(past)
  BY StackIs DEF EditorInv, HistoryInv
<1>5. ~Lost
  <2>1. ~UndoMeetsGesture
    BY <1>2 DEF UndoMeetsGesture
  <2>2. ~Precedes(flight)
    BY <1>3 DEF Precedes
  <2>3. ~Buried(past, \/ future # <<>> \/ applying # Idle \/ \E j \in DOMAIN flight : Enters(flight[j]))
    BY <1>2, <1>3, <1>4 DEF Buried, DeletionLast
  <2> QED
    BY <2>1, <2>2, <2>3 DEF Lost
<1>6. Deeds = ToSet(past)
  BY <1>3 DEF Deeds, EntriesOf
<1>7. \A k \in DOMAIN past : past[k].kind \in Recorded /\ (past[k].kind = "delete" => k = Len(past))
  BY <1>1 DEF Straight, DeletionLast
<1>8. IsRows(store) /\ OnceEach(store) /\ opening \in Nat
  BY <1>1 DEF EditorInv, Unique, Straight
<1>9. Leading(past, store, opening)
  BY <1>1, <1>4, <1>5, <1>6, <1>7, <1>8 DEF Leading, Led
<1>10. PICK s : s = FoldRight(TakenBack, past, store)
  OBVIOUS
<1>11. Backed(s, past, 1, opening)
  BY <1>9, <1>10, StackBacked
<1>12. Order(s) = [k \in 1..opening |-> k]
  BY <1>4, <1>8, <1>11, BackedToTheFirst
<1> QED
  BY <1>10, <1>12

\* The undo stack, unwound, leads back to the page as it was loaded, in
\* whatever order the answers came that recorded it, short of a refusal, a
\* listing that went astray, requests that overtook one they do not commute
\* with, a deletion placed from before an undo, and a deletion that anything
\* was done after.  (historyStore.ts: undo, pushed to by blockStore.ts.)
THEOREM StackLeadsBack == EditorSpec => []PastLeadsBack
<1>1. EditorInit => EditorInv /\ CalmInv /\ UniqueInv /\ LeadsInv
  BY InitKeeps, CalmInit, UniqueInit, LeadsInit
<1>2. EditorInv /\ CalmInv /\ UniqueInv /\ LeadsInv /\ [EditorNext]_editorVars
        => (EditorInv /\ CalmInv /\ UniqueInv /\ LeadsInv)'
  <2> SUFFICES ASSUME EditorInv, CalmInv, UniqueInv, LeadsInv, [EditorNext]_editorVars
               PROVE  EditorInv' /\ CalmInv' /\ UniqueInv' /\ LeadsInv'
    OBVIOUS
  <2>1. EditorInv' /\ CalmInv'
    BY StepKeeps, CalmStep
  <2>2. UniqueInv' /\ LeadsInv'
    BY <2>1, UniqueStep, LeadsStep
  <2> QED
    BY <2>1, <2>2
<1>3. EditorInv /\ UniqueInv /\ LeadsInv => PastLeadsBack
  BY LeadsBack
<1> QED
  BY <1>1, <1>2, <1>3, PTL DEF EditorSpec
=============================================================================
