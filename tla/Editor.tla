------------------------------- MODULE Editor -------------------------------
(***************************************************************************)
(* A page being written: the block editors on the screen                   *)
(* (packages/app/src/components/BlockEditor.tsx and                        *)
(* BlockNavigationExtension.ts), the block store (stores/blockStore.ts),   *)
(* the undo stack (stores/historyStore.ts), the requests they send, in any *)
(* order on the wire, and the server's table (Blocks).                     *)
(*                                                                         *)
(* One author, one page, text blocks of two kinds: paragraphs, and lists   *)
(* of one item.  A content is its tag and its letters.  React's effects    *)
(* run in the step that changes the store.                                 *)
(***************************************************************************)
EXTENDS Blocks

CONSTANTS
  NoBlock,
  MaxOpening, \* blocks of the page when it is loaded, at most
  MaxEvents   \* those, the user's gestures and the refusals, together; Mod-Enter
              \* inside a block counts twice

ASSUME OpeningAssumption == MaxOpening \in Nat /\ 1..MaxOpening \subseteq Block

Para(text) == [tag |-> "p", text |-> text]

\* blockTypeFromHtml: the tag decides.
TypeOf(html) == IF html.tag = "ul" THEN "bulletList" ELSE "paragraph"

VARIABLES
  store,    \* useBlockStore.blocks, in the array's order
  shown,    \* what each block's editor displays
  saved,    \* each editor's savedContentRef
  timers,   \* the blocks whose debounced save is pending
  caret,    \* the block whose editor has the focus
  flight,   \* the requests on the wire, in the order they were sent
  held,     \* the writes that wait for their block's creation
  past, future, applying,  \* useHistoryStore
  made,     \* ids chosen so far
  typed,    \* letters typed so far
  opening,  \* blocks at the start
  events,   \* those, gestures and refusals so far
  \* What happened on the way, for the properties:
  refused,   \* a request failed
  overtaken, \* a request or an answer overtook one it does not commute with
  misread,   \* a listing replaced rows that had gone on changing, or failed
  tangled,   \* an undo gave a block a new id, or was under way together with a
             \* gesture, or the stack has entries in another order than the gestures
  returned,  \* an edit made a block read as savedContentRef has it, whatever
             \* Enter, Backspace and the like have sent since
  uncut      \* Mod-Enter divided a block and left the whole of it in the editor

screen  == <<shown, saved, timers, caret>>
history == <<past, future, applying>>
bounds  == <<opening, made, typed, events>>
marks   == <<refused, overtaken, misread, tangled, returned, uncut>>
editorVars ==
  <<table, store, screen, flight, held, history, bounds, marks>>

-----------------------------------------------------------------------------
(* The store's array.                                                      *)

\* What s has at the places I, in the order of s.
Picked(s, I) ==
  [k \in 1..Cardinality(I) |->
     s[CHOOSE i \in I : Cardinality({j \in I : j < i}) = k - 1]]

Ids(s) == {s[i].id : i \in DOMAIN s}
RowIn(s, b) == s[CHOOSE i \in DOMAIN s : s[i].id = b]
StoreRow(b, html, type, index) ==
  [id |-> b, html |-> html, type |-> type, index |-> index]

\* sortedBlocks, liveBlocks: a stable sort by index.
Ordered(s) ==
  LET Earlier(i, j) == \/ s[i].index < s[j].index
                       \/ s[i].index = s[j].index /\ i < j
      Before(j) == Cardinality({i \in DOMAIN s : Earlier(i, j)})
  IN  [k \in DOMAIN s |-> s[CHOOSE j \in DOMAIN s : Before(j) = k - 1]]
Order(s) == LET o == Ordered(s) IN [k \in DOMAIN o |-> o[k].id]

Put(s, b, html, type) ==
  [i \in DOMAIN s |->
     IF s[i].id = b THEN [s[i] EXCEPT !.html = html, !.type = type] ELSE s[i]]
Drop(s, b) == Picked(s, {i \in DOMAIN s : s[i].id # b})

Shift(s, Moves(_), by(_)) ==
  [i \in DOMAIN s |-> IF Moves(s[i]) THEN [s[i] EXCEPT !.index = by(@)] ELSE s[i]]
Opened(s, index) == Shift(s, LAMBDA r : r.index >= index, LAMBDA n : n + 1)
Closed(s, index) == Shift(s, LAMBDA r : r.index > index, LAMBDA n : n - 1)

Adopted(t) ==
  LET ids == ListBlocks(t)
  IN  [i \in DOMAIN ids |->
         StoreRow(ids[i], t[ids[i]].html, t[ids[i]].type, t[ids[i]].index)]

\* The store becomes s while focus has the focus.  Editors of new blocks mount
\* with their content; any other whose row changed takes its content over.
ShowFrom(s, display, known, focus) ==
  LET Mounts(b) == b \in Ids(s) \ Ids(store)
      Syncs(b)  == /\ b \in Ids(s) \intersect Ids(store) /\ b # focus
                   /\ RowIn(s, b) # RowIn(store, b)
  IN  /\ store' = s
      /\ shown' = [b \in Block |-> IF Mounts(b) \/ Syncs(b)
                                   THEN RowIn(s, b).html ELSE display[b]]
      /\ saved' = [b \in Block |-> IF Mounts(b) THEN RowIn(s, b).html
                                   ELSE known[b]]
Show(s) == ShowFrom(s, shown, saved, caret)

\* The focus leaves an editor that goes away.
CaretIn(s) == IF caret \in Ids(s) THEN caret ELSE NoBlock

-----------------------------------------------------------------------------
(* Requests.                                                               *)

NoRow == StoreRow(NoBlock, Para(<<>>), "paragraph", 0)
Request(kind, row) ==
  [kind |-> kind, row |-> row, old |-> NoRow, ids |-> <<>>, prev |-> <<>>,
   by |-> "user", state |-> "sent", rows |-> <<>>]

InFlightCreate(b) ==
  \E i \in DOMAIN flight : flight[i].kind = "create" /\ flight[i].row.id = b

\* The calls of one gesture.  afterCreate: a write to a block whose creation
\* is unanswered waits for the answer.
AfterCreate(r) ==
  r.kind \in {"update", "delete"} /\ InFlightCreate(r.row.id)
Send(requests) ==
  LET waiting == {i \in DOMAIN requests : AfterCreate(requests[i])}
  IN  /\ flight' = flight \o Picked(requests, DOMAIN requests \ waiting)
      /\ held' = held \o Picked(requests, waiting)

\* An update that leaves the type column alone.
Keep == "keep"

Create(row) == Request("create", row)
Update(b, html, type) ==
  [Request("update", StoreRow(b, html, type, 0)) EXCEPT
     !.old = IF b \in Ids(store) THEN RowIn(store, b) ELSE NoRow]
Delete(b) == Request("delete", RowIn(store, b))
ReorderForgetful(ids) ==
  [Request("reorder", NoRow) EXCEPT !.ids = ids, !.prev = ids]
Reorder(ids) ==
  [Request("reorder", NoRow) EXCEPT !.ids = ids, !.prev = Order(store)]

\* Requests of gestures whose answers put an entry on the undo stack.
Recorded == {"create", "delete", "reorder"}
Enters(r) == r.by = "user" /\ r.kind \in Recorded

-----------------------------------------------------------------------------
(* The undo stack.                                                         *)

Op(kind, row, ids) == [kind |-> kind, row |-> row, ids |-> ids]
Idle == [way |-> "none", inverse |-> Op("none", NoRow, <<>>)]

Record(op) ==
  IF applying # Idle THEN UNCHANGED history
  ELSE past' = Append(past, op) /\ future' = <<>> /\ UNCHANGED applying

\* The inverse succeeded: its entry moves to the other stack.
Finish(way, inverse) ==
  /\ applying' = Idle
  /\ IF way = "undo"
     THEN past' = Front(past) /\ future' = Append(future, inverse)
     ELSE future' = Front(future) /\ past' = Append(past, inverse)

-----------------------------------------------------------------------------
(* What the user does.  A click into a block is part of what is then done  *)
(* there.                                                                  *)

Gesture == events < MaxEvents /\ events' = events + 1
At(b) == Gesture /\ b \in Ids(store)
Fresh == made + 1
ChooseId == Fresh \in Block /\ made' = Fresh

\* A click into a block that shows something else than the store has.  (Others
\* matter for what is then done there, and are part of that.)
Click(b) ==
  /\ b \in Ids(store) /\ RowIn(store, b).html # shown[b]
  /\ caret' = b
  /\ UNCHANGED <<table, store, shown, saved, timers, flight, held, history,
                 bounds, marks>>
\* Escape, or a click beside the blocks.
Blur ==
  /\ caret' = NoBlock
  /\ UNCHANGED <<table, store, shown, saved, timers, flight, held, history,
                 bounds, marks>>

\* onUpdate: the store follows every keystroke, the save waits.
SetLocalContentLater(b, html) == store
SetLocalContent(b, html) == Put(store, b, html, TypeOf(html))
Edit(b, html) ==
  /\ store' = SetLocalContent(b, html)
  /\ shown' = [shown EXCEPT ![b] = html]
  /\ timers' = timers \union {b}
  /\ caret' = b
  /\ returned' = (returned \/ html = saved[b])
  /\ UNCHANGED <<table, saved, flight, held, history, opening, made,
                 refused, overtaken, misread, tangled, uncut>>

\* A new letter, or the one that stood there at the last save.
Letters(b) ==
  LET n == Len(shown[b].text) + 1
  IN  {typed + 1} \union IF n \in DOMAIN saved[b].text THEN {saved[b].text[n]} ELSE {}
Type(b) ==
  /\ At(b)
  /\ \E letter \in Letters(b) :
       /\ typed' = Max({typed, letter})
       /\ Edit(b, [shown[b] EXCEPT !.text = Append(@, letter)])

\* "- " at the start of a paragraph.
MakeList(b) ==
  /\ At(b) /\ shown[b].tag = "p"
  /\ Edit(b, [shown[b] EXCEPT !.tag = "ul"])
  /\ UNCHANGED typed

\* The debounced save.  The type goes along when the block's row has another.
LiveType(b) ==
  IF b \in Ids(store) /\ RowIn(store, b).type # TypeOf(shown[b])
  THEN TypeOf(shown[b]) ELSE Keep
SaveNeededByStore(b) ==
  b \in Ids(store) /\ RowIn(store, b).html # shown[b]
SaveNeeded(b) == shown[b] # saved[b] \/ LiveType(b) # Keep
TimerFires(b) ==
  /\ b \in timers
  /\ timers' = timers \ {b}
  /\ IF SaveNeeded(b)
     THEN /\ saved' = [saved EXCEPT ![b] = shown[b]]
          /\ store' = SetLocalContent(b, shown[b])
          /\ Send(<<Update(b, shown[b], LiveType(b))>>)
     ELSE UNCHANGED <<saved, store, flight, held>>
  /\ UNCHANGED <<table, shown, caret, history, bounds, marks>>

\* splitBlock: the caret goes to the new block, whose creation is posted at
\* once; the update first takes a turn of the event loop, in afterCreate.
SplitBlock(b, before, after, type, display) ==
  LET current == RowIn(store, b)
      new == StoreRow(Fresh, after, TypeOf(after), current.index + 1)
      kept == Put(store, b, before, IF type = Keep THEN current.type ELSE type)
  IN  /\ ChooseId
      /\ ShowFrom(Append(Opened(kept, new.index), new), display, saved, b)
      /\ Send(<<Create(new), Update(b, before, type)>>)
      /\ caret' = Fresh
      /\ UNCHANGED <<table, timers, history, opening, typed,
                     refused, overtaken, misread, tangled, returned>>

\* Enter: the editor is cut down to the first half before the split, and the
\* type goes along when the block's row has another.  A list goes on as a list,
\* anything else as a paragraph.
Upto(text, k) == SubSeq(text, 1, k)
From(text, k) == SubSeq(text, k + 1, Len(text))
Cut(b, html) == [shown EXCEPT ![b] = html]
Enter(b, k) ==
  /\ At(b)
  /\ LET html == shown[b]
         before == [html EXCEPT !.text = Upto(@, k)]
         after == [html EXCEPT !.text = From(@, k)]
     IN  /\ k \in 0..Len(html.text)
         /\ ~(html.tag = "ul" /\ html.text = <<>>)
         /\ SplitBlock(b, before, after, LiveType(b), Cut(b, before))
  /\ UNCHANGED uncut

\* Mod-Enter inside a block: both halves are sent as paragraphs, and the editor
\* is left as it is.  The end of a list's text is inside the list.
ModEnter(b, k) ==
  /\ b \in Ids(store) /\ events + 2 <= MaxEvents /\ events' = events + 2
  /\ LET html == shown[b]
     IN  /\ k \in 0..Len(html.text) /\ (k = Len(html.text) => html.tag = "ul")
         /\ SplitBlock(b, Para(Upto(html.text, k)), Para(From(html.text, k)), Keep, shown)
  /\ uncut' = TRUE

\* Backspace at the start of a list, Enter in an empty one: convertTo.
LeaveList(b) ==
  /\ At(b) /\ shown[b].tag = "ul"
  /\ LET html == Para(shown[b].text)
     IN  /\ shown' = [shown EXCEPT ![b] = html]
         /\ store' = Put(store, b, html, "paragraph")
         /\ Send(<<Update(b, html, "paragraph")>>)
  /\ caret' = b
  /\ UNCHANGED <<table, saved, timers, history, opening, made, typed, marks>>

\* createBlock, the store's part.
CreateLocally(row, focus) ==
  /\ ChooseId
  /\ ShowFrom(Append(Opened(store, row.index), row), shown, saved, focus)
  /\ Send(<<Create(row)>>)
  /\ UNCHANGED <<table, timers, history, opening, typed, marks>>

\* Mod-Enter at the end of a block, and the handle's button for one below.
InsertBlockAfter(b) ==
  /\ At(b)
  /\ CreateLocally(StoreRow(Fresh, Para(<<>>), "paragraph",
                            RowIn(store, b).index + 1), b)
  /\ caret' = Fresh

DuplicateBlock(b) ==
  /\ At(b)
  /\ CreateLocally([RowIn(store, b) EXCEPT !.id = Fresh, !.index = @ + 1], caret)
  /\ UNCHANGED caret

\* mergeBlocks, as the store has the two; the result is pushed into the
\* surviving editor, which takes it for saved.
Merged(prev, current) == Para(prev.html.text \o current.html.text)
MergeBlocks(p, c) ==
  LET html == Merged(RowIn(store, p), RowIn(store, c))
      kept == Put(store, p, html, RowIn(store, p).type)
  IN  /\ ShowFrom(Drop(kept, c), [shown EXCEPT ![p] = html],
                  [saved EXCEPT ![p] = html], p)
      /\ Send(<<Update(p, html, Keep), Delete(c)>>)
      /\ caret' = p
      /\ UNCHANGED <<table, timers, history, opening, made, typed, marks>>

\* Backspace at the start of anything but a list, Delete at the end.
Backspace(i) ==
  /\ Gesture /\ i \in 2..Len(store)
  /\ shown[Order(store)[i]].tag = "p"
  /\ MergeBlocks(Order(store)[i - 1], Order(store)[i])
ForwardDelete(i) ==
  /\ Gesture /\ i \in 1..Len(store) - 1
  /\ MergeBlocks(Order(store)[i], Order(store)[i + 1])

\* deleteBlock, from the block's menu.
RemoveBlock(b) ==
  /\ At(b)
  /\ Show(Drop(store, b))
  /\ Send(<<Delete(b)>>)
  /\ caret' = CaretIn(Drop(store, b))
  /\ UNCHANGED <<table, timers, history, opening, made, typed, marks>>

\* moveBlock, a drag to the next place, Cmd+Shift+Arrow: the whole order goes
\* to the server, and the store waits for its answer.
Swapped(ids, i) == [ids EXCEPT ![i] = ids[i + 1], ![i + 1] = ids[i]]
MoveBlock(i) ==
  /\ Gesture /\ i \in 1..Len(store) - 1
  /\ Send(<<Reorder(Swapped(Order(store), i))>>)
  /\ UNCHANGED <<table, store, screen, history, opening, made, typed, marks>>

\* The inverse of an entry, on the store and the wire: of a creation whose
\* block is there, of one whose block is gone, of a deletion (a creation under
\* a new id, then a listing) and of a move.
Revert(way, op) ==
  LET b == op.row.id
      Pending(kind, row, ids) ==
        applying' = [way |-> way, inverse |-> Op(kind, row, ids)]
                      /\ UNCHANGED <<past, future>>
      Post(r) == Send(<<[r EXCEPT !.by = way]>>)
      Untouched == UNCHANGED <<store, shown, saved>>
      again == [op.row EXCEPT !.id = Fresh]
  IN  \/ /\ op.kind = "create" /\ b \in Ids(store)
         /\ Show(Drop(store, b)) /\ Post(Delete(b))
         /\ Pending("delete", RowIn(store, b), <<>>)
         /\ UNCHANGED made
      \/ /\ op.kind = "create" /\ b \notin Ids(store)
         /\ Finish(way, Op("delete", op.row, <<>>))
         /\ Untouched /\ UNCHANGED <<flight, held, made>>
      \/ /\ op.kind = "delete"
         /\ ChooseId /\ Post(Request("recreate", again))
         /\ Pending("create", again, <<>>)
         /\ Untouched
      \/ /\ op.kind = "reorder"
         /\ Post(Reorder(op.ids))
         /\ Pending("reorder", NoRow, Order(store))
         /\ Untouched /\ UNCHANGED made

\* Only while no editor has the caret, and one at a time.
Apply(way, op) ==
  /\ Gesture
  /\ caret = NoBlock /\ applying = Idle
  /\ Revert(way, op)
  /\ tangled' = (tangled \/ op.kind = "delete"
                         \/ \E j \in DOMAIN flight : Enters(flight[j]))
  /\ UNCHANGED <<table, timers, caret, opening, typed, refused, overtaken,
                 misread, returned, uncut>>

Undo == past # <<>> /\ Apply("undo", Last(past))
Redo == future # <<>> /\ Apply("redo", Last(future))

-----------------------------------------------------------------------------
(* The server.  Requests reach it in any order.                            *)

Structural == {"create", "recreate", "reorder", "relist"}
Disturbs(r, q) ==
  \/ r.kind \in Structural /\ q.kind \in Structural
  \/ r.kind = "update" /\ q.kind = "update" /\ r.row.id = q.row.id
Overtakes(i) ==
  \E j \in 1..i - 1 : flight[j].state = "sent" /\ Disturbs(flight[i], flight[j])

Answer(i, state, rows) ==
  flight' = [flight EXCEPT ![i].state = state, ![i].rows = rows]

\* The client does nothing with the answer to an update that was written.
ServeUpdate(i) ==
  LET r == flight[i]
  IN  /\ UpdateBlock(r.row.id, r.row.html,
                     IF r.row.type = Keep THEN table[r.row.id].type
                     ELSE r.row.type)
      /\ flight' = RemoveAt(flight, i)

Serve(i) ==
  /\ flight[i].state = "sent"
  /\ LET r == flight[i]
     IN  \/ /\ r.kind \in {"create", "recreate"}
            /\ CreateBlock(r.row.id, r.row.html, r.row.type, r.row.index)
            /\ Answer(i, "done", <<>>)
         \/ r.kind = "update" /\ ServeUpdate(i)
         \/ /\ r.kind = "delete" /\ DeleteBlock(r.row.id)
            /\ Answer(i, "done", <<>>)
         \/ /\ r.kind \in {"update", "delete"}  \* NotFound
            /\ r.row.id \notin DOMAIN table
            /\ Answer(i, "refused", <<>>)
            /\ UNCHANGED table
         \/ /\ r.kind = "reorder" /\ ReorderBlocks(r.ids)
            /\ Answer(i, "done", Adopted(table'))
         \/ /\ r.kind = "relist"
            /\ Answer(i, "done", Adopted(table))
            /\ UNCHANGED table
  /\ overtaken' = (overtaken \/ Overtakes(i))
  /\ UNCHANGED <<store, screen, held, history, bounds, refused, misread, tangled, returned, uncut>>

Refuse(i) ==
  /\ events < MaxEvents /\ events' = events + 1
  /\ refused' = TRUE
  /\ flight[i].state = "sent"
  /\ Answer(i, "refused", <<>>)
  /\ UNCHANGED <<table, store, screen, held, history, opening, made,
                 typed, overtaken, misread, tangled, returned, uncut>>

-----------------------------------------------------------------------------
(* The answers.                                                            *)

Answered(i, kind, state) == flight[i].kind = kind /\ flight[i].state = state
Settled(i) == flight' = RemoveAt(flight, i) /\ UNCHANGED held

ReleasedNever(i) == Settled(i)
\* What waited for the creation is sent whatever became of it.
Released(i) ==
  LET waited == {j \in DOMAIN held : held[j].row.id = flight[i].row.id}
  IN  /\ flight' = RemoveAt(flight, i) \o Picked(held, waited)
      /\ held' = Picked(held, DOMAIN held \ waited)

CreatedAdopting(i) ==
  /\ Answered(i, "create", "done")
  /\ Record(Op("create", flight[i].row, <<>>))
  /\ Released(i)
  /\ LET r == flight[i].row IN Show(Put(store, r.id, r.html, r.type))
  /\ UNCHANGED caret
\* The answer carries nothing the store does not hold.
Created(i) ==
  /\ Answered(i, "create", "done")
  /\ Record(Op("create", flight[i].row, <<>>))
  /\ Released(i)
  /\ UNCHANGED <<store, shown, saved, caret>>

CreateFailed(i) ==
  /\ Answered(i, "create", "refused")
  /\ LET remaining == Closed(Drop(store, flight[i].row.id), flight[i].row.index)
     IN  Show(remaining) /\ caret' = CaretIn(remaining)
  /\ Released(i)
  /\ UNCHANGED history

\* The row as it was goes back, if the block still holds what was not saved.
RolledBack(r) ==
  [k \in DOMAIN store |->
     IF store[k].id = r.row.id /\ store[k].html = r.row.html /\ r.old # NoRow
     THEN r.old ELSE store[k]]
UpdateFailed(i) ==
  /\ Answered(i, "update", "refused")
  /\ Show(RolledBack(flight[i]))
  /\ Settled(i)
  /\ UNCHANGED <<caret, history>>

Deleted(i) ==
  /\ Answered(i, "delete", "done")
  /\ IF flight[i].by = "user" THEN Record(Op("delete", flight[i].row, <<>>))
     ELSE Finish(flight[i].by, applying.inverse)
  /\ Settled(i)
  /\ UNCHANGED <<store, shown, saved, caret>>

PutBackNever(row) == store
PutBack(row) == IF row.id \in Ids(store) THEN store ELSE Append(store, row)
\* deleteBlock swallows the failure: an undo counts as done.
DeleteFailed(i) ==
  /\ Answered(i, "delete", "refused")
  /\ Show(PutBack(flight[i].row))
  /\ IF flight[i].by = "user" THEN UNCHANGED history
     ELSE Finish(flight[i].by, applying.inverse)
  /\ Settled(i)
  /\ UNCHANGED caret

\* A whole list of rows takes the store's place.  They are new objects, so that
\* every editor takes its row over but the one that has the focus.
Adopt(rows) ==
  /\ ShowFrom(rows, [b \in Block |-> IF b \in Ids(rows) /\ b # caret
                                     THEN RowIn(rows, b).html ELSE shown[b]], saved, caret)
  /\ caret' = CaretIn(rows)

\* reorderBlocks swallows its failure as well.
ReorderAnswered(i) ==
  /\ flight[i].kind = "reorder" /\ flight[i].state # "sent"
  /\ IF flight[i].state = "done" THEN Adopt(flight[i].rows)
     ELSE UNCHANGED <<store, shown, saved, caret>>
  /\ IF flight[i].by # "user" THEN Finish(flight[i].by, applying.inverse)
     ELSE IF flight[i].state = "done"
          THEN Record(Op("reorder", NoRow, flight[i].prev))
          ELSE UNCHANGED history
  /\ Settled(i)

Recreated(i) ==
  /\ Answered(i, "recreate", "done")
  /\ flight' = Append(RemoveAt(flight, i),
                      [Request("relist", NoRow) EXCEPT !.by = flight[i].by])
  /\ UNCHANGED <<store, shown, saved, caret, history, held>>

Relisted(i) ==
  /\ Answered(i, "relist", "done")
  /\ Adopt(flight[i].rows)
  /\ Finish(flight[i].by, applying.inverse)
  /\ Settled(i)

\* guarded rethrows: the entry stays on its stack.
UndoFailed(i) ==
  /\ flight[i].kind \in {"recreate", "relist"} /\ flight[i].state = "refused"
  /\ applying' = Idle
  /\ Settled(i)
  /\ UNCHANGED <<store, shown, saved, caret, past, future>>

Listing == {"reorder", "relist"}
\* Does taking these rows over change more than the undone deletion?
Contents(s) == {<<s[k].id, s[k].html>> : k \in DOMAIN s}
ReplacesMore(r) ==
  /\ r.kind \in Listing /\ r.state = "done"
  /\ Contents(r.rows) # Contents(store) \union
       IF r.kind = "reorder" THEN {} ELSE Contents(<<applying.inverse.row>>)
\* A listing also undoes the room made for a block whose creation is still out.
AnswerOvertakes(i) ==
  \/ \E j \in 1..i - 1 : {flight[i].kind, flight[j].kind} \subseteq Structural
  \/ flight[i].kind \in Listing /\ \E j \in DOMAIN flight : flight[j].kind = "create"
\* A gesture's entry is lost, or made against what the undo is about to change.
UndoMeetsGesture ==
  applying # Idle /\ \E j \in DOMAIN flight : Enters(flight[j])
\* Is an entry recorded while one of an earlier gesture is still out?
HeldDelete(b) ==
  \E j \in DOMAIN held : held[j].kind = "delete" /\ held[j].row.id = b
RecordedLate(i) ==
  /\ Enters(flight[i])
  /\ \/ \E j \in 1..i - 1 : Enters(flight[j])
     \/ /\ HeldDelete(flight[i].row.id)
        /\ \E j \in DOMAIN flight \ {i} : Enters(flight[j])

Reply(i) ==
  /\ \/ Created(i) \/ CreateFailed(i) \/ UpdateFailed(i)
     \/ Deleted(i) \/ DeleteFailed(i) \/ ReorderAnswered(i)
     \/ Recreated(i) \/ Relisted(i) \/ UndoFailed(i)
  /\ overtaken' = (overtaken \/ AnswerOvertakes(i))
  /\ misread' = (misread \/ ReplacesMore(flight[i])
                         \/ Answered(i, "relist", "refused"))
  /\ tangled' = (tangled \/ UndoMeetsGesture \/ RecordedLate(i))
  /\ UNCHANGED <<table, timers, bounds, refused, returned, uncut>>

-----------------------------------------------------------------------------
OpeningRow(b) == StoreRow(b, Para(<<b>>), "paragraph", b - 1)

EditorInit ==
  /\ opening \in 1..MaxOpening
  /\ store = [b \in 1..opening |-> OpeningRow(b)]
  /\ table = [b \in 1..opening |->
               [html |-> Para(<<b>>), type |-> "paragraph", index |-> b - 1,
                rowid |-> b]]
  /\ shown = [b \in Block |-> IF b \in 1..opening THEN Para(<<b>>) ELSE Para(<<>>)]
  /\ saved = shown
  /\ timers = {} /\ caret = NoBlock
  /\ flight = <<>> /\ held = <<>>
  /\ past = <<>> /\ future = <<>> /\ applying = Idle
  /\ made = opening /\ typed = opening /\ events = opening
  /\ refused = FALSE /\ overtaken = FALSE /\ misread = FALSE /\ tangled = FALSE
  /\ returned = FALSE /\ uncut = FALSE

Restructure ==
  \/ \E b \in Block, k \in 0..typed : Enter(b, k) \/ ModEnter(b, k)
  \/ \E b \in Block : InsertBlockAfter(b)
  \/ \E i \in DOMAIN store : Backspace(i) \/ ForwardDelete(i)
Saving ==
  \/ \E i \in DOMAIN flight : Serve(i) \/ Refuse(i) \/ Reply(i)
  \/ \E b \in Block : TimerFires(b)

EditorNext ==
  \/ \E b \in Block : \/ Type(b) \/ MakeList(b) \/ LeaveList(b)
                      \/ DuplicateBlock(b) \/ RemoveBlock(b)
  \/ Restructure
  \/ \E i \in DOMAIN store : MoveBlock(i)
  \/ Undo \/ Redo \/ Blur \/ \E b \in Block : Click(b)
  \/ Saving

EditorSpec == EditorInit /\ [][EditorNext]_editorVars

\* The network answers, and timers fire.
FairEditorSpec ==
  /\ EditorSpec
  /\ WF_editorVars(\E i \in DOMAIN flight : Serve(i))
  /\ WF_editorVars(\E i \in DOMAIN flight : Reply(i))
  /\ WF_editorVars(\E b \in Block : TimerFires(b))

-----------------------------------------------------------------------------
Quiet == flight = <<>> /\ held = <<>> /\ timers = {} /\ applying = Idle

\* The editor's state is well formed; a block is in the store at most once.
EditorTypeOK ==
  /\ TableTypeOK
  /\ \A i \in DOMAIN store : store[i].id \in Block /\ store[i].html \in Html
  /\ shown \in [Block -> Html] /\ saved \in [Block -> Html]
  /\ timers \subseteq Block
  /\ caret \in Ids(store) \union {NoBlock}
  /\ \A i, j \in DOMAIN store : store[i].id = store[j].id => i = j

\* Once the network is quiet, no block the server keeps is missing from the
\* screen, whatever was refused or came in another order, short of a listing
\* that replaced newer rows or failed.  (The screen may show one the server never had: a
\* refused creation followed by the block's deletion.)
NothingHidden == Quiet /\ ~misread => DOMAIN table \subseteq Ids(store)

\* Once the network is quiet, what the screen shows is what the server has:
\* every block's content, and their order; short of an edit that brings a block
\* back to what it read at its last save, and is taken for saved, though a
\* split or a list that was left has been sent since; and of Mod-Enter inside a
\* block, which leaves the whole of it on the screen and a half in the store.
ScreenIsSaved ==
  Quiet /\ ~misread /\ ~overtaken /\ ~refused /\ ~returned /\ ~uncut =>
    /\ ListBlocks(table) = Order(store)
    /\ \A b \in Ids(store) : table[b].html = shown[b]
    /\ \A b \in Ids(store) : RowIn(store, b).html = shown[b]

\* The page as it reads.
Reading == FlattenSeq([k \in DOMAIN store |-> shown[Order(store)[k]].text])

\* Two blocks of the store at one index: the answer to a move of a stale list.
Tied == \E i, j \in DOMAIN store : i # j /\ store[i].index = store[j].index

\* The blocks read as one document: Enter, a new block, Backspace and Delete
\* move text from block to block, and lose and repeat none; short of two blocks
\* tied for a place, where a new block may come behind the wrong one of them;
\* and of Mod-Enter inside a block, which repeats what it sends to the new one,
\* and whatever merges with what it left behind.
RestructuringKeepsTheText ==
  [][\/ Reading' = Reading
     \/ misread \/ refused \/ Tied \/ uncut'
     \/ ~Restructure]_editorVars

\* Saves and their answers change nothing on the screen: only the answers to a
\* move and to an undo do.
SavingKeepsTheText ==
  [][\/ Reading' = Reading
     \/ misread \/ refused
     \/ \E i \in DOMAIN flight :
          Reply(i) /\ flight[i].kind \in {"reorder", "relist"}
     \/ ~Saving]_editorVars

\* The undo stack, unwound, leads from the page as it is to the page as it was
\* loaded, short of a deletion that anything was done after, undone since or
\* not: that leaves the indexes with gaps, or numbered anew, and its block comes
\* back at the index it once had, which may be another place.
TakenBack(op, s) ==
  CASE op.kind = "create" -> Drop(s, op.row.id)
    [] op.kind = "delete" -> Append(Opened(s, op.row.index), op.row)
    [] op.kind = "reorder" ->
         [k \in DOMAIN s |-> [s[k] EXCEPT !.index =
            (CHOOSE n \in DOMAIN op.ids : op.ids[n] = s[k].id) - 1]]
DeletionLast ==
  \A n \in DOMAIN past : past[n].kind = "delete" => n = Len(past) /\ future = <<>>
PastLeadsBack ==
  Quiet /\ ~misread /\ ~overtaken /\ ~tangled /\ ~refused /\ DeletionLast =>
    Order(FoldRight(TakenBack, past, store)) = [k \in 1..opening |-> k]

\* Every write is sent and answered in the end, those held back for a creation
\* included, and no undo hangs.
EverythingSettles == <>[]Quiet
=============================================================================
