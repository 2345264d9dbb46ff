--------------------------------- MODULE Views ---------------------------------
(***************************************************************************)
(* A database on screen: tabs that edit its cells and columns, filter and  *)
(* sort it, keep that as saved views, and a block on another page that     *)
(* shows one of the views (packages/app/src/stores/databaseStore.ts,       *)
(* components/DatabaseView.tsx, components/db/ViewSwitcher.tsx,            *)
(* components/blocks/view-reference-block.tsx).                            *)
(*                                                                         *)
(* What a click does goes on across calls to the server.  A task is the    *)
(* calls one click still has to make; tasks of a tab overlap, and answers  *)
(* come in any order.  Server handlers run to completion.                  *)
(***************************************************************************)
EXTENDS Tables

CONSTANTS Tab, View,
          None,       \* no view of that id yet, nothing saved, no answer
          Missing,    \* a deleted view, a refused call
          Failed, Loading, \* what the block says of a load that failed, or is under way
          All, Unset, \* no saved view chosen; nothing chosen yet
          Query,      \* the filters and sorts users set
          Inputs,     \* what users enter in cells
          Offered,    \* the types they give columns
          Referred,   \* the view the block shows
          FirstViews,
          Budgets,    \* bounds: tabs open, clicks on cells and columns, on views, blocks, failures
          MaxOut, MaxLoads \* bounds: tasks a tab, loads a block has out

Layouts == {"table", "board"}
Plain   == [filters |-> <<>>, sorts |-> <<>>]

\* A view is a query and a layout; what was never saved or was deleted is none.
Queries    == Query \union {FirstViews[v].query : v \in {x \in View : FirstViews[x] \notin {None, Missing}}}
Configs    == [query : Queries, layout : Layouts]
SavedViews == [query : Queries, layout : Layouts, default : BOOLEAN]
Entries    == SavedViews \union {None, Missing}
Seen       == Configs \union {None, Missing}
\* A listing of the views that the block asked for itself, or its stream, and
\* the fields and rows the block asks for next.
Load       == [own : BOOLEAN, next : {"views", "rows"}, got : Seen]

ASSUME ViewsAssumption ==
  /\ {None, Missing, All, Unset} \intersect View = {} /\ Referred \in View
  /\ Plain \in Query /\ Offered \subseteq Types
  /\ FirstViews \in [View -> Entries] /\ {None, Missing} \intersect SavedViews = {}
  /\ \A q \in Queries : q.sorts \in Seq([field : Field, desc : BOOLEAN])

VARIABLES saved,  \* database_views
          tab,    \* what a tab holds and shows
          out,    \* its tasks
          ref,    \* the block: what it was told, and whether effects of a render are due
          budget

viewVars == <<tableVars, saved, tab, out, ref, budget>>

-----------------------------------------------------------------------------
(* A tab: its copies of columns, rows and views, the view chosen, the      *)
(* filters and sorts in use, what the chosen view was when saved or        *)
(* loaded, the layout on screen and the one its browser remembers.         *)

Stored(views, v) == v \in View /\ views[v] \notin {None, Missing}
Rows(t)   == ApplyFiltersAndSorts(t.rows, t.cols, t.query)
Config(t) == [query |-> t.query, layout |-> t.layout]
Dirty(t)  == t.snap # None /\ t.snap # Config(t)

SwitchView(t, v) ==
  IF v = All THEN [t EXCEPT !.chosen = All, !.query = Plain, !.snap = None]
  ELSE [t EXCEPT !.chosen = v, !.query = t.list[v].query,
                 !.snap = [query |-> t.list[v].query, layout |-> t.list[v].layout]]

\* A default view is taken up where nothing was chosen, and its layout kept.
TakeUp(t, unchosen, answer) ==
  LET new == [t EXCEPT !.list = answer]
      defaults == {v \in View : Stored(answer, v) /\ answer[v].default}
  IN IF t.chosen \in unchosen /\ defaults # {}
     THEN LET d == CHOOSE v \in defaults : TRUE
          IN [SwitchView(new, d) EXCEPT !.kept = answer[d].layout]
     ELSE new
\* Mutant of the next: with no saved view chosen, too.
LoadDbViewsAgain(t, answer) == TakeUp(t, {Unset, All}, answer)
LoadDbViews(t, answer) == TakeUp(t, {Unset}, answer)

-----------------------------------------------------------------------------
(* Calls.                                                                  *)

ListFields      == [op |-> "listFields"]
ListRowsCall    == [op |-> "listRecords"]
ListViews       == [op |-> "listViews"]
Write(r, f, v)  == [op |-> "updateFieldValue", row |-> r, field |-> f, value |-> v]
Retype(f, t)    == [op |-> "updateField", field |-> f, type |-> t]
DropField(f)    == [op |-> "deleteField", field |-> f]
NewRow          == [op |-> "createRecord"]
Reorder(ids)    == [op |-> "reorderRecords", ids |-> ids]
Create(cfg)     == [op |-> "createView", config |-> cfg]
Update(v, cfg)  == [op |-> "updateView", view |-> v, config |-> cfg, default |-> None]
Default(v, b)   == [op |-> "updateView", view |-> v, config |-> None, default |-> b]
Delete(v, active) == [op |-> "deleteView", view |-> v, active |-> active]

\* What a call can be answered with.
Pending == [done |-> FALSE, fields |-> None, records |-> None, views |-> None, id |-> None, view |-> None]

Doing(calls) == [todo |-> calls, answer |-> Pending]
Task(calls)  == <<Doing(calls)>>

\* The layout follows the chosen view while the tab has it in its list.
Layout(t) == IF t.chosen \notin View THEN t.kept
             ELSE IF Stored(t.list, t.chosen) THEN t.list[t.chosen].layout ELSE t.layout

\* A tab whose layout has changed mounts another switcher, which loads views.
Becomes(c, t, tasks) ==
  /\ tab' = [tab EXCEPT ![c] = [t EXCEPT !.layout = Layout(t)]]
  /\ out' = [out EXCEPT ![c] = IF Layout(t) = tab[c].layout THEN tasks
                               ELSE tasks \o Task(<<ListViews>>)]

Spend(kind) == /\ budget[kind] > 0
               /\ budget' = [budget EXCEPT ![kind] = @ - 1]

Starts(c, kind, calls) ==
  /\ Len(out[c]) < MaxOut /\ Spend(kind)
  /\ out' = [out EXCEPT ![c] = @ \o Task(calls)]
  /\ UNCHANGED <<tableVars, saved, tab, ref>>

-----------------------------------------------------------------------------
(* What users do.                                                          *)

\* What the editor of a column sends.
Shaped(t, v) == CASE t \in ListTypes  -> v.list
                  [] t = "checkbox"   -> v \in {TextOf(True), TextOf(False)}
                  [] t = "number"     -> ~v.list /\ Range(v.words) \subseteq Numeral
                  [] OTHER            -> ~v.list

HandleCellEdit(c, i, f, v) ==
  LET t == tab[c] IN
  /\ i \in DOMAIN Rows(t) /\ t.cols[f] # Gone /\ Shaped(t.cols[f], v)
  /\ Starts(c, "cells", <<Write(Rows(t)[i].row, f, v), ListRowsCall>>
                        \o (IF t.cols[f] = "multiSelect" THEN <<ListFields>> ELSE <<>>))

OnChangeType(c, f, ty) ==
  /\ tab[c].cols[f] \notin {Gone, ty}
  /\ Starts(c, "cells", <<Retype(f, ty), ListFields, ListRowsCall>>)

HandleDeleteField(c, f) ==
  /\ tab[c].cols[f] # Gone
  /\ Starts(c, "cells", <<DropField(f)>>)

HandleNewRecord(c) == Starts(c, "cells", <<NewRow, ListRowsCall>>)

\* A row shown is dropped on another; of a row shown twice, the first counts.
HandleRowDrag(c, active, over) ==
  LET order == [k \in DOMAIN Rows(tab[c]) |-> Rows(tab[c])[k].row]
      at(r) == SelectInSeq(order, LAMBDA x : x = r)
  IN /\ active # over /\ at(active) > 0 /\ at(over) > 0
     /\ Starts(c, "cells", <<Reorder(InsertAt(RemoveAt(order, at(active)), at(over), active)),
                             ListRowsCall>>)

\* Adding, changing, removing and clearing filters and sorts, a click on a
\* header among them.
SetQuery(c, q) ==
  /\ q # tab[c].query /\ Spend("views")
  /\ tab' = [tab EXCEPT ![c].query = q]
  /\ UNCHANGED <<tableVars, saved, out, ref>>

HandleSelect(c, v) ==
  /\ v = All \/ Stored(tab[c].list, v)
  /\ Spend("views")
  /\ Becomes(c, SwitchView(tab[c], v), out[c])
  /\ UNCHANGED <<tableVars, saved, ref>>

\* Another layout leaves a saved view; with none, filters stay.
ChangeViewType(c, l) ==
  LET t == tab[c] IN
  /\ l # t.layout /\ Spend("views")
  /\ Becomes(c, [(IF t.chosen \in View THEN SwitchView(t, All) ELSE t) EXCEPT !.kept = l], out[c])
  /\ UNCHANGED <<tableVars, saved, ref>>

HandleReset(c) ==
  /\ Dirty(tab[c]) /\ Stored(tab[c].list, tab[c].chosen) /\ Spend("views")
  /\ tab' = [tab EXCEPT ![c].query = tab[c].snap.query]
  /\ UNCHANGED <<tableVars, saved, out, ref>>

HandleSave(c) ==
  /\ Dirty(tab[c]) /\ Stored(tab[c].list, tab[c].chosen)
  /\ Starts(c, "views", <<Update(tab[c].chosen, Config(tab[c]))>>)

HandleSaveAs(c) == Starts(c, "views", <<Create(Config(tab[c]))>>)

HandleDelete(c, v) ==
  /\ Stored(tab[c].list, v)
  /\ Starts(c, "views", <<Delete(v, tab[c].chosen = v)>>)

SetDefaultView(c, v) ==
  /\ Stored(tab[c].list, v)
  /\ Starts(c, "views", IF tab[c].list[v].default
                        THEN <<Default(CHOOSE d \in View : /\ Stored(tab[c].list, d)
                                                            /\ tab[c].list[d].default, FALSE)>>
                        ELSE <<Default(v, TRUE), ListViews>>)

-----------------------------------------------------------------------------
(* The server.                                                             *)

NotDefault(views) == [v \in View |-> IF Stored(views, v) THEN [views[v] EXCEPT !.default = FALSE]
                                     ELSE views[v]]

Asked(own) == [own |-> own, next |-> "views", got |-> None]

\* The block's stream, when it is up, has it ask for the views.
Publish(v) ==
  \/ UNCHANGED ref
  \/ /\ v = Referred /\ ref.open /\ Len(ref.loads) < MaxLoads
     /\ ref' = [ref EXCEPT !.loads = Append(@, Asked(FALSE))]

CreateView(cfg) ==
  \E v \in View :
    /\ saved[v] = None
    /\ saved' = [saved EXCEPT ![v] = [query |-> cfg.query, layout |-> cfg.layout, default |-> FALSE]]

UpdateView(v, cfg, default) ==
  LET old == saved[v]
      new == [query   |-> IF cfg = None THEN old.query ELSE cfg.query,
              layout  |-> IF cfg = None THEN old.layout ELSE cfg.layout,
              default |-> IF default = None THEN old.default ELSE default]
  IN /\ Stored(saved, v)
     /\ saved' = [(IF default = TRUE THEN NotDefault(saved) ELSE saved) EXCEPT ![v] = new]
     /\ Publish(v)

DeleteView(v) == /\ Stored(saved, v)
                 /\ saved' = [saved EXCEPT ![v] = Missing]

Created(old, new) == CHOOSE x \in DOMAIN new : old[x] = None /\ new[x] # None

Handled(call) ==
  /\ CASE call.op \in {"listFields", "listRecords", "listViews"} -> UNCHANGED tableVars
       [] call.op = "updateFieldValue" -> UpdateFieldValue(call.row, call.field, call.value)
       [] call.op = "updateField"      -> UpdateFieldType(call.field, call.type)
       [] call.op = "deleteField"      -> type[call.field] # Gone /\ DeleteField(call.field)
       [] call.op = "createRecord"     -> \E r \in Row : CreateRecord(r)
       [] call.op = "reorderRecords"   -> ReorderRecords(call.ids)
       [] OTHER -> UNCHANGED tableVars
  /\ CASE call.op = "createView" -> CreateView(call.config) /\ UNCHANGED ref
       [] call.op = "updateView" -> UpdateView(call.view, call.config, call.default)
       [] call.op = "deleteView" -> DeleteView(call.view) /\ UNCHANGED ref
       [] OTHER -> UNCHANGED <<saved, ref>>

\* A call on what is gone is refused, and a creation the model has no id for.
Refused(call) == CASE call.op \in {"updateField", "deleteField"} -> type[call.field] = Gone
                   [] call.op \in {"updateView", "deleteView"}   -> ~Stored(saved, call.view)
                   [] call.op = "createRecord" -> Range(born) = Row
                   [] call.op = "createView"   -> \A v \in View : saved[v] # None
                   [] OTHER -> FALSE

Answer(call) ==
  LET done == [Pending EXCEPT !.done = TRUE]
  IN CASE call.op = "listFields"   -> [done EXCEPT !.fields = type]
       [] call.op = "listRecords"  -> [done EXCEPT !.records = ListRecords]
       [] call.op = "listViews"    -> [done EXCEPT !.views = saved]
       [] call.op = "createRecord" -> [done EXCEPT !.id = born'[Len(born')]]
       [] call.op = "createView"   -> [done EXCEPT !.id = Created(saved, saved')]
       [] call.op = "updateView"   -> [done EXCEPT !.view = saved'[call.view]]
       [] OTHER -> done

Serve(c, k) ==
  /\ k \in DOMAIN out[c] /\ ~out[c][k].answer.done
  /\ LET call == out[c][k].todo[1]
     IN \/ /\ ~Refused(call) /\ Handled(call)
           /\ out' = [out EXCEPT ![c][k].answer = Answer(call)]
        \/ /\ Refused(call)
           /\ out' = [out EXCEPT ![c] = RemoveAt(@, k)]
           /\ UNCHANGED <<tableVars, saved, ref>>
  /\ UNCHANGED <<tab, budget>>

-----------------------------------------------------------------------------
(* Answers.                                                                *)

Landed(t, call, a) ==
  CASE call.op = "listFields"   -> [t EXCEPT !.cols = a.fields]
    [] call.op = "listRecords"  -> [t EXCEPT !.rows = a.records]
    [] call.op = "listViews"    -> LoadDbViews(t, a.views)
    [] call.op = "deleteField"  -> [t EXCEPT !.cols[call.field] = Gone]
    [] call.op = "createRecord" ->
         [t EXCEPT !.rows = Append(@, [row |-> a.id, values |-> [f \in Field |-> Decode("text", NoCell)]])]
    [] call.op = "createView"   ->
         SwitchView([t EXCEPT !.list[a.id] = [query |-> call.config.query,
                                           layout |-> call.config.layout, default |-> FALSE]], a.id)
    [] call.op = "updateView"   ->
         [t EXCEPT !.list = IF Stored(t.list, call.view) THEN [@ EXCEPT ![call.view] = a.view] ELSE @,
                   !.snap = IF call.config = None THEN @ ELSE call.config]
    [] call.op = "deleteView"   ->
         LET gone == [t EXCEPT !.list[call.view] = Missing,
                               !.chosen = IF @ = call.view THEN All ELSE @,
                               !.snap = IF t.chosen = call.view THEN None ELSE @]
         IN IF call.active THEN SwitchView(gone, All) ELSE gone
    [] OTHER -> t

Land(c, k) ==
  /\ k \in DOMAIN out[c] /\ out[c][k].answer.done
  /\ LET task == out[c][k]
         rest == Tail(task.todo)
     IN Becomes(c, Landed(tab[c], task.todo[1], task.answer),
                IF rest = <<>> THEN RemoveAt(out[c], k)
                ELSE ReplaceAt(out[c], k, Doing(rest)))
  /\ UNCHANGED <<tableVars, saved, ref, budget>>

\* A request or its answer is lost, and the rest of the task with it, unless
\* it was a load of the fields.
Lose(c, k) ==
  /\ k \in DOMAIN out[c] /\ Spend("lost")
  /\ LET task == out[c][k]
     IN out' = [out EXCEPT ![c] =
                  IF task.todo[1] = ListFields /\ Len(task.todo) > 1
                  THEN ReplaceAt(@, k, Doing(Tail(task.todo)))
                  ELSE RemoveAt(@, k)]
  /\ UNCHANGED <<tableVars, saved, tab, ref>>

-----------------------------------------------------------------------------
(* The block.  Its parsed content is a new object at every render, so that *)
(* every render has it load again, at most MaxLoads at a time.             *)

Screen == IF ref.error # None THEN ref.error ELSE IF ref.loading THEN Loading ELSE ref.shown

\* Mutant of the next: a render has no load follow it.
RendersOnly(r) == r
Renders(r) == [r EXCEPT !.rendered = TRUE]
\* A state set to what it was renders nothing.
Sets(r) == IF r.error # ref.error \/ r.loading # ref.loading THEN Renders(r) ELSE r

\* The first render and its effects.
OpenReference ==
  /\ ~ref.open /\ Spend("blocks")
  /\ ref' = Renders([ref EXCEPT !.open = TRUE, !.loading = TRUE, !.loads = <<Asked(TRUE)>>])
  /\ UNCHANGED <<tableVars, saved, tab, out>>

StartLoad ==
  /\ ref.rendered /\ Len(ref.loads) < MaxLoads
  /\ ref' = Sets([ref EXCEPT !.rendered = FALSE, !.error = None, !.loading = TRUE,
                             !.loads = Append(@, Asked(TRUE))])
  /\ UNCHANGED <<tableVars, saved, tab, out, budget>>

Listing(i) == i \in DOMAIN ref.loads /\ ref.loads[i].next = "views"

ServeLoad(i) ==
  /\ Listing(i) /\ ref.loads[i].got = None
  /\ ref' = [ref EXCEPT !.loads[i].got = IF Stored(saved, Referred)
                                         THEN [query  |-> saved[Referred].query,
                                               layout |-> saved[Referred].layout]
                                         ELSE Missing]
  /\ UNCHANGED <<tableVars, saved, tab, out, budget>>

\* The view is applied, a new object, and its fields and rows are asked for; or
\* it is missing, which ends the load.
LandLoad(i) ==
  /\ Listing(i) /\ ref.loads[i].got # None
  /\ LET load == ref.loads[i]
     IN \/ /\ load.got = Missing
           /\ ref' = Sets([ref EXCEPT !.error = Missing, !.loading = @ /\ ~load.own,
                                      !.loads = RemoveAt(@, i)])
        \/ /\ load.got # Missing
           /\ ref' = Renders([ref EXCEPT !.shown = load.got,
                                         !.loads = IF load.own THEN [@ EXCEPT ![i].next = "rows"]
                                                   ELSE RemoveAt(@, i)])
  /\ UNCHANGED <<tableVars, saved, tab, out, budget>>

FinishLoad(i) ==
  /\ i \in DOMAIN ref.loads /\ ref.loads[i].next = "rows"
  /\ ref' = Renders([ref EXCEPT !.loading = FALSE, !.loads = RemoveAt(@, i)])
  /\ UNCHANGED <<tableVars, saved, tab, out, budget>>

\* An error on screen; nothing, if the stream asked for it.
LoseLoad(i) ==
  /\ i \in DOMAIN ref.loads /\ Spend("lost")
  /\ LET left == [ref EXCEPT !.loads = RemoveAt(@, i)]
     IN ref' = IF ref.loads[i].own THEN Sets([left EXCEPT !.error = Failed, !.loading = FALSE])
               ELSE left
  /\ UNCHANGED <<tableVars, saved, tab, out>>

-----------------------------------------------------------------------------

\* A page just opened: its rows and columns are there, its views on the way or
\* their load failed.
ViewsInit ==
  /\ TableInit
  /\ saved = FirstViews
  /\ tab = [c \in Tab |-> [cols |-> type, rows |-> ListRecords, list |-> [v \in View |-> None],
                           chosen |-> Unset, query |-> Plain, snap |-> None,
                           kept |-> "table", layout |-> "table"]]
  /\ budget \in Budgets
  /\ out = [c \in Tab |-> IF c \in budget.tabs /\ budget.views > 0
                         THEN Task(<<ListViews>>) ELSE <<>>]
  /\ ref = [open |-> FALSE, shown |-> None, error |-> None, loading |-> FALSE,
            rendered |-> FALSE, loads |-> <<>>]

Click(c) ==
  \/ \E i \in 1..Cardinality(Row), f \in Field, v \in Inputs : HandleCellEdit(c, i, f, v)
  \/ \E f \in Field, ty \in Offered : OnChangeType(c, f, ty)
  \/ \E f \in Field : HandleDeleteField(c, f)
  \/ HandleNewRecord(c)
  \/ \E r, over \in Row : HandleRowDrag(c, r, over)
  \/ \E q \in Query : SetQuery(c, q)
  \/ \E v \in View \union {All} : HandleSelect(c, v)
  \/ \E l \in Layouts : ChangeViewType(c, l)
  \/ HandleReset(c) \/ HandleSave(c) \/ HandleSaveAs(c)
  \/ \E v \in View : HandleDelete(c, v) \/ SetDefaultView(c, v)

Slots == 1..(2 * MaxOut)

ViewsNext ==
  \/ OpenReference \/ StartLoad
  \/ \E c \in Tab \intersect budget.tabs : Click(c)
  \/ \E c \in Tab, k \in Slots : Serve(c, k) \/ Land(c, k) \/ Lose(c, k)
  \/ \E i \in 1..MaxLoads : ServeLoad(i) \/ LandLoad(i) \/ FinishLoad(i) \/ LoseLoad(i)

\* A request that is not lost is answered, its answer heard, and an effect run.
ViewsSpec ==
  /\ ViewsInit /\ [][ViewsNext]_viewVars
  /\ \A c \in Tab, k \in Slots : WF_viewVars(Serve(c, k)) /\ WF_viewVars(Land(c, k))
  /\ \A i \in 1..MaxLoads : /\ WF_viewVars(ServeLoad(i)) /\ WF_viewVars(LandLoad(i))
                            /\ WF_viewVars(FinishLoad(i))
  /\ WF_viewVars(StartLoad)

-----------------------------------------------------------------------------
(* What the tables, the tabs, the calls under way and the block hold: of   *)
(* rows, that they are lists.                                              *)
IsList(s) == s \in Seq(Range(s))

TabOK(t) ==
  /\ DOMAIN t = {"cols", "rows", "list", "chosen", "query", "snap", "kept", "layout"}
  /\ t.cols \in [Field -> Types \union {Gone}] /\ IsList(t.rows)
  /\ t.list \in [View -> Entries] /\ t.chosen \in View \union {All, Unset}
  /\ t.query \in Queries /\ t.snap \in Configs \union {None}
  /\ t.kept \in Layouts /\ t.layout \in Layouts

CallOK(call) ==
  /\ call.op = "updateField" => call.type \in Types
  /\ call.op = "createView" => call.config \in Configs
  /\ call.op = "updateView" => call.config \in Configs \union {None} /\ call.default \in BOOLEAN \union {None}

AnswerOK(call, a) ==
  /\ call.op = "listFields" => a.fields \in [Field -> Types \union {Gone}]
  /\ call.op = "listRecords" => IsList(a.records)
  /\ call.op = "listViews" => a.views \in [View -> Entries]
  /\ call.op = "createView" => a.id \in View
  /\ call.op = "updateView" => a.view \in SavedViews

TaskOK(task) ==
  /\ DOMAIN task = {"todo", "answer"}
  /\ IsList(task.todo) /\ task.todo # <<>> /\ \A n \in DOMAIN task.todo : CallOK(task.todo[n])
  /\ task.answer.done => AnswerOK(task.todo[1], task.answer)

ViewsTypeOK ==
  /\ type \in [Field -> Types \union {Gone}] /\ born \in Seq(Row)
  /\ saved \in [View -> Entries]
  /\ DOMAIN tab = Tab /\ \A c \in Tab : TabOK(tab[c])
  /\ DOMAIN out = Tab
  /\ \A c \in Tab : IsList(out[c]) /\ \A k \in DOMAIN out[c] : TaskOK(out[c][k])
  /\ ref \in [open : BOOLEAN, shown : Seen, error : {None, Missing, Failed},
              loading : BOOLEAN, rendered : BOOLEAN, loads : Seq(Load)]

-----------------------------------------------------------------------------
(* Properties.                                                             *)

\* The rows on screen stand in the order of the first sort that tells them
\* apart, and where none does in the order of the listing, although the sorts
\* are applied one by one from the last (filterEngine.ts:126).
ShownIsTheQuery ==
  \A c \in Tab :
    LET t == tab[c]
        rows == Rows(t)
        before(a, b) == \E i, j \in DOMAIN t.rows : i <= j /\ t.rows[i] = a /\ t.rows[j] = b
        sorts == t.query.sorts
        live  == {i \in DOMAIN sorts : t.cols[sorts[i].field] # Gone}
        tells(i, a, b) == Compare(t.cols, sorts[i], a, b)
        decides(i, a, b) == /\ tells(i, a, b) < 0
                            /\ \A j \in live : j < i => tells(j, a, b) = 0
        tie(a, b) == \A i \in live : tells(i, a, b) = 0
    IN \A k \in 1..Len(rows)-1 :
         \/ \E i \in live : decides(i, rows[k], rows[k+1])
         \/ tie(rows[k], rows[k+1]) /\ before(rows[k], rows[k+1])

\* Once a view, or none, has been chosen, the answers to loads, saves and
\* changes of the default leave the choice and the filters and sorts alone,
\* however late they come and whatever other tabs have done (the default
\* view is for the first load, databaseStore.ts:311).
ChoiceIsKept ==
  [][\A c \in Tab, k \in Slots :
       (/\ Land(c, k) /\ tab[c].chosen # Unset
        /\ out[c][k].todo[1].op \notin {"createView", "deleteView"})
       => tab'[c].chosen = tab[c].chosen /\ tab'[c].query = tab[c].query]_viewVars

\* A block that refers to a view comes to show it as it was last saved, or that
\* it is gone, again and again, and nothing else but that it is loading; although
\* loads overlap and are answered out of order, and the stream that tells of
\* changes is down now and then.  (Every render starts a load, and every load
\* renders: the block goes on loading for ever, its view coming and going.)
Referenced == IF Stored(saved, Referred)
              THEN [query  |-> saved[Referred].query, layout |-> saved[Referred].layout]
              ELSE Missing
ReferenceCatchesUp ==
  /\ <>[](ref.open => Screen \in {Loading, Referenced})
  /\ []<>(ref.open => Screen = Referenced)
===============================================================================
