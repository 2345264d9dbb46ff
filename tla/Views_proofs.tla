---------------------------- MODULE Views_proofs ----------------------------
(***************************************************************************)
(* What columns of lists hold, and what becomes of a choice of view, for   *)
(* any number of tabs, columns, rows and views, whatever the tabs send and *)
(* in whatever order their calls are served and answered.                  *)
(***************************************************************************)
EXTENDS Views, FiniteSetTheorems, SequenceTheorems, WellFoundedInduction, TLAPS

-----------------------------------------------------------------------------
(* The steps, by what they do to the tables.                               *)
Grid ==
  /\ DOMAIN type = Field
  /\ DOMAIN cell = Row
  /\ \A r \in Row : DOMAIN cell[r] = Field

(* A bare value in a column of lists was written there while it was a      *)
(* relation.  MultiHoldsLists alone is not inductive: a relation that      *)
(* becomes a multi-select brings its cells along as they are.              *)
ListsHoldLists ==
  \A r \in Row, f \in Field :
    type[f] \in ListTypes /\ IsBare(cell[r][f]) => <<r, f>> \in loose

TableStep ==
  \/ \E r, f, v : UpdateFieldValue(r, f, v)
  \/ \E f, t : UpdateFieldType(f, t)
  \/ \E f : DeleteField(f)
  \/ UNCHANGED <<type, cell, loose>>

LEMMA HandledSteps ==
  ASSUME NEW call, Handled(call)
  PROVE  TableStep
<1>1. CASE call.op \in {"listFields", "listRecords", "listViews"}
  BY <1>1 DEF Handled, TableStep, tableVars
<1>2. CASE call.op = "updateFieldValue"
  BY <1>2 DEF Handled, TableStep
<1>3. CASE call.op = "updateField"
  BY <1>3 DEF Handled, TableStep
<1>4. CASE call.op = "deleteField"
  BY <1>4 DEF Handled, TableStep
<1>5. CASE call.op = "createRecord"
  BY <1>5 DEF Handled, TableStep, CreateRecord
<1>6. CASE call.op = "reorderRecords"
  BY <1>6 DEF Handled, TableStep, ReorderRecords
<1>7. CASE call.op \notin {"listFields", "listRecords", "listViews", "updateFieldValue", "updateField",
                           "deleteField", "createRecord", "reorderRecords"}
  BY <1>7 DEF Handled, TableStep, tableVars
<1> QED
  BY <1>1, <1>2, <1>3, <1>4, <1>5, <1>6, <1>7

LEMMA ServedSteps ==
  ASSUME NEW c, NEW k, Serve(c, k)
  PROVE  TableStep
<1>1. PICK call : call = out[c][k].todo[1]
  OBVIOUS
<1>2. Handled(call) \/ UNCHANGED tableVars
  BY <1>1 DEF Serve
<1> QED
  BY <1>2, HandledSteps DEF TableStep, tableVars

LEMMA ClicksLeaveTables ==
  ASSUME NEW c, Click(c)
  PROVE  UNCHANGED tableVars /\ UNCHANGED saved /\ UNCHANGED ref
<1> DEFINE Left == UNCHANGED <<tableVars, saved, ref>>
<1>1. \A kind, calls : Starts(c, kind, calls) => Left
  BY DEF Starts
<1>2. (\E i, f, v : HandleCellEdit(c, i, f, v)) => Left
  BY <1>1, Zenon DEF HandleCellEdit
<1>3. (\E f, ty : OnChangeType(c, f, ty)) => Left
  BY <1>1, Zenon DEF OnChangeType
<1>4. (\E f : HandleDeleteField(c, f)) => Left
  BY <1>1, Zenon DEF HandleDeleteField
<1>5. HandleNewRecord(c) => Left
  BY <1>1, Zenon DEF HandleNewRecord
<1>6. (\E r, over : HandleRowDrag(c, r, over)) => Left
  BY <1>1, Zenon DEF HandleRowDrag
<1>7. (\E q : SetQuery(c, q)) \/ (\E v : HandleSelect(c, v)) => Left
  BY Zenon DEF SetQuery, HandleSelect
<1>8. (\E l : ChangeViewType(c, l)) \/ HandleReset(c) => Left
  BY Zenon DEF ChangeViewType, HandleReset
<1>9. HandleSave(c) \/ HandleSaveAs(c) => Left
  BY <1>1, Zenon DEF HandleSave, HandleSaveAs
<1>10. (\E v : HandleDelete(c, v)) \/ (\E v : SetDefaultView(c, v)) => Left
  BY <1>1, Zenon DEF HandleDelete, SetDefaultView
<1>11. Left
  <2> HIDE DEF Left
  <2> QED
    BY <1>2, <1>3, <1>4, <1>5, <1>6, <1>7, <1>8, <1>9, <1>10, Zenon DEF Click
<1> QED
  BY <1>11

LEMMA ViewSteps ==
  ASSUME [ViewsNext]_viewVars
  PROVE  TableStep
<1>1. ASSUME NEW c \in Tab, Click(c) PROVE TableStep
  BY <1>1, ClicksLeaveTables DEF TableStep, tableVars
<1>2. ASSUME NEW c \in Tab, NEW k \in Slots, Land(c, k) \/ Lose(c, k) PROVE TableStep
  BY <1>2 DEF Land, Lose, TableStep, tableVars
<1>3. ASSUME NEW i \in 1 .. MaxLoads, ServeLoad(i) \/ LandLoad(i) \/ FinishLoad(i) \/ LoseLoad(i)
      PROVE  TableStep
  BY <1>3 DEF ServeLoad, LandLoad, FinishLoad, LoseLoad, TableStep, tableVars
<1>4. CASE OpenReference \/ StartLoad \/ UNCHANGED viewVars
  BY <1>4 DEF OpenReference, StartLoad, TableStep, tableVars, viewVars
<1> QED
  BY <1>1, <1>2, <1>3, <1>4, ServedSteps DEF ViewsNext

-----------------------------------------------------------------------------
(* Columns of lists.                                                       *)
LEMMA ListsInit == ViewsInit => Grid /\ ListsHoldLists
  BY FirstAssumption DEF ViewsInit, TableInit, Grid, ListsHoldLists

LEMMA WriteKeepsLists ==
  ASSUME Grid, ListsHoldLists, NEW r, NEW f, NEW v, UpdateFieldValue(r, f, v)
  PROVE  Grid' /\ ListsHoldLists'
<1>1. PICK n : n = Normalised(type[f], v)
  OBVIOUS
<1>2. /\ cell' = [cell EXCEPT ![r][f] = n]
      /\ loose' = IF type[f] = "relation" /\ IsBare(n) THEN loose \union {<<r, f>>}
                  ELSE loose \ {<<r, f>>}
      /\ type' = type
  BY <1>1 DEF UpdateFieldValue, UpdateFieldValueAsSent
<1>3. type[f] = "multiSelect" => ~IsBare(n)
  BY <1>1 DEF Normalised, IsBare, ListOf
<1>4. Grid'
  BY <1>2 DEF Grid
<1>5. ASSUME NEW s \in Row, NEW g \in Field, type'[g] \in ListTypes, IsBare(cell'[s][g])
      PROVE  <<s, g>> \in loose'
  <2>1. CASE s = r /\ g = f
    <3>1. cell'[s][g] = n
      BY <2>1, <1>2 DEF Grid
    <3>2. type[f] = "relation" /\ IsBare(n)
      BY <3>1, <2>1, <1>2, <1>3, <1>5 DEF ListTypes
    <3> QED
      BY <3>2, <2>1, <1>2
  <2>2. CASE ~(s = r /\ g = f)
    <3>1. cell'[s][g] = cell[s][g]
      BY <2>2, <1>2 DEF Grid
    <3>2. <<s, g>> \in loose /\ <<s, g>> # <<r, f>>
      BY <3>1, <2>2, <1>2, <1>5 DEF ListsHoldLists
    <3> QED
      BY <3>2, <1>2
  <2> QED
    BY <2>1, <2>2
<1> QED
  BY <1>4, <1>5 DEF ListsHoldLists

LEMMA RetypeKeepsLists ==
  ASSUME Grid, ListsHoldLists, NEW f, NEW t, UpdateFieldType(f, t)
  PROVE  Grid' /\ ListsHoldLists'
<1>1. /\ type' = [type EXCEPT ![f] = t]
      /\ cell' = [r \in Row |-> [cell[r] EXCEPT ![f] = Migrated(type[f], t, @)]]
      /\ loose' = {c \in loose : cell'[c[1]][c[2]] = cell[c[1]][c[2]]}
  BY DEF UpdateFieldType
<1>2. Grid'
  BY <1>1 DEF Grid
<1>3. ASSUME NEW r \in Row, NEW g \in Field, type'[g] \in ListTypes, IsBare(cell'[r][g])
      PROVE  type[g] \in ListTypes /\ cell'[r][g] = cell[r][g]
  <2>1. CASE g = f
    <3>1. type'[g] = t /\ cell'[r][g] = Migrated(type[f], t, cell[r][g])
      BY <2>1, <1>1 DEF Grid
    <3>2. PICK v, old, ws : v = cell[r][g] /\ old = type[f] /\ ws = Decode(old, v).words
      OBVIOUS
    <3>3. Migrated(old, t, v) = IF old = t \/ IsBlank(v) THEN v
                                ELSE IF old \notin ListTypes /\ t \in ListTypes THEN ListOf(ws)
                                ELSE IF old \in ListTypes /\ t \notin ListTypes THEN Encode(t, ws)
                                ELSE v
      BY <3>2 DEF Migrated
    <3>4. ~IsBare(ListOf(ws))
      BY DEF IsBare, ListOf
    <3>5. IsBlank(v) => ~IsBare(v)
      BY DEF IsBare
    <3> QED
      BY <3>1, <3>2, <3>3, <3>4, <3>5, <2>1, <1>3
  <2>2. CASE g # f
    BY <2>2, <1>1, <1>3 DEF Grid
  <2> QED
    BY <2>1, <2>2
<1>4. ASSUME NEW r \in Row, NEW g \in Field, type'[g] \in ListTypes, IsBare(cell'[r][g])
      PROVE  <<r, g>> \in loose'
  <2>1. type[g] \in ListTypes /\ cell'[r][g] = cell[r][g]
    BY <1>3, <1>4
  <2>2. <<r, g>> \in loose
    BY <2>1, <1>4 DEF ListsHoldLists
  <2> QED
    BY <2>1, <2>2, <1>1
<1> QED
  BY <1>2, <1>4 DEF ListsHoldLists

LEMMA ListsNext == Grid /\ ListsHoldLists /\ [ViewsNext]_viewVars => Grid' /\ ListsHoldLists'
<1> SUFFICES ASSUME Grid, ListsHoldLists, [ViewsNext]_viewVars PROVE Grid' /\ ListsHoldLists'
  OBVIOUS
<1>1. ASSUME NEW f, DeleteField(f) PROVE Grid' /\ ListsHoldLists'
  BY <1>1, FirstAssumption DEF DeleteField, Grid, ListsHoldLists, Types
<1>2. CASE UNCHANGED <<type, cell, loose>>
  BY <1>2 DEF Grid, ListsHoldLists
<1> QED
  BY <1>1, <1>2, ViewSteps, WriteKeepsLists, RetypeKeepsLists DEF TableStep

(* A multi-select column holds lists, whatever the tabs think it is and    *)
(* whatever it was, but for what was written bare while it was a relation. *)
THEOREM MultiSelectsHoldLists == ViewsSpec => []MultiHoldsLists
<1>1. ListsHoldLists => MultiHoldsLists
  BY DEF ListsHoldLists, MultiHoldsLists, ListTypes
<1> QED
  BY <1>1, ListsInit, ListsNext, PTL DEF ViewsSpec

-----------------------------------------------------------------------------
(* Induction, up and down a list.                                          *)

LEMMA ClimbsUp ==
  ASSUME NEW n \in Nat, NEW T, 0 \in T, \A i \in 1..n : i - 1 \in T => i \in T
  PROVE  0..n \subseteq T
<1> SUFFICES ASSUME NEW z \in 0..n, z \notin T PROVE FALSE
  OBVIOUS
<1> DEFINE M == {i \in 0..n : i \notin T}
<1>1. M \subseteq Nat /\ M # {}
  OBVIOUS
<1>2. PICK m \in M : \A j \in M : <<j, m>> \notin OpToRel(<, Nat)
  <2> HIDE DEF M
  <2> QED
    BY <1>1, NatLessThanWellFounded, WFMin, Zenon
<1>3. \A j \in M : ~(j < m)
  BY <1>1, <1>2 DEF OpToRel
<1>4. m \in 1..n /\ m \notin T
  OBVIOUS
<1>5. m - 1 \in 0..n /\ m - 1 < m
  BY <1>4
<1>6. m - 1 \in T
  BY <1>3, <1>5
<1> QED
  BY <1>4, <1>6

LEMMA ClimbsDown ==
  ASSUME NEW n \in Nat, NEW T, n + 1 \in T, \A i \in 1..n : i + 1 \in T => i \in T
  PROVE  1..n + 1 \subseteq T
<1> DEFINE S == {j \in 0..n : n + 1 - j \in T}
<1>1. 0 \in S
  OBVIOUS
<1>2. ASSUME NEW j \in 1..n, j - 1 \in S PROVE j \in S
  <2>1. n + 1 - j \in 1..n /\ n + 1 - (j - 1) \in T /\ n + 1 - (j - 1) = (n + 1 - j) + 1
    BY <1>2
  <2> QED
    BY <2>1
<1>3. 0..n \subseteq S
  <2> HIDE DEF S
  <2> QED
    BY <1>1, <1>2, ClimbsUp
<1>4. ASSUME NEW i \in 1..n + 1 PROVE i \in T
  <2>1. n + 1 - i \in S
    BY <1>3
  <2>2. n + 1 - (n + 1 - i) = i
    OBVIOUS
  <2> QED
    BY <2>1, <2>2
<1> QED
  BY <1>4

-----------------------------------------------------------------------------
(* The sorts, pass by pass.                                                *)

\* it gives, for a set of sorts, the rows these sorts leave.
PassedBy(it, m, n, rows, types, sorts) ==
  it = [s \in SUBSET (m..n) |->
          IF s = {} THEN rows
          ELSE SortedBy(sorts[Min(s)], it[s \ {Min(s)}], types)]

LEMMA LeastIs ==
  ASSUME NEW m \in Int, NEW s \in SUBSET Int, m \in s, \A i \in s : m <= i
  PROVE  Min(s) = m
<1>1. \A x \in s : (\A y \in s : x <= y) => x = m
  OBVIOUS
<1>2. \A y \in s : m <= y
  OBVIOUS
<1> QED
  BY <1>1, <1>2 DEF Min

LEMMA PassesAreDefined ==
  ASSUME NEW n \in Nat, NEW rows, NEW types, NEW sorts
  PROVE  \E it : PassedBy(it, 1, n, rows, types, sorts)
<1> DEFINE T == {m \in 1..n + 1 : \E it : PassedBy(it, m, n, rows, types, sorts)}
<1>1. n + 1 \in T
  <2> DEFINE it == [s \in SUBSET (n + 1..n) |-> rows]
  <2>1. \A s \in SUBSET (n + 1..n) : s = {}
    OBVIOUS
  <2>2. PassedBy(it, n + 1, n, rows, types, sorts)
    BY <2>1 DEF PassedBy
  <2> QED
    BY <2>2
<1>2. ASSUME NEW m \in 1..n, m + 1 \in T PROVE m \in T
  <2>1. PICK g : PassedBy(g, m + 1, n, rows, types, sorts)
    BY <1>2
  <2> DEFINE f == [s \in SUBSET (m..n) |->
                     IF m \in s THEN SortedBy(sorts[m], g[s \ {m}], types) ELSE g[s]]
  <2>2. \A s \in SUBSET (m..n) : s \ {m} \in SUBSET (m + 1..n)
    OBVIOUS
  <2>3. \A s \in SUBSET (m + 1..n) : s \in SUBSET (m..n) /\ m \notin s
    OBVIOUS
  <2>4. \A s \in SUBSET (m + 1..n) : f[s] = g[s]
    BY <2>3
  <2>5. ASSUME NEW s \in SUBSET (m..n)
        PROVE  f[s] = IF s = {} THEN rows
                      ELSE SortedBy(sorts[Min(s)], f[s \ {Min(s)}], types)
    <3>1. CASE m \in s
      <4>1. Min(s) = m
        BY <3>1, LeastIs
      <4>2. f[s \ {m}] = g[s \ {m}]
        BY <2>2, <2>4
      <4>3. f[s] = SortedBy(sorts[m], g[s \ {m}], types)
        BY <3>1
      <4> QED
        BY <3>1, <4>1, <4>2, <4>3
    <3>2. CASE m \notin s
      <4>1. s \in SUBSET (m + 1..n)
        BY <3>2
      <4>2. s \ {Min(s)} \in SUBSET (m + 1..n)
        BY <4>1
      <4>3. f[s] = g[s] /\ f[s \ {Min(s)}] = g[s \ {Min(s)}]
        BY <2>4, <4>1, <4>2
      <4>4. g[s] = IF s = {} THEN rows
                   ELSE SortedBy(sorts[Min(s)], g[s \ {Min(s)}], types)
        BY <2>1, <4>1 DEF PassedBy
      <4> QED
        BY <4>3, <4>4
    <3> QED
      BY <3>1, <3>2
  <2>6. f = [s \in SUBSET (m..n) |-> f[s]]
    OBVIOUS
  <2>7. PassedBy(f, m, n, rows, types, sorts)
    <3> HIDE DEF f
    <3> QED
      BY <2>5, <2>6 DEF PassedBy
  <2> QED
    BY <2>7
<1>3. 1 \in T
  <2> HIDE DEF T
  <2> QED
    BY <1>1, <1>2, ClimbsDown
<1> QED
  BY <1>3

\* acc[i] is what the sorts from i on make of the rows.
Sorting(acc, n, rows, types, sorts) ==
  /\ acc[n + 1] = rows
  /\ \A i \in 1..n : acc[i] = SortedBy(sorts[i], acc[i + 1], types)
  /\ ApplySorts(rows, types, sorts) = acc[1]

LEMMA SortsApplied ==
  ASSUME NEW n \in Nat, NEW rows, NEW types, NEW sorts, DOMAIN sorts = 1..n
  PROVE  \E acc : Sorting(acc, n, rows, types, sorts)
<1> DEFINE it == CHOOSE it : PassedBy(it, 1, n, rows, types, sorts)
           acc == [i \in 1..n + 1 |-> it[i..n]]
<1>1. PassedBy(it, 1, n, rows, types, sorts)
  BY PassesAreDefined
<1>2. ApplySorts(rows, types, sorts) = it[1..n]
  BY DEF ApplySorts, FoldRight, MapThenFoldSet, PassedBy
<1> HIDE DEF it
<1>3. acc[n + 1] = rows
  BY <1>1 DEF PassedBy
<1>4. ASSUME NEW i \in 1..n PROVE acc[i] = SortedBy(sorts[i], acc[i + 1], types)
  <2>1. Min(i..n) = i
    <3>1. i..n \in SUBSET Int /\ i \in i..n /\ \A j \in i..n : i <= j
      OBVIOUS
    <3> QED
      BY <3>1, LeastIs
  <2>2. (i..n) \ {i} = i + 1..n /\ i..n \in SUBSET (1..n) /\ i..n # {}
    OBVIOUS
  <2>3. it[i..n] = SortedBy(sorts[i], it[i + 1..n], types)
    BY <1>1, <2>1, <2>2 DEF PassedBy
  <2>4. i + 1 \in 1..n + 1 /\ i \in 1..n + 1
    OBVIOUS
  <2>5. acc[i] = it[i..n] /\ acc[i + 1] = it[i + 1..n]
    BY <2>4
  <2> QED
    BY <2>3, <2>5
<1>5. 1 \in 1..n + 1 /\ acc[1] = it[1..n]
  OBVIOUS
<1> QED
  BY <1>2, <1>3, <1>4, <1>5 DEF Sorting

-----------------------------------------------------------------------------
(* The filters, row by row.                                                *)

KeptBy(it, n, rows, types, filters) ==
  it = [s \in SUBSET (1..n) |->
          IF s = {} THEN <<>>
          ELSE IF Holds(filters, types, rows[Max(s)])
               THEN Append(it[s \ {Max(s)}], rows[Max(s)]) ELSE it[s \ {Max(s)}]]

LEMMA GreatestIs ==
  ASSUME NEW m \in Int, NEW s \in SUBSET Int, m \in s, \A i \in s : i <= m
  PROVE  Max(s) = m
<1>1. \A x \in s : (\A y \in s : x >= y) => x = m
  OBVIOUS
<1>2. \A y \in s : m >= y
  OBVIOUS
<1> QED
  BY <1>1, <1>2 DEF Max

LEMMA KeepingIsDefined ==
  ASSUME NEW n \in Nat, NEW rows, NEW types, NEW filters
  PROVE  \E it : KeptBy(it, n, rows, types, filters)
<1> DEFINE T == {m \in 0..n : \E it : KeptBy(it, m, rows, types, filters)}
<1>1. 0 \in T
  <2> DEFINE it == [s \in SUBSET (1..0) |-> <<>>]
  <2>1. \A s \in SUBSET (1..0) : s = {}
    OBVIOUS
  <2>2. KeptBy(it, 0, rows, types, filters)
    BY <2>1 DEF KeptBy
  <2> QED
    BY <2>2
<1>2. ASSUME NEW m \in 1..n, m - 1 \in T PROVE m \in T
  <2>1. PICK g : KeptBy(g, m - 1, rows, types, filters)
    BY <1>2
  <2> DEFINE f == [s \in SUBSET (1..m) |->
                     IF m \in s THEN IF Holds(filters, types, rows[m])
                                     THEN Append(g[s \ {m}], rows[m]) ELSE g[s \ {m}]
                     ELSE g[s]]
  <2>2. \A s \in SUBSET (1..m) : s \ {m} \in SUBSET (1..m - 1)
    OBVIOUS
  <2>3. \A s \in SUBSET (1..m - 1) : s \in SUBSET (1..m) /\ m \notin s
    OBVIOUS
  <2>4. \A s \in SUBSET (1..m - 1) : f[s] = g[s]
    BY <2>3
  <2>5. ASSUME NEW s \in SUBSET (1..m)
        PROVE  f[s] = IF s = {} THEN <<>>
                      ELSE IF Holds(filters, types, rows[Max(s)])
                           THEN Append(f[s \ {Max(s)}], rows[Max(s)]) ELSE f[s \ {Max(s)}]
    <3>1. CASE m \in s
      <4>1. Max(s) = m
        BY <3>1, GreatestIs
      <4>2. f[s \ {m}] = g[s \ {m}]
        BY <2>2, <2>4
      <4>3. f[s] = IF Holds(filters, types, rows[m])
                   THEN Append(g[s \ {m}], rows[m]) ELSE g[s \ {m}]
        BY <3>1
      <4> QED
        BY <3>1, <4>1, <4>2, <4>3
    <3>2. CASE m \notin s
      <4>1. s \in SUBSET (1..m - 1)
        BY <3>2
      <4>2. s \ {Max(s)} \in SUBSET (1..m - 1)
        BY <4>1
      <4>3. f[s] = g[s] /\ f[s \ {Max(s)}] = g[s \ {Max(s)}]
        BY <2>4, <4>1, <4>2
      <4>4. g[s] = IF s = {} THEN <<>>
                   ELSE IF Holds(filters, types, rows[Max(s)])
                        THEN Append(g[s \ {Max(s)}], rows[Max(s)]) ELSE g[s \ {Max(s)}]
        BY <2>1, <4>1 DEF KeptBy
      <4> QED
        BY <4>3, <4>4
    <3> QED
      BY <3>1, <3>2
  <2>6. f = [s \in SUBSET (1..m) |-> f[s]]
    OBVIOUS
  <2>7. KeptBy(f, m, rows, types, filters)
    <3> HIDE DEF f
    <3> QED
      BY <2>5, <2>6 DEF KeptBy
  <2> QED
    BY <2>7
<1>3. n \in T
  <2> HIDE DEF T
  <2> QED
    BY <1>1, <1>2, ClimbsUp
<1> QED
  BY <1>3

\* acc[i] is what is left of the first i rows.
Filtering(acc, n, rows, types, filters) ==
  /\ acc[0] = <<>>
  /\ \A i \in 1..n : acc[i] = IF Holds(filters, types, rows[i])
                              THEN Append(acc[i - 1], rows[i]) ELSE acc[i - 1]
  /\ ApplyFilters(rows, types, filters) = acc[n]

LEMMA FiltersApplied ==
  ASSUME NEW n \in Nat, NEW rows, DOMAIN rows = 1..n, NEW types, NEW filters
  PROVE  \E acc : Filtering(acc, n, rows, types, filters)
<1> DEFINE it == CHOOSE it : KeptBy(it, n, rows, types, filters)
           acc == [i \in 0..n |-> it[1..i]]
<1>1. KeptBy(it, n, rows, types, filters)
  BY KeepingIsDefined
<1>2. ApplyFilters(rows, types, filters) = it[1..n]
  BY DEF ApplyFilters, FoldLeft, MapThenFoldSet, KeptBy
<1> HIDE DEF it
<1>3. acc[0] = <<>>
  <2>1. 1..0 = {} /\ {} \in SUBSET (1..n)
    OBVIOUS
  <2> QED
    BY <1>1, <2>1 DEF KeptBy
<1>4. ASSUME NEW i \in 1..n
      PROVE  acc[i] = IF Holds(filters, types, rows[i])
                      THEN Append(acc[i - 1], rows[i]) ELSE acc[i - 1]
  <2>1. Max(1..i) = i
    <3>1. 1..i \in SUBSET Int /\ i \in 1..i /\ \A j \in 1..i : j <= i
      OBVIOUS
    <3> QED
      BY <3>1, GreatestIs
  <2>2. (1..i) \ {i} = 1..i - 1 /\ 1..i \in SUBSET (1..n) /\ 1..i # {}
    OBVIOUS
  <2>3. it[1..i] = IF Holds(filters, types, rows[i])
                   THEN Append(it[1..i - 1], rows[i]) ELSE it[1..i - 1]
    BY <1>1, <2>1, <2>2 DEF KeptBy
  <2>4. i - 1 \in 0..n /\ i \in 0..n
    OBVIOUS
  <2>5. acc[i] = it[1..i] /\ acc[i - 1] = it[1..i - 1]
    BY <2>4
  <2> QED
    BY <2>3, <2>5
<1>5. n \in 0..n /\ acc[n] = it[1..n]
  OBVIOUS
<1> QED
  BY <1>2, <1>3, <1>4, <1>5 DEF Filtering

-----------------------------------------------------------------------------
(* A finite set in a strict order: below[i] is what comes before i.        *)

InLine(I, below) ==
  /\ IsFiniteSet(I)
  /\ \A i \in I : below[i] \subseteq I /\ i \notin below[i]
  /\ \A i, j \in I : j \in below[i] => below[j] \subseteq below[i]
  /\ \A i, j \in I : i = j \/ i \in below[j] \/ j \in below[i]

LEMMA RanksGrow ==
  ASSUME NEW I, NEW below, InLine(I, below), NEW i \in I, NEW j \in I, i \in below[j]
  PROVE  Cardinality(below[i]) < Cardinality(below[j])
<1>1. below[i] \subseteq below[j] /\ i \notin below[i]
  BY DEF InLine
<1>2. IsFiniteSet(below[i]) /\ IsFiniteSet(below[j])
  BY FS_Subset DEF InLine
<1>3. Cardinality(below[i]) \in Nat /\ Cardinality(below[j]) \in Nat
  BY <1>2, FS_CardinalityType
<1>4. Cardinality(below[i]) <= Cardinality(below[j]) /\ Cardinality(below[i]) # Cardinality(below[j])
  BY <1>1, <1>2, FS_Subset
<1> QED
  BY <1>3, <1>4

\* How many come before one is its place, and every place is taken once.
LEMMA Ranked ==
  ASSUME NEW I, NEW below, InLine(I, below)
  PROVE  /\ Cardinality(I) \in Nat
         /\ \A i \in I : Cardinality(below[i]) \in 0..Cardinality(I) - 1
         /\ \A i, j \in I : Cardinality(below[i]) = Cardinality(below[j]) => i = j
         /\ \A k \in 1..Cardinality(I) : \E i \in I : Cardinality(below[i]) = k - 1
<1> DEFINE rank(i) == Cardinality(below[i])
           n == Cardinality(I)
           r == [i \in I |-> rank(i) + 1]
<1>1. n \in Nat
  BY FS_CardinalityType DEF InLine
<1>2. ASSUME NEW i \in I PROVE rank(i) \in 0..n - 1
  <2>1. below[i] \subseteq I /\ i \notin below[i] /\ IsFiniteSet(I)
    BY DEF InLine
  <2>2. /\ IsFiniteSet(below[i]) /\ Cardinality(below[i]) <= Cardinality(I)
        /\ Cardinality(below[i]) # Cardinality(I)
    BY <2>1, FS_Subset
  <2>3. Cardinality(below[i]) \in Nat
    BY <2>2, FS_CardinalityType
  <2> QED
    BY <1>1, <2>2, <2>3
<1>3. ASSUME NEW i \in I, NEW j \in I, rank(i) = rank(j) PROVE i = j
  <2>1. ASSUME i \in below[j] PROVE FALSE
    BY <1>2, <1>3, <2>1, RanksGrow
  <2>2. ASSUME j \in below[i] PROVE FALSE
    BY <1>2, <1>3, <2>2, RanksGrow
  <2> QED
    BY <2>1, <2>2 DEF InLine
<1> HIDE DEF rank, n
<1>4. r \in [I -> 1..n] /\ \A i \in I : r[i] = rank(i) + 1
  BY <1>1, <1>2
<1>5. \A i, j \in I : r[i] = r[j] => i = j
  BY <1>2, <1>3, <1>4
<1> HIDE DEF r
<1>6. r \in Injection(I, 1..n)
  BY <1>4, <1>5 DEF Injection, IsInjective
<1>7. IsFiniteSet(1..n) /\ Cardinality(1..n) = n
  BY <1>1, FS_Interval
<1>8. IsFiniteSet(I) /\ Cardinality(I) = Cardinality(1..n)
  BY <1>7 DEF InLine, n
<1>9. r \in Surjection(I, 1..n)
  BY <1>6, <1>7, <1>8, FS_Injection
<1>10. \A k \in 1..n : \E i \in I : r[i] = k
  BY <1>9 DEF Surjection
<1>11. ASSUME NEW k \in 1..n PROVE \E i \in I : rank(i) = k - 1
  <2>1. PICK i \in I : r[i] = k
    BY <1>10
  <2>2. rank(i) + 1 = k /\ rank(i) \in 0..n - 1
    BY <1>2, <1>4, <2>1
  <2>3. rank(i) = k - 1
    BY <1>1, <2>2
  <2> QED
    BY <2>3
<1> QED
  BY <1>1, <1>2, <1>3, <1>11 DEF rank, n

-----------------------------------------------------------------------------
(* What filters leave: rows of the listing, in its order.                  *)

\* The rows of t are some of the first i of s, in their order.
Drawn(t, s, i) ==
  \E e \in [1..Len(t) -> 1..i] :
    /\ \A k \in 1..Len(t) : t[k] = s[e[k]]
    /\ \A k, l \in 1..Len(t) : k < l => e[k] < e[l]

LEMMA AppendDraws ==
  ASSUME NEW S, NEW s \in Seq(S), NEW t \in Seq(S), NEW i \in 1..Len(s), Drawn(t, s, i - 1)
  PROVE  Drawn(Append(t, s[i]), s, i)
<1> DEFINE f(e) == [k \in 1..Len(t) + 1 |-> IF k = Len(t) + 1 THEN i ELSE e[k]]
<1>1. Len(t) \in Nat /\ s[i] \in S
  OBVIOUS
<1>2. \A k \in 1..Len(t) + 1 : k = Len(t) + 1 \/ k \in 1..Len(t)
  BY <1>1
<1>3. PICK e \in [1..Len(t) -> 1..i - 1] :
             /\ \A k \in 1..Len(t) : t[k] = s[e[k]]
             /\ \A k, l \in 1..Len(t) : k < l => e[k] < e[l]
  BY DEF Drawn
<1>4. PICK g : g = f(e)
  OBVIOUS
<1>5. g \in [1..Len(t) + 1 -> 1..i]
  BY <1>1, <1>2, <1>3, <1>4
<1>6. \A k \in 1..Len(t) : g[k] = e[k] /\ g[k] < i
  BY <1>1, <1>3, <1>4
<1>7. g[Len(t) + 1] = i
  BY <1>1, <1>4
<1>8. PICK u : u = Append(t, s[i])
  OBVIOUS
<1>9. Len(u) = Len(t) + 1 /\ u[Len(t) + 1] = s[i] /\ \A k \in 1..Len(t) : u[k] = t[k]
  BY <1>1, <1>8
<1>10. ASSUME NEW k \in 1..Len(t) + 1 PROVE u[k] = s[g[k]]
  <2>1. CASE k = Len(t) + 1
    BY <1>7, <1>9, <2>1
  <2>2. CASE k \in 1..Len(t)
    BY <1>3, <1>6, <1>9, <2>2
  <2> QED
    BY <1>2, <2>1, <2>2
<1>11. ASSUME NEW k \in 1..Len(t) + 1, NEW l \in 1..Len(t) + 1, k < l PROVE g[k] < g[l]
  <2>1. k \in 1..Len(t)
    BY <1>1, <1>11
  <2>2. CASE l = Len(t) + 1
    BY <1>6, <1>7, <2>1, <2>2
  <2>3. CASE l \in 1..Len(t)
    BY <1>3, <1>6, <1>11, <2>1, <2>3
  <2> QED
    BY <1>2, <2>2, <2>3
<1>12. Drawn(u, s, i)
  BY <1>5, <1>9, <1>10, <1>11 DEF Drawn
<1> QED
  BY <1>8, <1>12

LEMMA FiltersDraw ==
  ASSUME NEW S, NEW rows \in Seq(S), NEW types, NEW filters
  PROVE  /\ ApplyFilters(rows, types, filters) \in Seq(S)
         /\ Drawn(ApplyFilters(rows, types, filters), rows, Len(rows))
<1>1. PICK n \in Nat : n = Len(rows) /\ DOMAIN rows = 1..n
  OBVIOUS
<1>2. PICK acc : Filtering(acc, n, rows, types, filters)
  BY <1>1, FiltersApplied
<1> DEFINE T == {i \in 0..n : acc[i] \in Seq(S) /\ Drawn(acc[i], rows, i)}
<1>3. 0 \in T
  <2>1. acc[0] = <<>> /\ 0 \in 0..n
    BY <1>2 DEF Filtering
  <2>2. [k \in 1..0 |-> 0] \in [1..0 -> 1..0] /\ \A k \in 1..0 : FALSE
    OBVIOUS
  <2>3. <<>> \in Seq(S) /\ Len(<<>>) = 0
    OBVIOUS
  <2>4. Drawn(<<>>, rows, 0)
    BY <2>2, <2>3 DEF Drawn
  <2> QED
    BY <2>1, <2>3, <2>4
<1>4. ASSUME NEW i \in 1..n, i - 1 \in T PROVE i \in T
  <2>1. acc[i - 1] \in Seq(S) /\ Drawn(acc[i - 1], rows, i - 1)
    BY <1>4
  <2>2. PICK t : t = acc[i - 1]
    OBVIOUS
  <2>3. t \in Seq(S) /\ Drawn(t, rows, i - 1)
    BY <2>1, <2>2
  <2>4. i \in 0..n /\ rows[i] \in S /\ i \in 1..Len(rows)
    BY <1>1
  <2>5. CASE Holds(filters, types, rows[i])
    <3>1. acc[i] = Append(t, rows[i])
      BY <1>2, <2>2, <2>5 DEF Filtering
    <3>2. Append(t, rows[i]) \in Seq(S)
      BY <2>3, <2>4
    <3>3. Drawn(Append(t, rows[i]), rows, i)
      BY <2>3, <2>4, AppendDraws
    <3> QED
      BY <2>4, <3>1, <3>2, <3>3
  <2>6. CASE ~Holds(filters, types, rows[i])
    <3>1. acc[i] = t
      BY <1>2, <2>2, <2>6 DEF Filtering
    <3>2. Drawn(t, rows, i)
      <4>1. PICK e \in [1..Len(t) -> 1..i - 1] :
                   /\ \A k \in 1..Len(t) : t[k] = rows[e[k]]
                   /\ \A k, l \in 1..Len(t) : k < l => e[k] < e[l]
        BY <2>3 DEF Drawn
      <4>2. e \in [1..Len(t) -> 1..i]
        OBVIOUS
      <4> QED
        BY <4>1, <4>2 DEF Drawn
    <3> QED
      BY <2>3, <2>4, <3>1, <3>2
  <2> QED
    BY <2>5, <2>6
<1>5. n \in T
  <2>1. \A i \in 1..n : i - 1 \in T => i \in T
    BY <1>4
  <2> HIDE DEF T
  <2>2. 0..n \subseteq T
    BY <1>3, <2>1, ClimbsUp
  <2> QED
    BY <2>2
<1>6. acc[n] = ApplyFilters(rows, types, filters)
  BY <1>2 DEF Filtering
<1> QED
  BY <1>1, <1>5, <1>6

-----------------------------------------------------------------------------
(* One pass: rows by their weight, those of one weight as they stood.      *)

Weight(types, s, r) ==
  LET key == Key(types[s.field], r.values[s.field].words)
  IN IF s.desc THEN -key ELSE key

LEMMA KeyIsInt ==
  ASSUME NEW t, NEW ws
  PROVE  Key(t, ws) \in Int
<1>1. \A w : Rank(w) \in Int
  BY WordsAssumption DEF Rank
<1>2. PICK entries : entries = IF Len(ws) = 1 THEN Parsed(ws[1]) ELSE ws
  OBVIOUS
<1>3. Key(t, ws) = IF t = "checkbox" THEN IF ws = <<True>> THEN 1 ELSE 0
                   ELSE IF t \in ListTypes THEN IF entries = <<>> THEN Bottom ELSE Rank(entries[1])
                   ELSE IF ws = <<>> THEN Bottom
                   ELSE 100 * Rank(ws[1]) + (IF Len(ws) > 1 THEN Rank(ws[2]) ELSE 0)
  BY <1>2 DEF Key
<1>4. Bottom \in Int
  BY DEF Bottom
<1>5. PICK a \in Int : a = Rank(ws[1])
  BY <1>1
<1>6. PICK b \in Int : b = IF Len(ws) > 1 THEN Rank(ws[2]) ELSE 0
  BY <1>1
<1>7. PICK c \in Int : c = Rank(entries[1])
  BY <1>1
<1>8. 100 * a + b \in Int
  OBVIOUS
<1> QED
  BY <1>3, <1>4, <1>5, <1>6, <1>7, <1>8

LEMMA Weighed ==
  ASSUME NEW types, NEW s, NEW a, NEW b
  PROVE  /\ Weight(types, s, a) \in Int
         /\ Compare(types, s, a, b) = Weight(types, s, a) - Weight(types, s, b)
<1>1. PICK x \in Int : x = Key(types[s.field], a.values[s.field].words)
  BY KeyIsInt
<1>2. PICK y \in Int : y = Key(types[s.field], b.values[s.field].words)
  BY KeyIsInt
<1> QED
  BY <1>1, <1>2 DEF Weight, Compare

\* p gives the places in s of the rows of t.
Stable(p, t, s, types, by) ==
  /\ p \in [1..Len(s) -> 1..Len(s)]
  /\ \A k \in 1..Len(s) : t[k] = s[p[k]]
  /\ \A k, l \in 1..Len(s) : k < l =>
       \/ Weight(types, by, s[p[k]]) < Weight(types, by, s[p[l]])
       \/ Weight(types, by, s[p[k]]) = Weight(types, by, s[p[l]]) /\ p[k] < p[l]

LEMMA PassIsStable ==
  ASSUME NEW S, NEW rows \in Seq(S), NEW types, NEW by, types[by.field] # Gone
  PROVE  /\ SortedBy(by, rows, types) \in Seq(S)
         /\ Len(SortedBy(by, rows, types)) = Len(rows)
         /\ \E p : Stable(p, SortedBy(by, rows, types), rows, types, by)
<1>1. PICK n \in Nat : n = Len(rows) /\ DOMAIN rows = 1..n
  OBVIOUS
<1>2. PICK w : w = [i \in 1..n |-> Weight(types, by, rows[i])]
  OBVIOUS
<1>3. w \in [1..n -> Int]
  BY <1>2, Weighed
<1>4. \A i, j \in 1..n : Compare(types, by, rows[j], rows[i]) = w[j] - w[i]
  BY <1>2, Weighed
<1>5. PICK below : below = [i \in 1..n |-> {j \in 1..n : w[j] < w[i] \/ (w[j] = w[i] /\ j < i)}]
  OBVIOUS
<1>6. InLine(1..n, below)
  <2>1. IsFiniteSet(1..n)
    BY FS_Interval
  <2>2. \A i \in 1..n : below[i] \subseteq 1..n /\ i \notin below[i]
    BY <1>3, <1>5
  <2>3. \A i, j \in 1..n : j \in below[i] => below[j] \subseteq below[i]
    BY <1>3, <1>5
  <2>4. \A i, j \in 1..n : i = j \/ i \in below[j] \/ j \in below[i]
    BY <1>3, <1>5
  <2> QED
    BY <2>1, <2>2, <2>3, <2>4 DEF InLine
<1>7. /\ Cardinality(1..n) = n
      /\ \A i \in 1..n : Cardinality(below[i]) \in 0..n - 1
      /\ \A k \in 1..n : \E i \in 1..n : Cardinality(below[i]) = k - 1
  <2>1. Cardinality(1..n) = n
    BY FS_Interval
  <2>2. PICK I : I = 1..n
    OBVIOUS
  <2>3. InLine(I, below)
    BY <1>6, <2>2
  <2>4. \A i \in I : Cardinality(below[i]) \in 0..Cardinality(I) - 1
    BY <2>3, Ranked
  <2>5. \A k \in 1..Cardinality(I) : \E i \in I : Cardinality(below[i]) = k - 1
    BY <2>3, Ranked
  <2> QED
    BY <2>1, <2>2, <2>4, <2>5
<1> DEFINE upTo(i) == {j \in 1..n : \/ Compare(types, by, rows[j], rows[i]) < 0
                                    \/ Compare(types, by, rows[j], rows[i]) = 0 /\ j <= i}
<1>8. ASSUME NEW i \in 1..n PROVE Cardinality(upTo(i)) = Cardinality(below[i]) + 1
  <2>1. ASSUME NEW j \in 1..n PROVE j \in upTo(i) <=> j \in below[i] \union {i}
    <3>1. PICK a \in Int, b \in Int : a = w[j] /\ b = w[i]
      BY <1>3
    <3>2. PICK d : d = Compare(types, by, rows[j], rows[i])
      OBVIOUS
    <3>3. d = a - b
      BY <1>4, <3>1, <3>2
    <3>4. j \in upTo(i) <=> d < 0 \/ (d = 0 /\ j <= i)
      BY <3>2
    <3>5. j \in below[i] <=> a < b \/ (a = b /\ j < i)
      BY <1>5, <3>1
    <3>6. j \in upTo(i) <=> j \in below[i] \/ j = i
      <4> HIDE DEF upTo
      <4>1. j = i => a = b
        BY <3>1
      <4>2. j \in upTo(i) <=> a < b \/ (a = b /\ j <= i)
        BY <3>3, <3>4
      <4> QED
        BY <3>5, <4>1, <4>2
    <3> QED
      BY <3>6
  <2>3. upTo(i) = below[i] \union {i}
    BY <1>5, <2>1
  <2>2. i \notin below[i] /\ IsFiniteSet(below[i])
    BY <1>6, FS_Subset DEF InLine
  <2> QED
    BY <2>2, <2>3, FS_AddElement
<1>9. SortedBy(by, rows, types) =
        [k \in 1..n |-> rows[CHOOSE i \in 1..n : Cardinality(upTo(i)) = k]]
  BY <1>1 DEF SortedBy, Sorted
<1> HIDE DEF upTo
<1>10. PICK p : p = [k \in 1..n |-> CHOOSE i \in 1..n : Cardinality(upTo(i)) = k]
  OBVIOUS
<1>11. ASSUME NEW k \in 1..n PROVE p[k] \in 1..n /\ Cardinality(below[p[k]]) = k - 1
  <2>1. PICK i \in 1..n : Cardinality(below[i]) = k - 1
    BY <1>7
  <2>2. Cardinality(upTo(i)) = k
    BY <1>8, <2>1
  <2>3. p[k] \in 1..n /\ Cardinality(upTo(p[k])) = k
    BY <1>10, <2>2
  <2>4. Cardinality(below[p[k]]) + 1 = k /\ Cardinality(below[p[k]]) \in 0..n - 1
    BY <1>7, <1>8, <2>3
  <2> QED
    BY <2>3, <2>4
<1>12. PICK t : t = SortedBy(by, rows, types)
  OBVIOUS
<1>13. t = [k \in 1..n |-> rows[p[k]]]
  BY <1>9, <1>10, <1>12
<1>14. t \in Seq(S) /\ Len(t) = n
  <2>1. \A k \in 1..n : rows[p[k]] \in S
    BY <1>1, <1>11
  <2>2. t \in [1..n -> S]
    BY <1>13, <2>1
  <2> QED
    BY <2>2
<1>15. ASSUME NEW k \in 1..n, NEW l \in 1..n, k < l
       PROVE  w[p[k]] < w[p[l]] \/ (w[p[k]] = w[p[l]] /\ p[k] < p[l])
  <2>1. PICK i \in 1..n, j \in 1..n : i = p[k] /\ j = p[l]
    BY <1>11
  <2>2. Cardinality(below[i]) = k - 1 /\ Cardinality(below[j]) = l - 1
    BY <1>11, <2>1
  <2>3. i # j
    BY <1>15, <2>2
  <2>4. j \notin below[i]
    BY <1>6, <1>15, <2>2, RanksGrow
  <2>5. i \in below[j]
    BY <1>6, <2>3, <2>4 DEF InLine
  <2> QED
    BY <1>5, <2>1, <2>5
<1>16. Stable(p, t, rows, types, by)
  <2>1. p \in [1..n -> 1..n]
    BY <1>10, <1>11
  <2>2. \A k \in 1..n : t[k] = rows[p[k]]
    BY <1>13
  <2>3. \A k \in 1..n : w[p[k]] = Weight(types, by, rows[p[k]])
    BY <1>2, <1>11
  <2>4. \A k, l \in 1..n : k < l =>
          \/ Weight(types, by, rows[p[k]]) < Weight(types, by, rows[p[l]])
          \/ Weight(types, by, rows[p[k]]) = Weight(types, by, rows[p[l]]) /\ p[k] < p[l]
    BY <1>15, <2>3
  <2> QED
    BY <1>1, <2>1, <2>2, <2>4 DEF Stable
<1> QED
  BY <1>1, <1>12, <1>14, <1>16

-----------------------------------------------------------------------------
(* All passes.  Of two rows at places a and b of s, the one at a is ahead  *)
(* by the sorts from m on, the first that tells them apart counting most.  *)

Live(types, sorts) == {i \in DOMAIN sorts : types[sorts[i].field] # Gone}

Ahead(m, s, types, sorts, a, b) ==
  \/ \E i \in Live(types, sorts) :
       /\ m <= i /\ Compare(types, sorts[i], s[a], s[b]) < 0
       /\ \A j \in Live(types, sorts) :
            m <= j /\ j < i => Compare(types, sorts[j], s[a], s[b]) = 0
  \/ /\ \A i \in Live(types, sorts) : m <= i => Compare(types, sorts[i], s[a], s[b]) = 0
     /\ a < b

LEMMA AheadAsWell ==
  ASSUME NEW m \in Nat, NEW s, NEW types, NEW sorts, NEW a, NEW b,
         DOMAIN sorts \subseteq Nat,
         Ahead(m + 1, s, types, sorts, a, b),
         m \in Live(types, sorts) => Compare(types, sorts[m], s[a], s[b]) = 0
  PROVE  Ahead(m, s, types, sorts, a, b)
<1>1. \A i \in Live(types, sorts) : i \in Nat
  BY DEF Live
<1>2. \A i \in Live(types, sorts) : m <= i => i = m \/ m + 1 <= i
  BY <1>1
<1>3. CASE \E i \in Live(types, sorts) :
             /\ m + 1 <= i /\ Compare(types, sorts[i], s[a], s[b]) < 0
             /\ \A j \in Live(types, sorts) :
                  m + 1 <= j /\ j < i => Compare(types, sorts[j], s[a], s[b]) = 0
  <2>1. PICK i \in Live(types, sorts) :
             /\ m + 1 <= i /\ Compare(types, sorts[i], s[a], s[b]) < 0
             /\ \A j \in Live(types, sorts) :
                  m + 1 <= j /\ j < i => Compare(types, sorts[j], s[a], s[b]) = 0
    BY <1>3
  <2>2. m <= i
    BY <1>1, <2>1
  <2>3. \A j \in Live(types, sorts) : m <= j /\ j < i => Compare(types, sorts[j], s[a], s[b]) = 0
    BY <1>2, <2>1
  <2> QED
    BY <2>1, <2>2, <2>3 DEF Ahead
<1>4. CASE /\ \A i \in Live(types, sorts) : m + 1 <= i => Compare(types, sorts[i], s[a], s[b]) = 0
           /\ a < b
  <2>1. \A i \in Live(types, sorts) : m <= i => Compare(types, sorts[i], s[a], s[b]) = 0
    BY <1>2, <1>4
  <2> QED
    BY <1>4, <2>1 DEF Ahead
<1> QED
  BY <1>3, <1>4 DEF Ahead

LEMMA AheadAtOnce ==
  ASSUME NEW m \in Nat, NEW s, NEW types, NEW sorts, NEW a, NEW b,
         DOMAIN sorts \subseteq Nat,
         m \in Live(types, sorts), Compare(types, sorts[m], s[a], s[b]) < 0
  PROVE  Ahead(m, s, types, sorts, a, b)
<1>1. \A j \in Live(types, sorts) : ~(m <= j /\ j < m)
  BY DEF Live
<1> QED
  BY <1>1 DEF Ahead

\* t has the rows of s in the order of the sorts from m on.
Ranged(m, t, s, types, sorts) ==
  \E p \in [1..Len(s) -> 1..Len(s)] :
    /\ \A k \in 1..Len(s) : t[k] = s[p[k]]
    /\ \A k, l \in 1..Len(s) : k < l => Ahead(m, s, types, sorts, p[k], p[l])

LEMMA PassRanges ==
  ASSUME NEW S, NEW s \in Seq(S), NEW t \in Seq(S), Len(t) = Len(s), NEW types, NEW sorts,
         DOMAIN sorts \subseteq Nat, NEW m \in DOMAIN sorts, Ranged(m + 1, t, s, types, sorts)
  PROVE  /\ SortedBy(sorts[m], t, types) \in Seq(S)
         /\ Len(SortedBy(sorts[m], t, types)) = Len(s)
         /\ Ranged(m, SortedBy(sorts[m], t, types), s, types, sorts)
<1>1. PICK n \in Nat : n = Len(s) /\ n = Len(t)
  OBVIOUS
<1>2. PICK p \in [1..n -> 1..n] :
             /\ \A k \in 1..n : t[k] = s[p[k]]
             /\ \A k, l \in 1..n : k < l => Ahead(m + 1, s, types, sorts, p[k], p[l])
  BY <1>1 DEF Ranged
<1>3. m \in Nat
  OBVIOUS
<1>4. CASE types[sorts[m].field] = Gone
  <2>1. SortedBy(sorts[m], t, types) = t
    BY <1>4 DEF SortedBy
  <2>2. m \notin Live(types, sorts)
    BY <1>4 DEF Live
  <2>3. \A k, l \in 1..n : k < l => Ahead(m, s, types, sorts, p[k], p[l])
    BY <1>2, <1>3, <2>2, AheadAsWell
  <2>4. Ranged(m, t, s, types, sorts)
    BY <1>1, <1>2, <2>3 DEF Ranged
  <2> QED
    BY <2>1, <2>4
<1>5. CASE types[sorts[m].field] # Gone
  <2>1. PICK u : u = SortedBy(sorts[m], t, types)
    OBVIOUS
  <2>2. PICK by : by = sorts[m]
    OBVIOUS
  <2>3. u \in Seq(S) /\ Len(u) = Len(t)
    BY <1>5, <2>1, PassIsStable
  <2>4. PICK q : Stable(q, u, t, types, by)
    BY <1>5, <2>1, <2>2, PassIsStable
  <2>5. /\ q \in [1..n -> 1..n]
        /\ \A k \in 1..n : u[k] = t[q[k]]
        /\ \A k, l \in 1..n : k < l =>
             \/ Weight(types, by, t[q[k]]) < Weight(types, by, t[q[l]])
             \/ Weight(types, by, t[q[k]]) = Weight(types, by, t[q[l]]) /\ q[k] < q[l]
    BY <1>1, <2>4 DEF Stable
  <2>6. PICK r : r = [k \in 1..n |-> p[q[k]]]
    OBVIOUS
  <2>7. r \in [1..n -> 1..n] /\ \A k \in 1..n : q[k] \in 1..n /\ r[k] = p[q[k]]
    BY <1>2, <2>5, <2>6
  <2>8. \A k \in 1..n : u[k] = s[r[k]]
    BY <1>2, <2>5, <2>7
  <2>9. m \in Live(types, sorts)
    BY <1>5 DEF Live
  <2>10. ASSUME NEW k \in 1..n, NEW l \in 1..n, k < l
         PROVE  Ahead(m, s, types, sorts, r[k], r[l])
    <3>1. PICK a \in 1..n, b \in 1..n : a = q[k] /\ b = q[l]
      BY <2>7
    <3>2. t[a] = s[r[k]] /\ t[b] = s[r[l]]
      BY <1>2, <2>7, <3>1
    <3>3. /\ Weight(types, by, t[a]) \in Int /\ Weight(types, by, t[b]) \in Int
          /\ Compare(types, by, t[a], t[b]) = Weight(types, by, t[a]) - Weight(types, by, t[b])
      BY Weighed
    <3>4. CASE Weight(types, by, t[a]) < Weight(types, by, t[b])
      <4>1. Compare(types, by, t[a], t[b]) < 0
        BY <3>3, <3>4
      <4>2. Compare(types, sorts[m], s[r[k]], s[r[l]]) < 0
        BY <2>2, <3>2, <4>1
      <4> QED
        BY <1>3, <2>9, <4>2, AheadAtOnce
    <3>5. CASE Weight(types, by, t[a]) = Weight(types, by, t[b]) /\ a < b
      <4>1. Compare(types, by, t[a], t[b]) = 0
        BY <3>3, <3>5
      <4>2. Compare(types, sorts[m], s[r[k]], s[r[l]]) = 0
        BY <2>2, <3>2, <4>1
      <4>3. Ahead(m + 1, s, types, sorts, r[k], r[l])
        BY <1>2, <2>7, <3>1, <3>5
      <4> QED
        BY <1>3, <4>2, <4>3, AheadAsWell
    <3> QED
      BY <2>5, <2>10, <3>1, <3>4, <3>5
  <2>11. Ranged(m, u, s, types, sorts)
    BY <1>1, <2>7, <2>8, <2>10 DEF Ranged
  <2> QED
    BY <1>1, <2>1, <2>3, <2>11
<1> QED
  BY <1>4, <1>5

LEMMA SortsRange ==
  ASSUME NEW S, NEW s \in Seq(S), NEW types, NEW n \in Nat, NEW sorts, DOMAIN sorts = 1..n
  PROVE  /\ ApplySorts(s, types, sorts) \in Seq(S)
         /\ Len(ApplySorts(s, types, sorts)) = Len(s)
         /\ Ranged(1, ApplySorts(s, types, sorts), s, types, sorts)
<1>1. PICK acc : Sorting(acc, n, s, types, sorts)
  BY SortsApplied
<1> DEFINE T == {i \in 1..n + 1 : /\ acc[i] \in Seq(S) /\ Len(acc[i]) = Len(s)
                                  /\ Ranged(i, acc[i], s, types, sorts)}
<1>2. n + 1 \in T
  <2>1. acc[n + 1] = s /\ n + 1 \in 1..n + 1
    BY <1>1 DEF Sorting
  <2>2. PICK p : p = [k \in 1..Len(s) |-> k]
    OBVIOUS
  <2>3. p \in [1..Len(s) -> 1..Len(s)] /\ \A k \in 1..Len(s) : p[k] = k
    BY <2>2
  <2>4. \A i \in Live(types, sorts) : ~(n + 1 <= i)
    BY DEF Live
  <2>5. \A k, l \in 1..Len(s) : k < l => Ahead(n + 1, s, types, sorts, p[k], p[l])
    BY <2>3, <2>4 DEF Ahead
  <2>6. Ranged(n + 1, s, s, types, sorts)
    BY <2>3, <2>5 DEF Ranged
  <2> QED
    BY <2>1, <2>6
<1>3. ASSUME NEW i \in 1..n, i + 1 \in T PROVE i \in T
  <2>1. PICK t : t = acc[i + 1]
    OBVIOUS
  <2>2. t \in Seq(S) /\ Len(t) = Len(s) /\ Ranged(i + 1, t, s, types, sorts)
    BY <1>3, <2>1
  <2>3. acc[i] = SortedBy(sorts[i], t, types)
    BY <1>1, <2>1 DEF Sorting
  <2>4. DOMAIN sorts \subseteq Nat /\ i \in DOMAIN sorts /\ i \in 1..n + 1
    OBVIOUS
  <2>5. /\ SortedBy(sorts[i], t, types) \in Seq(S)
        /\ Len(SortedBy(sorts[i], t, types)) = Len(s)
        /\ Ranged(i, SortedBy(sorts[i], t, types), s, types, sorts)
    BY <2>2, <2>4, PassRanges
  <2> QED
    BY <2>3, <2>4, <2>5
<1>4. 1 \in T
  <2>1. \A i \in 1..n : i + 1 \in T => i \in T
    BY <1>3
  <2> HIDE DEF T
  <2>2. 1..n + 1 \subseteq T
    BY <1>2, <2>1, ClimbsDown
  <2> QED
    BY <2>2
<1> QED
  BY <1>1, <1>4 DEF Sorting

-----------------------------------------------------------------------------
(* Lists and tasks.                                                        *)

LEMMA AList ==
  ASSUME NEW S, NEW s \in Seq(S)
  PROVE  IsList(s)
<1>1. PICK n \in Nat : n = Len(s) /\ DOMAIN s = 1..n
  OBVIOUS
<1>2. \A i \in 1..n : s[i] \in Range(s)
  BY <1>1 DEF Range
<1>3. s = [i \in 1..n |-> s[i]]
  BY <1>1
<1>4. s \in [1..n -> Range(s)]
  BY <1>2, <1>3
<1> QED
  BY <1>4 DEF IsList

LEMMA InRange ==
  ASSUME NEW s, IsList(s), NEW x \in Range(s)
  PROVE  \E i \in DOMAIN s : s[i] = x
  BY DEF Range

\* Tasks under way.
Tasks(s) == IsList(s) /\ \A k \in DOMAIN s : TaskOK(s[k])

LEMMA TasksAmong ==
  ASSUME NEW T, \A x \in T : TaskOK(x), NEW s \in Seq(T)
  PROVE  Tasks(s)
<1>1. \A k \in DOMAIN s : s[k] \in T
  OBVIOUS
<1> QED
  BY <1>1, AList DEF Tasks

LEMMA TasksAdd ==
  ASSUME NEW s, Tasks(s), NEW x, TaskOK(x)
  PROVE  Tasks(s \o <<x>>)
<1>1. PICK T : T = Range(s) \union {x}
  OBVIOUS
<1>2. \A y \in T : TaskOK(y)
  BY <1>1 DEF Tasks, Range
<1>3. s \in Seq(T)
  <2>1. s \in Seq(Range(s)) /\ Range(s) \subseteq T
    BY <1>1 DEF Tasks, IsList
  <2> QED
    BY <2>1
<1>4. s \o <<x>> \in Seq(T)
  BY <1>1, <1>3
<1> QED
  BY <1>2, <1>4, TasksAmong

LEMMA TasksLess ==
  ASSUME NEW s, Tasks(s), NEW k \in DOMAIN s
  PROVE  Tasks(RemoveAt(s, k))
<1>1. PICK T : T = Range(s)
  OBVIOUS
<1>2. \A y \in T : TaskOK(y)
  BY <1>1 DEF Tasks, Range
<1>3. s \in Seq(T) /\ k \in 1..Len(s) /\ Len(s) \in Nat
  BY <1>1 DEF Tasks, IsList
<1>4. SubSeq(s, 1, k - 1) \in Seq(T)
  <2>1. \A i \in 1..k - 1 : s[i] \in T
    BY <1>3
  <2> QED
    BY <1>3, <2>1
<1>5. SubSeq(s, k + 1, Len(s)) \in Seq(T)
  <2>1. \A i \in k + 1..Len(s) : s[i] \in T
    BY <1>3
  <2> QED
    BY <1>3, <2>1
<1>6. RemoveAt(s, k) \in Seq(T)
  BY <1>4, <1>5 DEF RemoveAt
<1> QED
  BY <1>2, <1>6, TasksAmong

LEMMA TasksReplace ==
  ASSUME NEW s, Tasks(s), NEW k \in DOMAIN s, NEW x, TaskOK(x)
  PROVE  Tasks([s EXCEPT ![k] = x])
<1>1. PICK T : T = Range(s) \union {x}
  OBVIOUS
<1>2. \A y \in T : TaskOK(y)
  BY <1>1 DEF Tasks, Range
<1>3. s \in Seq(T)
  <2>1. s \in Seq(Range(s)) /\ Range(s) \subseteq T
    BY <1>1 DEF Tasks, IsList
  <2> QED
    BY <2>1
<1>4. [s EXCEPT ![k] = x] \in Seq(T)
  BY <1>1, <1>3
<1> QED
  BY <1>2, <1>4, TasksAmong

-----------------------------------------------------------------------------
(* Tabs.                                                                   *)

LEMMA PlainIsQuery == Plain \in Queries
  BY ViewsAssumption DEF Queries

LEMMA StoredIsSaved ==
  ASSUME NEW views \in [View -> Entries], NEW v, Stored(views, v)
  PROVE  /\ v \in View /\ views[v] \in SavedViews
         /\ views[v].query \in Queries /\ views[v].layout \in Layouts /\ views[v].default \in BOOLEAN
         /\ [query |-> views[v].query, layout |-> views[v].layout] \in Configs
<1>1. v \in View /\ views[v] \in SavedViews
  BY DEF Stored, Entries
<1> QED
  BY <1>1 DEF SavedViews, Configs

LEMMA SwitchOK ==
  ASSUME NEW t, TabOK(t), NEW v, v = All \/ Stored(t.list, v)
  PROVE  TabOK(SwitchView(t, v))
<1>1. CASE v = All
  <2>1. SwitchView(t, v) = [t EXCEPT !.chosen = All, !.query = Plain, !.snap = None]
    BY <1>1 DEF SwitchView
  <2> QED
    BY <2>1, PlainIsQuery DEF TabOK
<1>2. CASE Stored(t.list, v)
  <2>1. v \in View /\ v # All
    BY <1>2, ViewsAssumption DEF Stored
  <2>2. PICK q, cfg : q = t.list[v].query /\ cfg = [query |-> t.list[v].query, layout |-> t.list[v].layout]
    OBVIOUS
  <2>3. q \in Queries /\ cfg \in Configs
    <3>1. t.list \in [View -> Entries]
      BY DEF TabOK
    <3> QED
      BY <1>2, <2>2, <3>1, StoredIsSaved
  <2>4. SwitchView(t, v) = [t EXCEPT !.chosen = v, !.query = q, !.snap = cfg]
    BY <2>1, <2>2 DEF SwitchView
  <2> QED
    BY <2>1, <2>3, <2>4 DEF TabOK
<1> QED
  BY <1>1, <1>2

LEMMA TakeUpOK ==
  ASSUME NEW t, TabOK(t), NEW unchosen, NEW answer \in [View -> Entries]
  PROVE  TabOK(TakeUp(t, unchosen, answer))
<1>1. PICK new : new = [t EXCEPT !.list = answer]
  OBVIOUS
<1>2. TabOK(new) /\ new.list = answer
  BY <1>1 DEF TabOK
<1>3. PICK defaults : defaults = {v \in View : Stored(answer, v) /\ answer[v].default}
  OBVIOUS
<1>4. CASE t.chosen \in unchosen /\ defaults # {}
  <2>1. PICK d : d = CHOOSE v \in defaults : TRUE
    OBVIOUS
  <2>2. d \in defaults
    BY <1>4, <2>1
  <2>3. Stored(answer, d)
    BY <1>3, <2>2
  <2>4. PICK u : u = SwitchView(new, d)
    OBVIOUS
  <2>5. TabOK(u)
    BY <1>2, <2>3, <2>4, SwitchOK
  <2>6. answer[d].layout \in Layouts
    BY <2>3, StoredIsSaved
  <2>7. TakeUp(t, unchosen, answer) = [u EXCEPT !.kept = answer[d].layout]
    BY <1>1, <1>3, <1>4, <2>1, <2>4 DEF TakeUp
  <2> QED
    BY <2>5, <2>6, <2>7 DEF TabOK
<1>5. CASE ~(t.chosen \in unchosen /\ defaults # {})
  BY <1>1, <1>2, <1>3, <1>5 DEF TakeUp
<1> QED
  BY <1>4, <1>5

LEMMA LayoutOK ==
  ASSUME NEW t, TabOK(t)
  PROVE  TabOK([t EXCEPT !.layout = Layout(t)])
<1>1. t.list \in [View -> Entries] /\ t.kept \in Layouts /\ t.layout \in Layouts
  BY DEF TabOK
<1>2. Layout(t) \in Layouts
  BY <1>1, StoredIsSaved DEF Layout
<1> QED
  BY <1>2 DEF TabOK

LEMMA LandedOK ==
  ASSUME NEW t, TabOK(t), NEW call, CallOK(call), NEW a, AnswerOK(call, a)
  PROVE  TabOK(Landed(t, call, a))
<1>1. CASE call.op = "listFields"
  BY <1>1 DEF Landed, TabOK, AnswerOK
<1>2. CASE call.op = "listRecords"
  BY <1>2 DEF Landed, TabOK, AnswerOK
<1>3. CASE call.op = "listViews"
  BY <1>3, TakeUpOK DEF Landed, LoadDbViews, AnswerOK
<1>4. CASE call.op = "deleteField"
  <2>1. Landed(t, call, a) = [t EXCEPT !.cols[call.field] = Gone]
    BY <1>4 DEF Landed
  <2>2. [t.cols EXCEPT ![call.field] = Gone] \in [Field -> Types \union {Gone}]
    BY DEF TabOK
  <2> QED
    BY <2>1, <2>2 DEF TabOK
<1>5. CASE call.op = "createRecord"
  <2>1. PICK row : row = [row |-> a.id, values |-> [f \in Field |-> Decode("text", NoCell)]]
    OBVIOUS
  <2>2. Landed(t, call, a) = [t EXCEPT !.rows = Append(@, row)]
    BY <1>5, <2>1 DEF Landed
  <2>3. IsList(Append(t.rows, row))
    <3>1. PICK T : T = Range(t.rows) \union {row}
      OBVIOUS
    <3>2. t.rows \in Seq(Range(t.rows)) /\ Range(t.rows) \subseteq T
      BY <3>1 DEF TabOK, IsList
    <3>3. t.rows \in Seq(T) /\ row \in T
      BY <3>1, <3>2
    <3>4. Append(t.rows, row) \in Seq(T)
      BY <3>3
    <3> QED
      BY <3>4, AList
  <2> QED
    BY <2>2, <2>3 DEF TabOK
<1>6. CASE call.op = "createView"
  <2>1. PICK e : e = [query |-> call.config.query, layout |-> call.config.layout, default |-> FALSE]
    OBVIOUS
  <2>2. e \in SavedViews /\ a.id \in View
    BY <1>6, <2>1 DEF CallOK, AnswerOK, Configs, SavedViews
  <2>3. PICK new : new = [t EXCEPT !.list[a.id] = e]
    OBVIOUS
  <2>4. TabOK(new) /\ new.list[a.id] = e
    BY <2>2, <2>3 DEF TabOK, Entries
  <2>5. Stored(new.list, a.id)
    BY <2>2, <2>4, ViewsAssumption DEF Stored
  <2>6. Landed(t, call, a) = SwitchView(new, a.id)
    BY <1>6, <2>1, <2>3 DEF Landed
  <2> QED
    BY <2>4, <2>5, <2>6, SwitchOK
<1>7. CASE call.op = "updateView"
  <2>1. PICK list, snap :
           /\ list = IF Stored(t.list, call.view) THEN [t.list EXCEPT ![call.view] = a.view] ELSE t.list
           /\ snap = IF call.config = None THEN t.snap ELSE call.config
    OBVIOUS
  <2>2. Landed(t, call, a) = [t EXCEPT !.list = list, !.snap = snap]
    BY <1>7, <2>1 DEF Landed
  <2>3. list \in [View -> Entries]
    BY <1>7, <2>1 DEF TabOK, AnswerOK, Entries
  <2>4. snap \in Configs \union {None}
    BY <1>7, <2>1 DEF TabOK, CallOK
  <2> QED
    BY <2>2, <2>3, <2>4 DEF TabOK
<1>8. CASE call.op = "deleteView"
  <2>1. PICK gone : gone = [t EXCEPT !.list[call.view] = Missing,
                                     !.chosen = IF @ = call.view THEN All ELSE @,
                                     !.snap = IF t.chosen = call.view THEN None ELSE @]
    OBVIOUS
  <2>2. TabOK(gone)
    BY <2>1 DEF TabOK, Entries
  <2>3. Landed(t, call, a) = IF call.active THEN SwitchView(gone, All) ELSE gone
    BY <1>8, <2>1 DEF Landed
  <2> QED
    BY <2>2, <2>3, SwitchOK
<1>9. CASE call.op \notin {"listFields", "listRecords", "listViews", "deleteField", "createRecord",
                           "createView", "updateView", "deleteView"}
  BY <1>9 DEF Landed
<1> QED
  BY <1>1, <1>2, <1>3, <1>4, <1>5, <1>6, <1>7, <1>8, <1>9

-----------------------------------------------------------------------------
(* The server.                                                             *)

ServerOK ==
  /\ type \in [Field -> Types \union {Gone}] /\ born \in Seq(Row)
  /\ saved \in [View -> Entries]

Blocks == [open : BOOLEAN, shown : Seen, error : {None, Missing, Failed},
           loading : BOOLEAN, rendered : BOOLEAN, loads : Seq(Load)]
BlockOK == ref \in Blocks

LEMMA HandledTables ==
  ASSUME ServerOK, NEW call, CallOK(call), Handled(call)
  PROVE  type' \in [Field -> Types \union {Gone}] /\ born' \in Seq(Row)
<1>1. CASE call.op \in {"listFields", "listRecords", "listViews"}
  BY <1>1 DEF Handled, tableVars, ServerOK
<1>2. CASE call.op = "updateFieldValue"
  BY <1>2 DEF Handled, UpdateFieldValue, UpdateFieldValueAsSent, ServerOK
<1>3. CASE call.op = "updateField"
  <2>1. UpdateFieldType(call.field, call.type) /\ call.type \in Types
    BY <1>3 DEF Handled, CallOK
  <2> QED
    BY <2>1 DEF UpdateFieldType, ServerOK
<1>4. CASE call.op = "deleteField"
  BY <1>4 DEF Handled, DeleteField, ServerOK
<1>5. CASE call.op = "createRecord"
  <2>1. PICK r \in Row : CreateRecord(r)
    BY <1>5 DEF Handled
  <2>2. born' = Append(born, r) /\ type' = type
    BY <2>1 DEF CreateRecord
  <2> QED
    BY <2>2 DEF ServerOK
<1>6. CASE call.op = "reorderRecords"
  BY <1>6 DEF Handled, ReorderRecords, ServerOK
<1>7. CASE call.op \notin {"listFields", "listRecords", "listViews", "updateFieldValue", "updateField",
                           "deleteField", "createRecord", "reorderRecords"}
  BY <1>7 DEF Handled, tableVars, ServerOK
<1> QED
  BY <1>1, <1>2, <1>3, <1>4, <1>5, <1>6, <1>7

LEMMA CreateViewOK ==
  ASSUME ServerOK, NEW cfg \in Configs, CreateView(cfg)
  PROVE  saved' \in [View -> Entries] /\ Created(saved, saved') \in View
<1>1. PICK e : e = [query |-> cfg.query, layout |-> cfg.layout, default |-> FALSE]
  OBVIOUS
<1>2. e \in SavedViews
  BY <1>1 DEF Configs, SavedViews
<1>3. e # None
  BY <1>2, ViewsAssumption
<1>4. PICK v \in View : saved[v] = None /\ saved' = [saved EXCEPT ![v] = e]
  BY <1>1 DEF CreateView
<1>5. saved' \in [View -> Entries] /\ saved'[v] = e
  BY <1>2, <1>4 DEF ServerOK, Entries
<1>6. \E x \in DOMAIN saved' : saved[x] = None /\ saved'[x] # None
  BY <1>3, <1>4, <1>5
<1>7. Created(saved, saved') \in DOMAIN saved'
  BY <1>6 DEF Created
<1> QED
  BY <1>5, <1>7

LEMMA AskedOK ==
  ASSUME NEW own \in BOOLEAN, NEW loads \in Seq(Load)
  PROVE  Append(loads, Asked(own)) \in Seq(Load) /\ <<Asked(own)>> \in Seq(Load)
<1>1. PICK a : a = Asked(own)
  OBVIOUS
<1>2. a \in Load
  BY <1>1 DEF Asked, Load, Seen
<1> QED
  BY <1>1, <1>2

LEMMA PublishOK ==
  ASSUME BlockOK, NEW v, Publish(v)
  PROVE  BlockOK'
<1>1. CASE UNCHANGED ref
  BY <1>1 DEF BlockOK
<1>2. CASE ref' = [ref EXCEPT !.loads = Append(@, Asked(FALSE))]
  <2>1. PICK s : s = Append(ref.loads, Asked(FALSE))
    OBVIOUS
  <2>2. s \in Seq(Load)
    BY <2>1, AskedOK DEF BlockOK, Blocks
  <2> QED
    BY <1>2, <2>1, <2>2 DEF BlockOK, Blocks
<1> QED
  BY <1>1, <1>2 DEF Publish

LEMMA UpdateViewOK ==
  ASSUME ServerOK, NEW v, NEW cfg \in Configs \union {None}, NEW default \in BOOLEAN \union {None},
         UpdateView(v, cfg, default)
  PROVE  saved' \in [View -> Entries] /\ saved'[v] \in SavedViews
<1>1. Stored(saved, v) /\ saved \in [View -> Entries]
  BY DEF UpdateView, ServerOK
<1>2. PICK old : old = saved[v]
  OBVIOUS
<1>3. /\ v \in View /\ old.query \in Queries /\ old.layout \in Layouts /\ old.default \in BOOLEAN
  BY <1>1, <1>2, StoredIsSaved
<1>4. PICK q, l, d : /\ q = IF cfg = None THEN old.query ELSE cfg.query
                     /\ l = IF cfg = None THEN old.layout ELSE cfg.layout
                     /\ d = IF default = None THEN old.default ELSE default
  OBVIOUS
<1>5. q \in Queries /\ l \in Layouts /\ d \in BOOLEAN
  BY <1>3, <1>4 DEF Configs
<1>6. PICK new : new = [query |-> q, layout |-> l, default |-> d]
  OBVIOUS
<1>7. new \in SavedViews
  BY <1>5, <1>6 DEF SavedViews
<1>8. PICK views : views = IF default = TRUE THEN NotDefault(saved) ELSE saved
  OBVIOUS
<1>9. views \in [View -> Entries]
  <2>1. ASSUME NEW x \in View PROVE NotDefault(saved)[x] \in Entries
    <3>1. CASE Stored(saved, x)
      <4>1. saved[x] \in SavedViews
        BY <1>1, <3>1, StoredIsSaved
      <4>2. [saved[x] EXCEPT !.default = FALSE] \in SavedViews
        BY <4>1 DEF SavedViews
      <4> QED
        BY <3>1, <4>2 DEF NotDefault, Entries
    <3>2. CASE ~Stored(saved, x)
      BY <1>1, <3>2 DEF NotDefault
    <3> QED
      BY <3>1, <3>2
  <2>2. NotDefault(saved) \in [View -> Entries]
    <3>1. NotDefault(saved) = [x \in View |-> NotDefault(saved)[x]]
      BY DEF NotDefault
    <3> QED
      BY <2>1, <3>1
  <2> QED
    BY <1>1, <1>8, <2>2
<1>10. saved' = [views EXCEPT ![v] = new]
  BY <1>2, <1>4, <1>6, <1>8 DEF UpdateView
<1> QED
  BY <1>3, <1>7, <1>9, <1>10 DEF Entries

LEMMA ListingIsList ==
  ASSUME born \in Seq(Row)
  PROVE  IsList(ListRecords)
<1>1. PICK n \in Nat : DOMAIN born = 1..n
  OBVIOUS
<1>3. DOMAIN RowOrder = 1..n
  BY <1>1 DEF RowOrder, Sorted
<1>4. DOMAIN ListRecords = 1..n
  BY <1>3 DEF ListRecords
<1>5. ListRecords = [i \in 1..n |-> ListRecords[i]]
  BY <1>3 DEF ListRecords
<1>6. \A i \in 1..n : ListRecords[i] \in Range(ListRecords)
  BY <1>4 DEF Range
<1>7. ListRecords \in [1..n -> Range(ListRecords)]
  BY <1>5, <1>6
<1> QED
  BY <1>7 DEF IsList

LEMMA HandledOK ==
  ASSUME ServerOK, BlockOK, NEW call, CallOK(call), Handled(call)
  PROVE  ServerOK' /\ BlockOK' /\ AnswerOK(call, Answer(call))
<1>1. type' \in [Field -> Types \union {Gone}] /\ born' \in Seq(Row)
  BY HandledTables
<1>2. CASE call.op = "createView"
  <2>1. CreateView(call.config) /\ UNCHANGED ref /\ call.config \in Configs
    BY <1>2 DEF Handled, CallOK
  <2>2. saved' \in [View -> Entries] /\ Created(saved, saved') \in View
    BY <2>1, CreateViewOK
  <2>3. Answer(call).id = Created(saved, saved')
    BY <1>2 DEF Answer, Pending
  <2>4. AnswerOK(call, Answer(call))
    BY <1>2, <2>2, <2>3 DEF AnswerOK
  <2> QED
    BY <1>1, <2>1, <2>2, <2>4 DEF ServerOK, BlockOK
<1>3. CASE call.op = "updateView"
  <2>1. /\ UpdateView(call.view, call.config, call.default)
        /\ call.config \in Configs \union {None} /\ call.default \in BOOLEAN \union {None}
    BY <1>3 DEF Handled, CallOK
  <2>2. saved' \in [View -> Entries] /\ saved'[call.view] \in SavedViews
    BY <2>1, UpdateViewOK
  <2>3. Answer(call).view = saved'[call.view]
    BY <1>3 DEF Answer, Pending
  <2>4. AnswerOK(call, Answer(call))
    BY <1>3, <2>2, <2>3 DEF AnswerOK
  <2>5. BlockOK'
    BY <2>1, PublishOK DEF UpdateView
  <2> QED
    BY <1>1, <2>2, <2>4, <2>5 DEF ServerOK
<1>4. CASE call.op = "deleteView"
  <2>1. DeleteView(call.view) /\ UNCHANGED ref
    BY <1>4 DEF Handled
  <2>2. saved' \in [View -> Entries]
    BY <2>1 DEF DeleteView, ServerOK, Entries
  <2>3. AnswerOK(call, Answer(call))
    BY <1>4 DEF AnswerOK
  <2> QED
    BY <1>1, <2>1, <2>2, <2>3 DEF ServerOK, BlockOK
<1>5. CASE call.op \notin {"createView", "updateView", "deleteView"}
  <2>1. UNCHANGED <<saved, ref>>
    BY <1>5 DEF Handled
  <2>2. AnswerOK(call, Answer(call))
    <3>1. CASE call.op = "listFields"
      <4>1. Answer(call).fields = type
        BY <3>1 DEF Answer, Pending
      <4> QED
        BY <3>1, <4>1 DEF AnswerOK, ServerOK
    <3>2. CASE call.op = "listRecords"
      <4>1. Answer(call).records = ListRecords
        BY <3>2 DEF Answer, Pending
      <4>2. IsList(ListRecords)
        BY ListingIsList DEF ServerOK
      <4> QED
        BY <3>2, <4>1, <4>2 DEF AnswerOK
    <3>3. CASE call.op = "listViews"
      <4>1. Answer(call).views = saved
        BY <3>3 DEF Answer, Pending
      <4> QED
        BY <3>3, <4>1 DEF AnswerOK, ServerOK
    <3>4. CASE call.op \notin {"listFields", "listRecords", "listViews"}
      BY <1>5, <3>4 DEF AnswerOK
    <3> QED
      BY <3>1, <3>2, <3>3, <3>4
  <2> QED
    BY <1>1, <2>1, <2>2 DEF ServerOK, BlockOK
<1> QED
  BY <1>2, <1>3, <1>4, <1>5

-----------------------------------------------------------------------------
(* Clicks.                                                                 *)

LEMMA TaskOfCalls ==
  ASSUME NEW T, \A x \in T : CallOK(x), NEW s \in Seq(T), s # <<>>
  PROVE  TaskOK(Doing(s))
<1>1. \A n \in DOMAIN s : s[n] \in T
  OBVIOUS
<1>2. IsList(s) /\ \A n \in DOMAIN s : CallOK(s[n])
  BY <1>1, AList
<1>3. Doing(s).todo = s /\ ~Doing(s).answer.done /\ DOMAIN Doing(s) = {"todo", "answer"}
  BY DEF Doing, Pending
<1> QED
  BY <1>2, <1>3 DEF TaskOK

LEMMA TaskOfOne ==
  ASSUME NEW x, CallOK(x)
  PROVE  TaskOK(Doing(<<x>>))
<1>1. <<x>> \in Seq({x}) /\ <<x>> # <<>>
  OBVIOUS
<1>2. \A y \in {x} : CallOK(y)
  OBVIOUS
<1> QED
  BY <1>1, <1>2, TaskOfCalls

LEMMA PlainCalls ==
  /\ CallOK(ListFields) /\ CallOK(ListRowsCall) /\ CallOK(ListViews) /\ CallOK(NewRow)
  /\ \A r, f, v : CallOK(Write(r, f, v))
  /\ \A f : CallOK(DropField(f))
  /\ \A ids : CallOK(Reorder(ids))
  /\ \A v, active : CallOK(Delete(v, active))
  /\ \A f, t : t \in Types => CallOK(Retype(f, t))
  /\ \A cfg : cfg \in Configs => CallOK(Create(cfg)) /\ \A v : CallOK(Update(v, cfg))
  /\ \A v, b : b \in BOOLEAN => CallOK(Default(v, b))
  BY DEF CallOK, ListFields, ListRowsCall, ListViews, NewRow, Write, DropField, Reorder, Delete, Retype,
         Create, Update, Default

TabsOK ==
  /\ DOMAIN tab = Tab /\ \A c \in Tab : TabOK(tab[c])
  /\ DOMAIN out = Tab /\ \A c \in Tab : Tasks(out[c])

LEMMA TabsThen ==
  ASSUME DOMAIN tab' = Tab, \A d \in Tab : TabOK(tab'[d]),
         DOMAIN out' = Tab, \A d \in Tab : Tasks(out'[d])
  PROVE  TabsOK'
  BY DEF TabsOK, TabOK, Tasks, TaskOK, IsList, CallOK, AnswerOK

LEMMA StartsOK ==
  ASSUME TabsOK, NEW c, NEW kind, NEW calls, TaskOK(Doing(calls)), Starts(c, kind, calls)
  PROVE  TabsOK'
<1>1. tab' = tab /\ out' = [out EXCEPT ![c] = @ \o <<Doing(calls)>>]
  BY DEF Starts, Task
<1>2. ASSUME NEW d \in Tab PROVE Tasks(out'[d])
  <2>1. Tasks(out[d])
    BY DEF TabsOK
  <2>2. CASE d = c
    <3>1. out'[d] = out[d] \o <<Doing(calls)>>
      BY <1>1, <2>2 DEF TabsOK
    <3> QED
      BY <2>1, <3>1, TasksAdd
  <2>3. CASE d # c
    BY <1>1, <2>1, <2>3 DEF TabsOK
  <2> QED
    BY <2>2, <2>3
<1>3. /\ DOMAIN tab' = Tab /\ \A d \in Tab : TabOK(tab'[d])
      /\ DOMAIN out' = Tab
  BY <1>1 DEF TabsOK
<1> QED
  BY <1>2, <1>3, TabsThen

LEMMA BecomesOK ==
  ASSUME TabsOK, NEW c \in Tab, NEW t, TabOK(t), NEW tasks, Tasks(tasks), Becomes(c, t, tasks)
  PROVE  TabsOK'
<1>1. PICK u : u = [t EXCEPT !.layout = Layout(t)]
  OBVIOUS
<1>2. TabOK(u)
  BY <1>1, LayoutOK
<1>3. PICK then : then = IF Layout(t) = tab[c].layout THEN tasks ELSE tasks \o <<Doing(<<ListViews>>)>>
  OBVIOUS
<1>4. Tasks(then)
  BY <1>3, PlainCalls, TaskOfOne, TasksAdd
<1>5. tab' = [tab EXCEPT ![c] = u] /\ out' = [out EXCEPT ![c] = then]
  BY <1>1, <1>3 DEF Becomes, Task
<1>6. \A d \in Tab : TabOK(tab'[d])
  BY <1>2, <1>5 DEF TabsOK
<1>7. \A d \in Tab : Tasks(out'[d])
  BY <1>4, <1>5 DEF TabsOK
<1>8. DOMAIN tab' = Tab /\ DOMAIN out' = Tab
  BY <1>5 DEF TabsOK
<1> QED
  BY <1>6, <1>7, <1>8, TabsThen

LEMMA TabChanges ==
  ASSUME TabsOK, NEW c, NEW t, c \in Tab => TabOK(t), tab' = [tab EXCEPT ![c] = t], UNCHANGED out
  PROVE  TabsOK'
<1>1. /\ DOMAIN tab' = Tab /\ \A d \in Tab : TabOK(tab'[d])
      /\ DOMAIN out' = Tab /\ \A d \in Tab : Tasks(out'[d])
  BY DEF TabsOK
<1> QED
  BY <1>1, TabsThen

LEMMA ConfigOK ==
  ASSUME NEW t, TabOK(t)
  PROVE  Config(t) \in Configs
  BY DEF Config, TabOK, Configs

\* What a click on a cell, a column or a row sends.
LEMMA CellClicksOK ==
  ASSUME TabsOK, NEW c \in Tab,
         \/ \E i, f, v : HandleCellEdit(c, i, f, v)
         \/ \E f \in Field, ty \in Offered : OnChangeType(c, f, ty)
         \/ \E f \in Field : HandleDeleteField(c, f)
         \/ HandleNewRecord(c)
         \/ \E r, over \in Row : HandleRowDrag(c, r, over)
  PROVE  TabsOK'
<1>1. ASSUME NEW i, NEW f, NEW v, HandleCellEdit(c, i, f, v) PROVE TabsOK'
  <2>1. PICK x : x = Write(Rows(tab[c])[i].row, f, v)
    OBVIOUS
  <2>2. PICK T : T = {x, ListRowsCall, ListFields}
    OBVIOUS
  <2>3. \A y \in T : CallOK(y)
    BY <2>1, <2>2, PlainCalls
  <2>4. PICK s : s = <<x, ListRowsCall>> \o (IF tab[c].cols[f] = "multiSelect" THEN <<ListFields>> ELSE <<>>)
    OBVIOUS
  <2>5. s \in Seq(T) /\ s # <<>>
    <3>1. PICK a, b : /\ a = <<x, ListRowsCall>>
                      /\ b = IF tab[c].cols[f] = "multiSelect" THEN <<ListFields>> ELSE <<>>
      OBVIOUS
    <3>2. a \in Seq(T) /\ Len(a) = 2
      BY <2>2, <3>1
    <3>3. <<ListFields>> \in Seq(T) /\ <<>> \in Seq(T)
      BY <2>2
    <3>4. b \in Seq(T) /\ Len(b) \in Nat
      BY <3>1, <3>3
    <3>5. s = a \o b
      BY <2>4, <3>1
    <3>6. s \in Seq(T) /\ Len(s) = 2 + Len(b)
      <4>1. a \o b \in Seq(T) /\ Len(a \o b) = Len(a) + Len(b)
        BY <3>2, <3>4, ConcatProperties
      <4> QED
        BY <3>2, <3>5, <4>1
    <3>7. Len(s) # 0
      BY <3>4, <3>6
    <3> QED
      BY <3>6, <3>7
  <2>6. Starts(c, "cells", s)
    BY <1>1, <2>1, <2>4 DEF HandleCellEdit
  <2> QED
    BY <2>3, <2>5, <2>6, TaskOfCalls, StartsOK
<1>2. ASSUME NEW f \in Field, NEW ty \in Offered, OnChangeType(c, f, ty) PROVE TabsOK'
  <2>1. PICK x : x = Retype(f, ty)
    OBVIOUS
  <2>2. CallOK(x)
    BY <2>1, PlainCalls, ViewsAssumption
  <2>3. PICK T : T = {x, ListRowsCall, ListFields}
    OBVIOUS
  <2>4. \A y \in T : CallOK(y)
    BY <2>2, <2>3, PlainCalls
  <2>5. PICK s : s = <<x, ListFields, ListRowsCall>>
    OBVIOUS
  <2>6. s \in Seq(T) /\ s # <<>>
    BY <2>3, <2>5
  <2>7. Starts(c, "cells", s)
    BY <1>2, <2>1, <2>5 DEF OnChangeType
  <2> QED
    BY <2>4, <2>6, <2>7, TaskOfCalls, StartsOK
<1>3. ASSUME NEW f \in Field, HandleDeleteField(c, f) PROVE TabsOK'
  <2>1. TaskOK(Doing(<<DropField(f)>>))
    BY PlainCalls, TaskOfOne
  <2> QED
    BY <1>3, <2>1, StartsOK DEF HandleDeleteField
<1>4. ASSUME HandleNewRecord(c) PROVE TabsOK'
  <2>1. PICK T : T = {NewRow, ListRowsCall}
    OBVIOUS
  <2>2. <<NewRow, ListRowsCall>> \in Seq(T) /\ <<NewRow, ListRowsCall>> # <<>>
    BY <2>1
  <2>3. \A y \in T : CallOK(y)
    BY <2>1, PlainCalls
  <2>4. TaskOK(Doing(<<NewRow, ListRowsCall>>))
    BY <2>2, <2>3, TaskOfCalls
  <2> QED
    BY <1>4, <2>4, StartsOK DEF HandleNewRecord
<1>5. ASSUME NEW r, NEW over, HandleRowDrag(c, r, over) PROVE TabsOK'
  <2>1. PICK ids : Starts(c, "cells", <<Reorder(ids), ListRowsCall>>)
    BY <1>5 DEF HandleRowDrag
  <2>2. PICK T : T = {Reorder(ids), ListRowsCall}
    OBVIOUS
  <2>3. <<Reorder(ids), ListRowsCall>> \in Seq(T) /\ <<Reorder(ids), ListRowsCall>> # <<>>
    BY <2>2
  <2>4. \A y \in T : CallOK(y)
    BY <2>2, PlainCalls
  <2>5. TaskOK(Doing(<<Reorder(ids), ListRowsCall>>))
    BY <2>3, <2>4, TaskOfCalls
  <2> QED
    BY <2>1, <2>5, StartsOK
<1> QED
  BY <1>1, <1>2, <1>3, <1>4, <1>5

LEMMA ViewClicksOK ==
  ASSUME TabsOK, NEW c \in Tab,
         \/ \E q \in Query : SetQuery(c, q)
         \/ \E v \in View \union {All} : HandleSelect(c, v)
         \/ \E l \in Layouts : ChangeViewType(c, l)
         \/ HandleReset(c) \/ HandleSave(c) \/ HandleSaveAs(c)
         \/ \E v \in View : HandleDelete(c, v) \/ SetDefaultView(c, v)
  PROVE  TabsOK'
<1>1. TabOK(tab[c]) /\ Tasks(out[c])
  BY DEF TabsOK
<1>2. ASSUME NEW q \in Query, SetQuery(c, q) PROVE TabsOK'
  <2>1. PICK t : t = [tab[c] EXCEPT !.query = q]
    OBVIOUS
  <2>2. TabOK(t)
    BY <1>1, <2>1 DEF TabOK, Queries
  <2>3. tab' = [tab EXCEPT ![c] = t] /\ UNCHANGED out
    BY <1>2, <2>1 DEF SetQuery, TabsOK
  <2> QED
    BY <2>2, <2>3, TabChanges
<1>3. ASSUME NEW v, HandleSelect(c, v) PROVE TabsOK'
  <2>1. TabOK(SwitchView(tab[c], v)) /\ Becomes(c, SwitchView(tab[c], v), out[c])
    BY <1>1, <1>3, SwitchOK DEF HandleSelect
  <2> QED
    BY <1>1, <2>1, BecomesOK
<1>4. ASSUME NEW l \in Layouts, ChangeViewType(c, l) PROVE TabsOK'
  <2>1. PICK t : t = IF tab[c].chosen \in View THEN SwitchView(tab[c], All) ELSE tab[c]
    OBVIOUS
  <2>2. TabOK(t)
    BY <1>1, <2>1, SwitchOK
  <2>3. PICK u : u = [t EXCEPT !.kept = l]
    OBVIOUS
  <2>4. TabOK(u)
    BY <2>2, <2>3 DEF TabOK
  <2>5. Becomes(c, u, out[c])
    BY <1>4, <2>1, <2>3 DEF ChangeViewType
  <2> QED
    BY <1>1, <2>4, <2>5, BecomesOK
<1>5. ASSUME HandleReset(c) PROVE TabsOK'
  <2>1. PICK t : t = [tab[c] EXCEPT !.query = tab[c].snap.query]
    OBVIOUS
  <2>2. TabOK(t)
    <3>1. tab[c].snap \in Configs
      BY <1>1, <1>5 DEF HandleReset, Dirty, TabOK
    <3>2. tab[c].snap.query \in Queries
      BY <3>1 DEF Configs
    <3> QED
      BY <1>1, <2>1, <3>2 DEF TabOK
  <2>3. tab' = [tab EXCEPT ![c] = t] /\ UNCHANGED out
    BY <1>5, <2>1 DEF HandleReset, TabsOK
  <2> QED
    BY <2>2, <2>3, TabChanges
<1>6. ASSUME HandleSave(c) PROVE TabsOK'
  <2>1. PICK x : x = Update(tab[c].chosen, Config(tab[c]))
    OBVIOUS
  <2>2. CallOK(x)
    BY <1>1, <2>1, ConfigOK, PlainCalls
  <2> QED
    BY <1>6, <2>1, <2>2, TaskOfOne, StartsOK DEF HandleSave
<1>7. ASSUME HandleSaveAs(c) PROVE TabsOK'
  <2>1. PICK x : x = Create(Config(tab[c]))
    OBVIOUS
  <2>2. CallOK(x)
    BY <1>1, <2>1, ConfigOK, PlainCalls
  <2> QED
    BY <1>7, <2>1, <2>2, TaskOfOne, StartsOK DEF HandleSaveAs
<1>8. ASSUME NEW v, HandleDelete(c, v) PROVE TabsOK'
  <2>1. PICK x : x = Delete(v, tab[c].chosen = v)
    OBVIOUS
  <2>2. CallOK(x)
    BY <2>1, PlainCalls
  <2> QED
    BY <1>8, <2>1, <2>2, TaskOfOne, StartsOK DEF HandleDelete
<1>9. ASSUME NEW v, SetDefaultView(c, v) PROVE TabsOK'
  <2>1. CASE tab[c].list[v].default
    <3>1. PICK d : Starts(c, "views", <<Default(d, FALSE)>>)
      BY <1>9, <2>1 DEF SetDefaultView
    <3>2. CallOK(Default(d, FALSE))
      BY PlainCalls
    <3> QED
      BY <3>1, <3>2, TaskOfOne, StartsOK
  <2>2. CASE ~tab[c].list[v].default
    <3>1. PICK x : x = Default(v, TRUE)
      OBVIOUS
    <3>2. CallOK(x)
      BY <3>1, PlainCalls
    <3>3. PICK T : T = {x, ListViews}
      OBVIOUS
    <3>4. <<x, ListViews>> \in Seq(T) /\ <<x, ListViews>> # <<>>
      BY <3>3
    <3>5. \A y \in T : CallOK(y)
      BY <3>2, <3>3, PlainCalls
    <3>6. Starts(c, "views", <<x, ListViews>>)
      BY <1>9, <2>2, <3>1 DEF SetDefaultView
    <3> QED
      BY <3>4, <3>5, <3>6, TaskOfCalls, StartsOK
  <2> QED
    BY <2>1, <2>2
<1> QED
  BY <1>2, <1>3, <1>4, <1>5, <1>6, <1>7, <1>8, <1>9

-----------------------------------------------------------------------------
(* Calls served, answers, losses.                                          *)

LEMMA ServeOK ==
  ASSUME ServerOK, BlockOK, TabsOK, NEW c \in Tab, NEW k, Serve(c, k)
  PROVE  ServerOK' /\ BlockOK' /\ TabsOK'
<1>1. k \in DOMAIN out[c] /\ tab' = tab
  BY DEF Serve
<1>2. Tasks(out[c]) /\ TaskOK(out[c][k])
  BY <1>1 DEF TabsOK, Tasks
<1>3. PICK call : call = out[c][k].todo[1]
  OBVIOUS
<1>4. CallOK(call)
  <2>1. out[c][k].todo # <<>> /\ IsList(out[c][k].todo)
    BY <1>2 DEF TaskOK
  <2>2. 1 \in DOMAIN out[c][k].todo
    BY <2>1 DEF IsList
  <2> QED
    BY <1>2, <1>3, <2>2 DEF TaskOK
<1>5. CASE Refused(call)
  <2>1. out' = [out EXCEPT ![c] = RemoveAt(@, k)] /\ UNCHANGED <<tableVars, saved, ref>>
    BY <1>3, <1>5 DEF Serve
  <2>2. Tasks(RemoveAt(out[c], k))
    BY <1>1, <1>2, TasksLess
  <2>3. \A d \in Tab : Tasks(out'[d])
    BY <2>1, <2>2 DEF TabsOK
  <2>4. DOMAIN tab' = Tab /\ (\A d \in Tab : TabOK(tab'[d])) /\ DOMAIN out' = Tab
    BY <1>1, <2>1 DEF TabsOK
  <2>5. TabsOK'
    BY <2>3, <2>4, TabsThen
  <2> QED
    BY <2>1, <2>5 DEF ServerOK, BlockOK, tableVars
<1>6. CASE ~Refused(call)
  <2>1. Handled(call) /\ out' = [out EXCEPT ![c][k].answer = Answer(call)]
    BY <1>3, <1>6 DEF Serve
  <2>2. ServerOK' /\ BlockOK' /\ AnswerOK(call, Answer(call))
    BY <1>4, <2>1, HandledOK
  <2>3. PICK x : x = [out[c][k] EXCEPT !.answer = Answer(call)]
    OBVIOUS
  <2>4. TaskOK(x)
    BY <1>2, <1>3, <2>2, <2>3 DEF TaskOK
  <2>5. Tasks([out[c] EXCEPT ![k] = x])
    BY <1>1, <1>2, <2>4, TasksReplace
  <2>6. out' = [out EXCEPT ![c] = [out[c] EXCEPT ![k] = x]]
    BY <2>1, <2>3
  <2>7. \A d \in Tab : Tasks(out'[d])
    BY <2>5, <2>6 DEF TabsOK
  <2>8. DOMAIN tab' = Tab /\ (\A d \in Tab : TabOK(tab'[d])) /\ DOMAIN out' = Tab
    BY <1>1, <2>6 DEF TabsOK
  <2>9. TabsOK'
    BY <2>7, <2>8, TabsThen
  <2> QED
    BY <2>2, <2>9
<1> QED
  BY <1>5, <1>6

\* The calls a task has left.
LEMMA RestOK ==
  ASSUME NEW task, TaskOK(task), NEW rest, rest = Tail(task.todo), rest # <<>>
  PROVE  TaskOK(Doing(rest))
<1>1. PICK s : s = task.todo
  OBVIOUS
<1>2. IsList(s) /\ s # <<>> /\ \A n \in DOMAIN s : CallOK(s[n])
  BY <1>1 DEF TaskOK
<1>3. PICK T : T = Range(s)
  OBVIOUS
<1>4. s \in Seq(T) /\ \A x \in T : CallOK(x)
  BY <1>2, <1>3 DEF IsList, Range
<1>5. rest \in Seq(T)
  BY <1>1, <1>2, <1>4
<1> QED
  BY <1>4, <1>5, TaskOfCalls

LEMMA LandOK ==
  ASSUME TabsOK, NEW c \in Tab, NEW k, Land(c, k)
  PROVE  TabsOK'
<1>1. PICK task, rest : task = out[c][k] /\ rest = Tail(task.todo)
  OBVIOUS
<1>2. k \in DOMAIN out[c] /\ task.answer.done
  BY <1>1 DEF Land
<1>3. Tasks(out[c]) /\ TaskOK(task) /\ TabOK(tab[c])
  BY <1>1, <1>2 DEF TabsOK, Tasks
<1>4. PICK t : t = Landed(tab[c], task.todo[1], task.answer)
  OBVIOUS
<1>5. TabOK(t)
  <2>1. task.todo # <<>> /\ IsList(task.todo)
    BY <1>3 DEF TaskOK
  <2>2. 1 \in DOMAIN task.todo
    BY <2>1 DEF IsList
  <2>3. CallOK(task.todo[1]) /\ AnswerOK(task.todo[1], task.answer)
    BY <1>2, <1>3, <2>2 DEF TaskOK
  <2> QED
    BY <1>3, <1>4, <2>3, LandedOK
<1>6. PICK tasks : tasks = IF rest = <<>> THEN RemoveAt(out[c], k)
                           ELSE [out[c] EXCEPT ![k] = Doing(rest)]
  OBVIOUS
<1>7. Tasks(tasks)
  BY <1>1, <1>2, <1>3, <1>6, RestOK, TasksLess, TasksReplace
<1>8. Becomes(c, t, tasks)
  BY <1>1, <1>4, <1>6 DEF Land, ReplaceAt
<1> QED
  BY <1>5, <1>7, <1>8, BecomesOK

LEMMA LoseOK ==
  ASSUME TabsOK, NEW c \in Tab, NEW k, Lose(c, k)
  PROVE  TabsOK'
<1>1. PICK task, rest : task = out[c][k] /\ rest = Tail(task.todo)
  OBVIOUS
<1>2. k \in DOMAIN out[c] /\ tab' = tab
  BY DEF Lose
<1>3. Tasks(out[c]) /\ TaskOK(task)
  BY <1>1, <1>2 DEF TabsOK, Tasks
<1>4. PICK tasks : tasks = IF task.todo[1] = ListFields /\ Len(task.todo) > 1
                           THEN [out[c] EXCEPT ![k] = Doing(rest)] ELSE RemoveAt(out[c], k)
  OBVIOUS
<1>5. Tasks(tasks)
  <2>1. ASSUME Len(task.todo) > 1 PROVE rest # <<>>
    <3>1. IsList(task.todo)
      BY <1>3 DEF TaskOK
    <3>2. task.todo \in Seq(Range(task.todo))
      BY <3>1 DEF IsList
    <3>3. Len(rest) = Len(task.todo) - 1 /\ Len(task.todo) \in Nat
      BY <1>1, <2>1, <3>2
    <3> QED
      BY <2>1, <3>3
  <2> QED
    BY <1>1, <1>2, <1>3, <1>4, <2>1, RestOK, TasksLess, TasksReplace
<1>6. out' = [out EXCEPT ![c] = tasks]
  BY <1>1, <1>4 DEF Lose, ReplaceAt
<1>7. \A d \in Tab : Tasks(out'[d])
  BY <1>5, <1>6 DEF TabsOK
<1>8. DOMAIN tab' = Tab /\ (\A d \in Tab : TabOK(tab'[d])) /\ DOMAIN out' = Tab
  BY <1>2, <1>6 DEF TabsOK
<1> QED
  BY <1>7, <1>8, TabsThen

-----------------------------------------------------------------------------
(* The block.                                                              *)

LEMMA LoadsOK ==
  ASSUME NEW loads \in Seq(Load), NEW i \in DOMAIN loads
  PROVE  loads[i] \in Load /\ RemoveAt(loads, i) \in Seq(Load)
<1>1. i \in 1..Len(loads) /\ Len(loads) \in Nat /\ loads[i] \in Load
  OBVIOUS
<1>2. SubSeq(loads, 1, i - 1) \in Seq(Load)
  <2>1. \A j \in 1..i - 1 : loads[j] \in Load
    BY <1>1
  <2> QED
    BY <1>1, <2>1
<1>3. SubSeq(loads, i + 1, Len(loads)) \in Seq(Load)
  <2>1. \A j \in i + 1..Len(loads) : loads[j] \in Load
    BY <1>1
  <2> QED
    BY <1>1, <2>1
<1> QED
  BY <1>1, <1>2, <1>3 DEF RemoveAt

LEMMA RendersOK ==
  ASSUME NEW r \in Blocks
  PROVE  Renders(r) \in Blocks /\ Sets(r) \in Blocks
  BY DEF Renders, RendersOnly, Sets, Blocks

LEMMA LandLoadOK ==
  ASSUME BlockOK, NEW i, LandLoad(i)
  PROVE  BlockOK'
<1>1. ref.loading \in BOOLEAN /\ ref.loads \in Seq(Load)
  BY DEF BlockOK, Blocks
<1>2. i \in DOMAIN ref.loads
  BY DEF LandLoad, Listing
<1>3. PICK load, less : load = ref.loads[i] /\ less = RemoveAt(ref.loads, i)
  OBVIOUS
<1>4. load \in Load /\ less \in Seq(Load)
  BY <1>1, <1>2, <1>3, LoadsOK
<1>5. CASE ref' = Sets([ref EXCEPT !.error = Missing, !.loading = @ /\ ~load.own, !.loads = less])
  <2>1. PICK l : l = (ref.loading /\ ~load.own)
    OBVIOUS
  <2>2. l \in BOOLEAN
    BY <2>1
  <2>3. [ref EXCEPT !.error = Missing, !.loading = l, !.loads = less] \in Blocks
    BY <1>4, <2>2 DEF BlockOK, Blocks
  <2> QED
    BY <1>5, <2>1, <2>3, RendersOK DEF BlockOK
<1>6. CASE /\ load.got # Missing
           /\ ref' = Renders([ref EXCEPT !.shown = load.got,
                                         !.loads = IF load.own THEN [@ EXCEPT ![i].next = "rows"] ELSE less])
  <2>1. PICK s : s = IF load.own THEN [ref.loads EXCEPT ![i].next = "rows"] ELSE less
    OBVIOUS
  <2>2. s \in Seq(Load)
    <3>1. [load EXCEPT !.next = "rows"] \in Load
      BY <1>4 DEF Load
    <3>2. [ref.loads EXCEPT ![i] = [load EXCEPT !.next = "rows"]] \in Seq(Load)
      BY <1>1, <1>2, <3>1
    <3> QED
      BY <1>3, <1>4, <2>1, <3>2
  <2>3. load.got \in Seen
    BY <1>4 DEF Load
  <2>4. [ref EXCEPT !.shown = load.got, !.loads = s] \in Blocks
    BY <2>2, <2>3 DEF BlockOK, Blocks
  <2> QED
    BY <1>6, <2>1, <2>4, RendersOK DEF BlockOK
<1> QED
  BY <1>3, <1>5, <1>6, Zenon DEF LandLoad

LEMMA BlockStepsOK ==
  ASSUME BlockOK, ServerOK,
         OpenReference \/ StartLoad \/ \E i : ServeLoad(i) \/ LandLoad(i) \/ FinishLoad(i) \/ LoseLoad(i)
  PROVE  BlockOK'
<1>1. ref.loads \in Seq(Load)
  BY DEF BlockOK, Blocks
<1>2. Append(ref.loads, Asked(TRUE)) \in Seq(Load) /\ <<Asked(TRUE)>> \in Seq(Load)
  BY <1>1, AskedOK
<1>3. CASE OpenReference
  <2>1. PICK s : s = <<Asked(TRUE)>>
    OBVIOUS
  <2>2. [ref EXCEPT !.open = TRUE, !.loading = TRUE, !.loads = s] \in Blocks
    BY <1>2, <2>1 DEF BlockOK, Blocks
  <2> QED
    BY <1>3, <2>1, <2>2, RendersOK, Zenon DEF OpenReference, BlockOK
<1>4. CASE StartLoad
  <2>1. PICK s : s = Append(ref.loads, Asked(TRUE))
    OBVIOUS
  <2>2. s \in Seq(Load)
    BY <1>2, <2>1
  <2>3. [ref EXCEPT !.rendered = FALSE, !.error = None, !.loading = TRUE, !.loads = s] \in Blocks
    BY <2>2 DEF BlockOK, Blocks
  <2> QED
    BY <1>4, <2>1, <2>3, RendersOK, Zenon DEF StartLoad, BlockOK
<1>5. ASSUME NEW i, ServeLoad(i) PROVE BlockOK'
  <2>1. PICK x : x = IF Stored(saved, Referred)
                     THEN [query |-> saved[Referred].query, layout |-> saved[Referred].layout] ELSE Missing
    OBVIOUS
  <2>2. x \in Seen
    BY <2>1, StoredIsSaved DEF ServerOK, Seen
  <2>3. i \in DOMAIN ref.loads /\ ref' = [ref EXCEPT !.loads[i].got = x]
    BY <1>5, <2>1 DEF ServeLoad, Listing
  <2>4. PICK load : load = [ref.loads[i] EXCEPT !.got = x]
    OBVIOUS
  <2>5. ref.loads[i] \in Load
    BY <1>1, <2>3
  <2>6. load \in Load
    BY <2>2, <2>4, <2>5 DEF Load
  <2>7. PICK s : s = [ref.loads EXCEPT ![i] = load]
    OBVIOUS
  <2>8. s \in Seq(Load)
    BY <1>1, <2>3, <2>6, <2>7
  <2>9. ref' = [ref EXCEPT !.loads = s]
    BY <2>3, <2>4, <2>7, Zenon
  <2> QED
    BY <2>8, <2>9 DEF BlockOK, Blocks
<1>6. ASSUME NEW i, FinishLoad(i) PROVE BlockOK'
  <2>1. PICK s : s = RemoveAt(ref.loads, i)
    OBVIOUS
  <2>2. i \in DOMAIN ref.loads
    BY <1>6, Zenon DEF FinishLoad
  <2>3. s \in Seq(Load)
    BY <1>1, <2>2, <2>1, LoadsOK
  <2>4. [ref EXCEPT !.loading = FALSE, !.loads = s] \in Blocks
    BY <2>3 DEF BlockOK, Blocks
  <2> QED
    BY <1>6, <2>1, <2>4, RendersOK, Zenon DEF FinishLoad, BlockOK
<1>7. ASSUME NEW i, LoseLoad(i) PROVE BlockOK'
  <2>1. PICK s : s = RemoveAt(ref.loads, i)
    OBVIOUS
  <2>2. i \in DOMAIN ref.loads
    BY <1>7, Zenon DEF LoseLoad
  <2>3. s \in Seq(Load)
    BY <1>1, <2>2, <2>1, LoadsOK
  <2>4. [ref EXCEPT !.loads = s] \in Blocks
    BY <2>3 DEF BlockOK, Blocks
  <2>5. \/ ref' = Sets([[ref EXCEPT !.loads = s] EXCEPT !.error = Failed, !.loading = FALSE])
        \/ ref' = [ref EXCEPT !.loads = s]
    BY <1>7, <2>1, Zenon DEF LoseLoad
  <2>6. [[ref EXCEPT !.loads = s] EXCEPT !.error = Failed, !.loading = FALSE] \in Blocks
    BY <2>4 DEF Blocks
  <2> QED
    BY <2>4, <2>5, <2>6, RendersOK DEF BlockOK
<1> QED
  BY <1>3, <1>4, <1>5, <1>6, <1>7, LandLoadOK

-----------------------------------------------------------------------------
(* What everything holds.                                                  *)

LEMMA TypeParts == ViewsTypeOK <=> ServerOK /\ TabsOK /\ BlockOK
  BY DEF ViewsTypeOK, ServerOK, TabsOK, BlockOK, Blocks, Tasks

LEMMA ViewsTypeInit == ViewsInit => ViewsTypeOK
<1> SUFFICES ASSUME ViewsInit PROVE ServerOK /\ TabsOK /\ BlockOK
  BY TypeParts
<1>1. ServerOK
  BY FirstAssumption, ViewsAssumption DEF ViewsInit, TableInit, ServerOK
<1>2. BlockOK
  <2>1. <<>> \in Seq(Load) /\ None \in Seen
    BY DEF Seen
  <2> QED
    BY <2>1 DEF ViewsInit, BlockOK, Blocks
<1>3. ASSUME NEW c \in Tab PROVE TabOK(tab[c])
  <2>1. tab[c] = [cols |-> type, rows |-> ListRecords, list |-> [v \in View |-> None],
                  chosen |-> Unset, query |-> Plain, snap |-> None, kept |-> "table", layout |-> "table"]
    BY DEF ViewsInit
  <2>2. IsList(ListRecords) /\ type \in [Field -> Types \union {Gone}]
    BY <1>1, ListingIsList DEF ServerOK
  <2>3. [v \in View |-> None] \in [View -> Entries]
    BY DEF Entries
  <2> QED
    BY <2>1, <2>2, <2>3, PlainIsQuery DEF TabOK, Layouts
<1>4. ASSUME NEW c \in Tab PROVE Tasks(out[c])
  <2>1. <<>> \in Seq({})
    OBVIOUS
  <2>2. Tasks(<<>>)
    BY <2>1, TasksAmong
  <2>3. Tasks(<<Doing(<<ListViews>>)>>)
    <3>1. TaskOK(Doing(<<ListViews>>))
      BY PlainCalls, TaskOfOne
    <3>2. PICK x : x = Doing(<<ListViews>>)
      OBVIOUS
    <3>3. <<x>> \in Seq({x}) /\ \A y \in {x} : TaskOK(y)
      BY <3>1, <3>2
    <3> QED
      BY <3>2, <3>3, TasksAmong
  <2>4. out[c] = <<Doing(<<ListViews>>)>> \/ out[c] = <<>>
    BY DEF ViewsInit, Task
  <2> QED
    BY <2>2, <2>3, <2>4
<1>5. DOMAIN tab = Tab /\ DOMAIN out = Tab
  BY DEF ViewsInit
<1> QED
  BY <1>1, <1>2, <1>3, <1>4, <1>5 DEF TabsOK

LEMMA ViewsTypeNext == ViewsTypeOK /\ [ViewsNext]_viewVars => ViewsTypeOK'
<1> SUFFICES ASSUME ServerOK, TabsOK, BlockOK, [ViewsNext]_viewVars
             PROVE  ServerOK' /\ TabsOK' /\ BlockOK'
  <2>1. ServerOK' /\ TabsOK' /\ BlockOK' => ViewsTypeOK'
    BY DEF ViewsTypeOK, ServerOK, TabsOK, BlockOK, Blocks, Tasks
  <2> QED
    BY <2>1, TypeParts
<1>1. ASSUME UNCHANGED <<tableVars, saved>> PROVE ServerOK'
  BY <1>1 DEF ServerOK, tableVars
<1>2. ASSUME UNCHANGED ref PROVE BlockOK'
  BY <1>2 DEF BlockOK
<1>3. ASSUME UNCHANGED <<tab, out>> PROVE TabsOK'
  <2>1. /\ DOMAIN tab' = Tab /\ \A d \in Tab : TabOK(tab'[d])
        /\ DOMAIN out' = Tab /\ \A d \in Tab : Tasks(out'[d])
    BY <1>3 DEF TabsOK
  <2> QED
    BY <2>1, TabsThen
<1>4. ASSUME NEW c \in Tab, Click(c) PROVE ServerOK' /\ TabsOK' /\ BlockOK'
  <2>1. ServerOK' /\ BlockOK'
    BY <1>1, <1>2, <1>4, ClicksLeaveTables
  <2>2. \/ \E i \in 1..Cardinality(Row), f \in Field, v \in Inputs : HandleCellEdit(c, i, f, v)
        \/ \E f \in Field, ty \in Offered : OnChangeType(c, f, ty)
        \/ \E f \in Field : HandleDeleteField(c, f)
        \/ HandleNewRecord(c)
        \/ \E r, over \in Row : HandleRowDrag(c, r, over)
        \/ \E q \in Query : SetQuery(c, q)
        \/ \E v \in View \union {All} : HandleSelect(c, v)
        \/ \E l \in Layouts : ChangeViewType(c, l)
        \/ HandleReset(c) \/ HandleSave(c) \/ HandleSaveAs(c)
        \/ \E v \in View : HandleDelete(c, v) \/ SetDefaultView(c, v)
    BY <1>4 DEF Click
  <2> QED
    BY <2>1, <2>2, CellClicksOK, ViewClicksOK
<1>5. ASSUME NEW c \in Tab, NEW k \in Slots, Serve(c, k) PROVE ServerOK' /\ TabsOK' /\ BlockOK'
  BY <1>5, ServeOK
<1>6. ASSUME NEW c \in Tab, NEW k \in Slots, Land(c, k) PROVE ServerOK' /\ TabsOK' /\ BlockOK'
  <2>1. UNCHANGED <<tableVars, saved>> /\ UNCHANGED ref
    BY <1>6 DEF Land
  <2> QED
    BY <1>1, <1>2, <1>6, <2>1, LandOK
<1>7. ASSUME NEW c \in Tab, NEW k \in Slots, Lose(c, k) PROVE ServerOK' /\ TabsOK' /\ BlockOK'
  <2>1. UNCHANGED <<tableVars, saved>> /\ UNCHANGED ref
    BY <1>7 DEF Lose
  <2> QED
    BY <1>1, <1>2, <1>7, <2>1, LoseOK
<1>8. CASE \/ OpenReference \/ StartLoad
           \/ \E i \in 1..MaxLoads : ServeLoad(i) \/ LandLoad(i) \/ FinishLoad(i) \/ LoseLoad(i)
  <2>1. UNCHANGED <<tableVars, saved>> /\ UNCHANGED <<tab, out>>
    BY <1>8, Zenon DEF OpenReference, StartLoad, ServeLoad, LandLoad, FinishLoad, LoseLoad
  <2> QED
    BY <1>1, <1>3, <1>8, <2>1, BlockStepsOK
<1>9. CASE UNCHANGED viewVars
  BY <1>1, <1>2, <1>3, <1>9 DEF viewVars
<1> QED
  BY <1>4, <1>5, <1>6, <1>7, <1>8, <1>9 DEF ViewsNext

(* What the tables, the tabs, their calls and the block hold is what        *)
(* the clicks, calls and answers are written for, and the rows a tab holds  *)
(* are a list, whatever calls are under way.                               *)
THEOREM ViewsTypeCorrect == ViewsSpec => []ViewsTypeOK
  BY ViewsTypeInit, ViewsTypeNext, PTL DEF ViewsSpec

-----------------------------------------------------------------------------
(* The rows on screen.                                                     *)

\* a is ahead of b by the sorts, b stands behind a in the listing or is a.
InOrder(rows, types, sorts, a, b) ==
  \/ \E i \in Live(types, sorts) :
       /\ Compare(types, sorts[i], a, b) < 0
       /\ \A j \in Live(types, sorts) : j < i => Compare(types, sorts[j], a, b) = 0
  \/ /\ \A i \in Live(types, sorts) : Compare(types, sorts[i], a, b) = 0
     /\ \E i, j \in DOMAIN rows : i <= j /\ rows[i] = a /\ rows[j] = b

LEMMA QueryOrders ==
  ASSUME NEW S, NEW rows \in Seq(S), NEW types, NEW q, NEW X, q.sorts \in Seq(X),
         NEW shown, shown = ApplyFiltersAndSorts(rows, types, q),
         NEW k \in 1..Len(shown) - 1
  PROVE  InOrder(rows, types, q.sorts, shown[k], shown[k + 1])
<1>1. PICK F : F = ApplyFilters(rows, types, q.filters)
  OBVIOUS
<1>2. PICK sorts : sorts = q.sorts
  OBVIOUS
<1>3. F \in Seq(S) /\ Drawn(F, rows, Len(rows))
  BY <1>1, FiltersDraw
<1>4. shown = ApplySorts(F, types, sorts)
  BY <1>1, <1>2 DEF ApplyFiltersAndSorts
<1>5. PICK n \in Nat : n = Len(sorts) /\ DOMAIN sorts = 1..n
  BY <1>2
<1>6. Len(shown) = Len(F) /\ Ranged(1, shown, F, types, sorts)
  BY <1>3, <1>4, <1>5, SortsRange
<1>7. PICK m \in Nat : m = Len(F)
  BY <1>3
<1>8. PICK p \in [1..m -> 1..m] :
        /\ \A i \in 1..m : shown[i] = F[p[i]]
        /\ \A i, j \in 1..m : i < j => Ahead(1, F, types, sorts, p[i], p[j])
  BY <1>6, <1>7 DEF Ranged
<1>9. PICK N \in Nat : N = Len(rows) /\ DOMAIN rows = 1..N
  OBVIOUS
<1>10. PICK e \in [1..m -> 1..N] :
         /\ \A i \in 1..m : F[i] = rows[e[i]]
         /\ \A i, j \in 1..m : i < j => e[i] < e[j]
  BY <1>3, <1>7, <1>9 DEF Drawn
<1>11. k \in 1..m /\ k + 1 \in 1..m /\ k < k + 1
  BY <1>6, <1>7
<1>12. PICK x \in 1..m, y \in 1..m : x = p[k] /\ y = p[k + 1]
  BY <1>8, <1>11
<1>13. shown[k] = F[x] /\ shown[k + 1] = F[y] /\ Ahead(1, F, types, sorts, x, y)
  BY <1>8, <1>11, <1>12
<1>14. PICK a, b : a = F[x] /\ b = F[y]
  OBVIOUS
<1>15. \A i \in Live(types, sorts) : 1 <= i
  BY <1>5 DEF Live
<1>16. CASE \E i \in Live(types, sorts) :
              /\ 1 <= i /\ Compare(types, sorts[i], F[x], F[y]) < 0
              /\ \A j \in Live(types, sorts) :
                   1 <= j /\ j < i => Compare(types, sorts[j], F[x], F[y]) = 0
  BY <1>2, <1>13, <1>15, <1>16 DEF InOrder
<1>17. CASE /\ \A i \in Live(types, sorts) : 1 <= i => Compare(types, sorts[i], F[x], F[y]) = 0
            /\ x < y
  <2>1. e[x] \in DOMAIN rows /\ e[y] \in DOMAIN rows /\ e[x] <= e[y]
    <3>1. e[x] \in 1..N /\ e[y] \in 1..N
      OBVIOUS
    <3>2. e[x] < e[y]
      BY <1>10, <1>17
    <3>3. e[x] <= e[y]
      BY <3>1, <3>2
    <3> QED
      BY <1>9, <3>1, <3>3
  <2>2. rows[e[x]] = F[x] /\ rows[e[y]] = F[y]
    BY <1>10
  <2>3. \E i, j \in DOMAIN rows : i <= j /\ rows[i] = F[x] /\ rows[j] = F[y]
    BY <2>1, <2>2
  <2>4. \A i \in Live(types, sorts) : Compare(types, sorts[i], F[x], F[y]) = 0
    BY <1>15, <1>17
  <2> QED
    BY <1>2, <1>13, <2>3, <2>4 DEF InOrder
<1> QED
  BY <1>13, <1>16, <1>17 DEF Ahead

LEMMA TabsShowOrder == ViewsTypeOK => ShownIsTheQuery
<1> SUFFICES ASSUME ViewsTypeOK, NEW c \in Tab, NEW k \in 1..Len(Rows(tab[c])) - 1
             PROVE  InOrder(tab[c].rows, tab[c].cols, tab[c].query.sorts,
                            Rows(tab[c])[k], Rows(tab[c])[k + 1])
  BY Zenon DEF ShownIsTheQuery, InOrder, Live
<1>1. PICK t : t = tab[c]
  OBVIOUS
<1>2. IsList(t.rows) /\ t.query \in Queries
  BY <1>1 DEF ViewsTypeOK, TabOK
<1>3. t.rows \in Seq(Range(t.rows))
  BY <1>2 DEF IsList
<1>4. t.query.sorts \in Seq([field : Field, desc : BOOLEAN])
  BY <1>2, ViewsAssumption
<1>5. PICK shown : shown = ApplyFiltersAndSorts(t.rows, t.cols, t.query)
  OBVIOUS
<1>6. Rows(tab[c]) = shown
  BY <1>1, <1>5 DEF Rows
<1>7. k \in 1..Len(shown) - 1
  BY <1>6
<1>8. InOrder(t.rows, t.cols, t.query.sorts, shown[k], shown[k + 1])
  BY <1>3, <1>4, <1>5, <1>7, QueryOrders
<1> QED
  BY <1>1, <1>6, <1>8

(* The rows on screen stand in the order of the first sort that tells      *)
(* them apart, and where none does in that of the listing: the sorts are   *)
(* applied one by one from the last, each pass is stable, and a sort on a  *)
(* column that is gone moves nothing.                                      *)
THEOREM ShownInQueryOrder == ViewsSpec => []ShownIsTheQuery
  BY ViewsTypeCorrect, TabsShowOrder, PTL

-----------------------------------------------------------------------------
(* The choice of a view.                                                   *)
(* What an answer leaves of the choice, unless it is to a creation or a    *)
(* deletion of a view: all of it, and the query, since a load takes up the *)
(* default view only where nothing was chosen.                             *)
LEMMA LandedKeepsChoice ==
  ASSUME NEW t, TabOK(t), t.chosen # Unset, NEW call, NEW a,
         call.op \notin {"createView", "deleteView"}
  PROVE  Landed(t, call, a).chosen = t.chosen /\ Landed(t, call, a).query = t.query
<1>1. CASE call.op = "listFields"
  BY <1>1 DEF Landed, TabOK
<1>2. CASE call.op = "listRecords"
  BY <1>2 DEF Landed, TabOK
<1>3. CASE call.op = "listViews"
  <2>1. Landed(t, call, a) = [t EXCEPT !.list = a.views]
    BY <1>3 DEF Landed, LoadDbViews, TakeUp
  <2> QED
    BY <2>1 DEF TabOK
<1>4. CASE call.op = "deleteField"
  BY <1>4 DEF Landed, TabOK
<1>5. CASE call.op = "createRecord"
  BY <1>5 DEF Landed, TabOK
<1>6. CASE call.op = "updateView"
  BY <1>6 DEF Landed, TabOK
<1>7. CASE call.op \notin {"listFields", "listRecords", "listViews", "deleteField", "createRecord",
                           "createView", "updateView", "deleteView"}
  BY <1>7 DEF Landed
<1> QED
  BY <1>1, <1>2, <1>3, <1>4, <1>5, <1>6, <1>7

Kept ==
  \A c \in Tab, k \in Slots :
    (/\ Land(c, k) /\ tab[c].chosen # Unset
     /\ out[c][k].todo[1].op \notin {"createView", "deleteView"})
    => tab'[c].chosen = tab[c].chosen /\ tab'[c].query = tab[c].query

LEMMA LandingKeepsChoice == ViewsTypeOK => Kept
<1> SUFFICES ASSUME ViewsTypeOK, NEW c \in Tab, NEW k \in Slots, Land(c, k), tab[c].chosen # Unset,
                    out[c][k].todo[1].op \notin {"createView", "deleteView"}
             PROVE  tab'[c].chosen = tab[c].chosen /\ tab'[c].query = tab[c].query
  BY DEF Kept
<1>1. PICK call, a : call = out[c][k].todo[1] /\ a = out[c][k].answer
  OBVIOUS
<1>2. PICK t : t = Landed(tab[c], call, a)
  OBVIOUS
<1>3. TabsOK /\ TabOK(tab[c])
  BY TypeParts DEF TabsOK
<1>4. t.chosen = tab[c].chosen /\ t.query = tab[c].query
  BY <1>1, <1>2, <1>3, LandedKeepsChoice
<1>5. tab' = [tab EXCEPT ![c] = [t EXCEPT !.layout = Layout(t)]]
  BY <1>1, <1>2 DEF Land, Becomes
<1>6. tab'[c] = [t EXCEPT !.layout = Layout(t)]
  BY <1>3, <1>5 DEF TabsOK
<1>7. {"chosen", "query"} \subseteq DOMAIN tab'[c]
  BY <1>3, LandOK DEF TabsOK, TabOK
<1> QED
  BY <1>4, <1>6, <1>7

(* Once something has been chosen, no late answer to a load, a save or a   *)
(* change of the default takes the choice or the query away.               *)
THEOREM ChoicesAreKept == ViewsSpec => ChoiceIsKept
<1>1. ViewsTypeOK /\ [ViewsNext]_viewVars => [Kept]_viewVars
  BY LandingKeepsChoice
<1>2. ViewsSpec => [][Kept]_viewVars
  BY <1>1, ViewsTypeCorrect, PTL DEF ViewsSpec
<1> QED
  BY <1>2 DEF ChoiceIsKept, Kept
=============================================================================
