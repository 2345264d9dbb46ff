-------------------------------- MODULE Tables --------------------------------
(***************************************************************************)
(* The cells of a database: how a column stores them, what a change of the *)
(* column's type makes of them, and which rows a query shows, in which     *)
(* order (packages/server/src/handlers/databases.ts,                       *)
(* packages/shared/src/field-types.ts, packages/app/src/lib/               *)
(* filterEngine.ts).                                                       *)
(*                                                                         *)
(* A stored cell is text.  What matters of it: whether the text is a JSON  *)
(* list, and the words in it.  Handlers run to completion.                 *)
(***************************************************************************)
EXTENDS Integers, FiniteSets, SequencesExt

CONSTANTS Word,       \* words users type
          Numeral,    \* those that are numbers
          True, False,\* those a checkbox stores
          Place,      \* the collator's order of the words
          NoCell,     \* no value row
          Gone,       \* the type of a deleted column
          Field, Row,
          FirstType,  \* what the columns, the rows and their cells are at first
          FirstRows, FirstCell

ASSUME WordsAssumption ==
  /\ Numeral \subseteq Word /\ {True, False} \subseteq Word \ Numeral
  /\ Place \in [Word -> 1 .. 99]

VARIABLES type,  \* database_fields.type
          cell,  \* record_field_values.value, by row and column
          born,  \* live rows, oldest first
          pos,   \* database_records.sort_order
          loose  \* history: cells written bare while their column was a relation

tableVars == <<type, cell, born, pos, loose>>

-----------------------------------------------------------------------------
(* Stored text and what it decodes to.                                     *)

\* Date, select and formula columns decode and sort as text does; people and
\* page columns as relations.
ListTypes == {"multiSelect", "relation"}
Types     == {"text", "number", "checkbox"} \union ListTypes

ListOf(ws) == [list |-> TRUE, words |-> ws]
Blank      == [list |-> FALSE, words |-> <<>>]

\* The text of one word; a word that is itself the text of a list.
TextOf(w) == IF w \in Word THEN [list |-> FALSE, words |-> <<w>>] ELSE w
IsBlank(v) == v \in {NoCell, Blank}
IsBare(v)  == ~IsBlank(v) /\ ~v.list

\* At first no column is deleted, and one of lists holds nothing bare.
ASSUME FirstAssumption ==
  /\ Gone \notin Types
  /\ FirstType \in [Field -> Types] /\ FirstRows \in Seq(Row)
  /\ \A c \in FirstCell :
       /\ DOMAIN c = Row
       /\ \A r \in Row : /\ DOMAIN c[r] = Field
                         /\ \A f \in Field : FirstType[f] \in ListTypes => ~IsBare(c[r][f])

\* JSON.parse on one word: a list, a number or a truth value (no list), or no
\* JSON at all, and then split at commas.
Parsed(w) == IF w \notin Word THEN w.words
             ELSE IF w \in Numeral \union {True, False} THEN <<>> ELSE <<w>>

DecodeList(v) == IF IsBlank(v) THEN <<>> ELSE IF v.list THEN v.words ELSE Parsed(v.words[1])

\* Scalar with no word: an empty string, null, or no value at all.
Decode(t, v) ==
  IF v = NoCell THEN [as |-> "scalar", words |-> <<>>]
  ELSE IF t \in ListTypes THEN [as |-> "list", words |-> DecodeList(v)]
  ELSE IF t = "checkbox" THEN
    [as |-> "bool", words |-> <<IF v = TextOf(True) THEN True ELSE False>>]
  ELSE [as |-> "scalar",
        words |-> IF t = "number" THEN SelectSeq(IF v.list THEN <<>> ELSE v.words, LAMBDA w : w \in Numeral)
                  ELSE IF v.list THEN <<v>> ELSE v.words]

Encode(t, ws) == IF t = "checkbox" THEN TextOf(IF ws = <<>> THEN False ELSE True)
                 ELSE IF ws = <<>> THEN Blank ELSE TextOf(ws[1])

\* A stored cell when its column's type changes: a value becomes a list of
\* one, a list its first entry, and anything else stays.
Migrated(old, new, v) ==
  LET d == Decode(old, v)
  IN IF old = new \/ IsBlank(v) THEN v
     ELSE IF old \notin ListTypes /\ new \in ListTypes THEN ListOf(d.words)
     ELSE IF old \in ListTypes /\ new \notin ListTypes THEN Encode(new, d.words)
     ELSE v

\* What a multi-select column is sent becomes a list, whoever sent it.
Normalised(t, v) == IF t = "multiSelect" /\ IsBare(v) THEN ListOf(v.words) ELSE v

-----------------------------------------------------------------------------
(* Queries: filters and sorts over a listing.                              *)

\* The operators for text; on a list, neither of the empty ones holds of [].
Passes(f, d) ==
  CASE f.op = "is"       -> d.words = f.words
    [] f.op = "contains" -> f.words = <<>> \/ f.words[1] \in Range(d.words)
    [] f.op = "is_empty" -> \/ d.as = "scalar" /\ d.words \in {<<>>, <<ListOf(<<>>)>>}
                            \/ d.as = "bool" /\ d.words = <<False>>

\* A filter on a column that is gone holds of every row.
Holds(filters, types, r) ==
  \A f \in Range(filters) : types[f.field] = Gone \/ Passes(f, r.values[f.field])

ApplyFilters(rows, types, filters) ==
  FoldLeft(LAMBDA kept, r : IF Holds(filters, types, r) THEN Append(kept, r) ELSE kept, <<>>, rows)

\* The place of a cell's text in a sort, blanks after everything.  A list
\* comes as its entries joined, and is read as a list again.
Bottom == 100 * 100
Rank(w) == IF w \in Word THEN Place[w] ELSE 0
Key(t, ws) ==
  LET entries == IF Len(ws) = 1 THEN Parsed(ws[1]) ELSE ws
  IN IF t = "checkbox" THEN IF ws = <<True>> THEN 1 ELSE 0
     ELSE IF t \in ListTypes THEN IF entries = <<>> THEN Bottom ELSE Rank(entries[1])
     ELSE IF ws = <<>> THEN Bottom
     ELSE 100 * Rank(ws[1]) + (IF Len(ws) > 1 THEN Rank(ws[2]) ELSE 0)

Compare(types, s, a, b) ==
  LET diff == Key(types[s.field], a.values[s.field].words)
              - Key(types[s.field], b.values[s.field].words)
  IN IF s.desc THEN -diff ELSE diff

\* Array.sort is stable.
Sorted(rows, Cmp(_, _)) ==
  LET rank(i) == Cardinality({j \in DOMAIN rows :
                   \/ Cmp(rows[j], rows[i]) < 0
                   \/ Cmp(rows[j], rows[i]) = 0 /\ j <= i})
  IN [k \in DOMAIN rows |-> rows[CHOOSE i \in DOMAIN rows : rank(i) = k]]

\* One pass per sort, the last sort first.
SortedBy(s, rows, types) ==
  IF types[s.field] = Gone THEN rows ELSE Sorted(rows, LAMBDA a, b : Compare(types, s, a, b))
\* Mutant of the next: the first sort first.
ApplySortsForward(rows, types, sorts) ==
  FoldLeft(LAMBDA acc, s : SortedBy(s, acc, types), rows, sorts)
ApplySorts(rows, types, sorts) ==
  FoldRight(LAMBDA s, acc : SortedBy(s, acc, types), sorts, rows)

ApplyFiltersAndSorts(rows, types, q) ==
  ApplySorts(ApplyFilters(rows, types, q.filters), types, q.sorts)

-----------------------------------------------------------------------------
(* The handlers.                                                           *)

\* Rows by sort_order, the older first, with their decoded values.
RowOrder == Sorted(born, LAMBDA a, b : pos[a] - pos[b])

ListRecords ==
  LET order == RowOrder
      value(r, f) == IF type[f] = Gone THEN Decode("text", NoCell) ELSE Decode(type[f], cell[r][f])
  IN [i \in DOMAIN order |-> [row |-> order[i], values |-> [f \in Field |-> value(order[i], f)]]]

\* Mutant of the next: a value is stored as it was sent.
UpdateFieldValueAsSent(r, f, v) ==
  /\ cell' = [cell EXCEPT ![r][f] = v]
  /\ loose' = IF type[f] = "relation" /\ IsBare(v) THEN loose \union {<<r, f>>}
              ELSE loose \ {<<r, f>>}
  /\ UNCHANGED <<type, born, pos>>

UpdateFieldValue(r, f, v) == UpdateFieldValueAsSent(r, f, Normalised(type[f], v))

\* A deleted column is not found.
UpdateFieldType(f, t) ==
  /\ type[f] # Gone
  /\ type' = [type EXCEPT ![f] = t]
  /\ cell' = [r \in Row |-> [cell[r] EXCEPT ![f] = Migrated(type[f], t, @)]]
  /\ loose' = {c \in loose : cell'[c[1]][c[2]] = cell[c[1]][c[2]]}
  /\ UNCHANGED <<born, pos>>

\* The column's values stay behind.
DeleteField(f) ==
  /\ type' = [type EXCEPT ![f] = Gone]
  /\ UNCHANGED <<cell, born, pos, loose>>

CreateRecord(r) ==
  /\ r \notin Range(born)
  /\ born' = Append(born, r)
  /\ pos' = [pos EXCEPT ![r] = 0]
  /\ UNCHANGED <<type, cell, loose>>

ReorderRecords(ids) ==
  /\ pos' = [r \in Row |-> IF r \in Range(ids)
                           THEN Max({i \in DOMAIN ids : ids[i] = r}) ELSE pos[r]]
  /\ UNCHANGED <<type, cell, born, loose>>

TableInit ==
  /\ type = FirstType /\ cell \in FirstCell
  /\ born = FirstRows /\ pos = [r \in Row |-> 0]
  /\ loose = {}

-----------------------------------------------------------------------------
(* Properties.                                                             *)

\* A multi-select column holds lists and blanks, whatever tabs with another
\* idea of its type have sent and whatever it was before (databases.ts:67),
\* but for what was written bare while it was a relation, which is not
\* normalised and changes type as it is.
MultiHoldsLists ==
  \A r \in Row, f \in Field :
    type[f] = "multiSelect" /\ IsBare(cell[r][f]) => <<r, f>> \in loose
===============================================================================
