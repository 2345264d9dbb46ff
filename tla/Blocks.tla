------------------------------- MODULE Blocks -------------------------------
(***************************************************************************)
(* The blocks of one page, as the server keeps them                        *)
(* (packages/server/src/handlers/blocks.ts) and answers the calls about    *)
(* them (packages/server/src/rpc-handlers.ts).                             *)
(*                                                                         *)
(* A row's place on the page is its index; indexes are whatever callers    *)
(* have sent, gaps included.  The columns that nothing here reads (page,   *)
(* parent) are left out: no caller gives a block a parent.                 *)
(***************************************************************************)
EXTENDS Naturals, FiniteSets, FiniteSetsExt, SequencesExt

CONSTANTS
  Block,     \* ids, the stored ones and those still to be chosen
  Html,      \* contents
  BlockType, \* values of the type column
  MaxIndex   \* the largest index a caller sends

ASSUME IndexAssumption == MaxIndex \in Nat

Row == [html : Html, type : BlockType, index : Nat, rowid : Nat]

VARIABLE table  \* the row of each stored block

TableTypeOK ==
  /\ DOMAIN table \subseteq Block
  /\ table \in [DOMAIN table -> Row]

-----------------------------------------------------------------------------
(* The statements, on any table.                                           *)

ShiftedFrom(t, index) ==
  [b \in DOMAIN t |->
     IF t[b].index >= index THEN [t[b] EXCEPT !.index = @ + 1] ELSE t[b]]

\* SQLite gives a new row the rowid after the largest one in use.
NextRowid(t) == 1 + Max({0} \union {t[b].rowid : b \in DOMAIN t})

Inserted(t, b, html, type, index) ==
  LET new == [html |-> html, type |-> type, index |-> index,
              rowid |-> NextRowid(t)]
  IN  [x \in DOMAIN t \union {b} |->
         IF x = b THEN new ELSE ShiftedFrom(t, index)[x]]

Rewritten(t, b, html, type) ==
  [t EXCEPT ![b].html = html, ![b].type = type]

Without(t, b) == [x \in DOMAIN t \ {b} |-> t[x]]

\* Every listed block gets its position in the list; the others keep theirs.
Reordered(t, ids) ==
  [b \in DOMAIN t |->
     IF \E i \in DOMAIN ids : ids[i] = b
     THEN [t[b] EXCEPT !.index = (CHOOSE i \in DOMAIN ids : ids[i] = b) - 1]
     ELSE t[b]]

\* ORDER BY "index": equal ones come as the scan finds them.
Above(t, b, c) ==
  \/ t[b].index < t[c].index
  \/ t[b].index = t[c].index /\ t[b].rowid < t[c].rowid

ListBlocks(t) ==
  LET Before(b) == Cardinality({c \in DOMAIN t : Above(t, c, b)})
  IN  [k \in 1..Cardinality(DOMAIN t) |->
         CHOOSE b \in DOMAIN t : Before(b) = k - 1]

-----------------------------------------------------------------------------
(* The calls, each one statement or one transaction.                       *)

CreateBlock(b, html, type, index) ==
  /\ b \notin DOMAIN table
  /\ table' = Inserted(table, b, html, type, index)

UpdateBlock(b, html, type) ==
  /\ b \in DOMAIN table
  /\ table' = Rewritten(table, b, html, type)

DeleteBlock(b) ==
  /\ b \in DOMAIN table
  /\ table' = Without(table, b)

ReorderBlocks(ids) == table' = Reordered(table, ids)

\* A list that names every block of the page, once.
WholePage(ids) ==
  /\ ids \in Seq(Block)
  /\ \A b \in DOMAIN table : \E i \in DOMAIN ids : ids[i] = b
  /\ \A i, j \in DOMAIN ids : ids[i] = ids[j] => i = j

BlocksInit == table = [b \in {} |-> 0]

BlocksNext ==
  \/ \E b \in Block, html \in Html, type \in BlockType, index \in 0..MaxIndex :
       CreateBlock(b, html, type, index) \/ UpdateBlock(b, html, type)
  \/ \E b \in Block : DeleteBlock(b)
  \/ \E ids \in Seq(Block) : WholePage(ids) /\ ReorderBlocks(ids)

BlocksSpec == BlocksInit /\ [][BlocksNext]_table

\* Two blocks of a page never claim the same place, whatever index a creation
\* asks for: the insertion makes room.  (reorderBlocks keeps this only when
\* its list names every block: see the README.)
IndexesDistinct ==
  \A b, c \in DOMAIN table : table[b].index = table[c].index => b = c
=============================================================================
