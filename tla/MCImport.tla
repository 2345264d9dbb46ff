------------------------------ MODULE MCImport ------------------------------
(* TLC instances of Import.                                                *)
EXTENDS Import, TLC

CONSTANTS p1, p2, p3, p4, d1, d2, r1, r2, a, b, t, r

FourPages   == {p1, p2, p3, p4}
TwoDatabases == {d1, d2}
TwoRecords  == {r1, r2}
Items       == {a, b, t, r}

In(under) == [i \in Items |-> IF i \in DOMAIN under THEN under[i] ELSE Root]

\* A page with a table, and a row with a file; a page in the first one.
First ==
  [pages |-> {a, b, r}, dbs |-> {t}, rows |-> [x \in {t} |-> {r}],
   within |-> In((t :> a) @@ (r :> t) @@ (b :> a)),
   body |-> {b, r}, refs |-> {<<a, t>>}]

\* The same later: the second page is the upper one and has lost its text,
\* as has the row.  The table's path has changed, so it is another table.
Later ==
  [pages |-> {a, b, r}, dbs |-> {t}, rows |-> [x \in {t} |-> {r}],
   within |-> In((t :> a) @@ (r :> t) @@ (a :> b)),
   body |-> {}, refs |-> {<<a, t>>}]

\* The table has no rows yet: the file that shows it has nothing else.
Empty ==
  [pages |-> {a, b}, dbs |-> {t}, rows |-> [x \in {t} |-> {}],
   within |-> In((t :> a) @@ (a :> b)), body |-> {}, refs |-> {<<a, t>>}]

\* A table on its own whose row is a folder with a page.
Folder ==
  [pages |-> {b}, dbs |-> {t}, rows |-> [x \in {t} |-> {r}],
   within |-> In((r :> t) @@ (b :> r)), body |-> {b}, refs |-> {}]

SomeExports == {First, Later, Empty, Folder}

=============================================================================
