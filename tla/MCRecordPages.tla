---------------------------- MODULE MCRecordPages ---------------------------
(* TLC instances of RecordPages.                                           *)
EXTENDS RecordPages, TLC

CONSTANTS p1, p2, p3, d1, r1, r2

ThreePages   == {p1, p2, p3}
OneDatabase  == {d1}
TwoRecords   == {r1, r2}

\* The histories name pages and rows as the rows themselves do.
RecordSymmetry == Permutations({p1, p2, p3}) \union Permutations({r1, r2})
=============================================================================
