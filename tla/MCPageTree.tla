----------------------------- MODULE MCPageTree -----------------------------
(* TLC instances of PageTree.                                              *)
EXTENDS PageTree

CONSTANTS p1, p2, p3

ThreePages == {p1, p2, p3}
=============================================================================
