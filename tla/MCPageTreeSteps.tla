--------------------------- MODULE MCPageTreeSteps --------------------------
(* TLC instances of PageTreeSteps.                                         *)
EXTENDS PageTreeSteps, TLC

CONSTANTS p1, p2, p3, f1, f2

ThreePages == {p1, p2, p3}
OneFiber   == {f1}
TwoFibers  == {f1, f2}
=============================================================================
