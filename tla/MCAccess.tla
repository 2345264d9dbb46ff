------------------------------ MODULE MCAccess -------------------------------
(* TLC instances of Access.                                                *)
EXTENDS Access, TLC

CONSTANTS p1, p2, p3, w, u1

ThreePages == {p1, p2, p3}
TwoUsers   == {w, u1}

\* The founder's entry locks a page against the member.
SomeWrites == ({w} \X {"owner", Nothing}) \union ({u1} \X {"owner", "viewer", Nothing})
                \union ({Members} \X {"viewer", Nothing})

PageSymmetry == Permutations({p1, p2, p3})
=============================================================================
