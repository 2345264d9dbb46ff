---------------------------- MODULE MCPermissions ----------------------------
(* TLC instances of Permissions.                                           *)
EXTENDS Permissions, TLC

CONSTANTS p1, p2, w, u1, u2

OnePage    == {p1}
TwoPages   == {p1, p2}
TwoUsers   == {w, u1}
ThreeUsers == {w, u1, u2}

Owners == (User \X {"owner", Nothing}) \union ({Members} \X {"editor", Nothing})

MemberSymmetry == Permutations({u1, u2}) \union Permutations({p1, p2})
=============================================================================
