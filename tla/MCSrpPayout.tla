---------------------------- MODULE MCSrpPayout -----------------------------
(* Instances of SrpPayout for TLC. *)
EXTENDS SrpPayout, TLC

CONSTANTS a1, a2, u1, c1, c2

\* Both applications are of one user.
OneOwner == [a \in Apps |-> u1]

Symmetry == Permutations({a1, a2})
=============================================================================
