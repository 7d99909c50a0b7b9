----------------------------- MODULE MCTableData ----------------------------
(* Instances of TableData for TLC. *)
EXTENDS TableData, TLC

CONSTANTS f0, f1, r1, r2
Symmetry == Permutations(Slots)
=============================================================================
