---------------------------- MODULE MCTaskRunner ----------------------------
(* Instances of TaskRunner for TLC. *)
EXTENDS TaskRunner, TLC

CONSTANTS t1, c1, c2
=============================================================================
