-------------------------- MODULE MCQQActionQueue --------------------------
(* Instances of QQActionQueue for TLC. *)
EXTENDS QQActionQueue, TLC

CONSTANTS u1, u2, u3, u4

\* A member joins and a reconcile run checks it.
JoinAndCheck == u1 :> "increase" @@ u2 :> "reconcile"
\* A member joins, the join is pushed again, a reconcile run sweeps, and a message
\* is queued for the group.
JoinAndSweep == u1 :> "increase" @@ u2 :> "notify" @@ u3 :> "increase" @@ u4 :> "sweep"

TwoKeys == u1 :> u1 @@ u2 :> u2
SameKey == u1 :> u1 @@ u2 :> u2 @@ u3 :> u1 @@ u4 :> u4

\* The workers run the same code.
WorkerSymmetry == Permutations(Workers)
=============================================================================
