--------------------------- MODULE MCReactSession ---------------------------
(* Instances of ReactSession for TLC: an administrator and a user who must complete the profile. *)
EXTENDS ReactSession, TLC

CONSTANTS ta, tb, ann, bob

MCUserOf == [t \in Tokens |-> IF t = tb THEN bob ELSE ann]
=============================================================================
