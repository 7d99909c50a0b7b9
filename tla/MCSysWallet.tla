---------------------------- MODULE MCSysWallet ----------------------------
(* Instances of SysWallet for TLC. *)
EXTENDS SysWallet, TLC

CONSTANTS u1, u2

TwoUsers == {u1, u2}
TwoOpening == u1 :> 2 @@ u2 :> 1

\* Every kind of operation against one wallet; the second one is there for the
\* sweep. The amounts make deductions and debits both possible and refused, and
\* the correction clamp.
AllOps ==
    {[kind |-> k, user |-> u1, amount |-> 2] : k \in {"credit", "deduct", "debit"}}
    \cup {[kind |-> k, user |-> u1, amount |-> 1] : k \in {"add", "set", "recruit", "read"}}
    \cup {[kind |-> "correct", user |-> u1, amount |-> 3]}

TwoPolicies == {{}, {u2}}
=============================================================================
