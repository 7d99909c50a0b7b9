------------------------------ MODULE SrpBook -------------------------------
(***************************************************************************)
(* What ship replacement promises for one application: it is filed, judged *)
(* and paid, and a paid one is done.  A lost update (a row written from a  *)
(* copy that is no longer the row) may do anything to it; the book notes   *)
(* which applications that happened to.                                    *)
(***************************************************************************)
EXTENDS Naturals

CONSTANT Apps   \* applications

VARIABLES
    state,      \* none, submitted, approved, rejected or paid
    payments,   \* how often the application was paid
    lost        \* an update of it was lost

vars == <<state, payments, lost>>

States == {"none", "submitted", "approved", "rejected", "paid"}

Moves ==
    {<<"none", "submitted">>, <<"none", "approved">>,          \* filed by a pilot, or by auto SRP
     <<"submitted", "approved">>, <<"submitted", "rejected">>, \* judged
     <<"approved", "rejected">>, <<"rejected", "approved">>,   \* judged again
     <<"rejected", "submitted">>}                              \* filed again

Init ==
    /\ state = [a \in Apps |-> "none"]
    /\ payments = [a \in Apps |-> 0]
    /\ lost = [a \in Apps |-> FALSE]

Judge(a) ==
    \E s \in States :
        /\ <<state[a], s>> \in Moves
        /\ state' = [state EXCEPT ![a] = s]
        /\ UNCHANGED <<payments, lost>>

Pay(S) ==
    /\ \A a \in S : state[a] = "approved"
    /\ state' = [a \in Apps |-> IF a \in S THEN "paid" ELSE state[a]]
    /\ payments' = [a \in Apps |-> IF a \in S THEN payments[a] + 1 ELSE payments[a]]
    /\ UNCHANGED lost

Lose(a) ==
    /\ \E s \in States \ {"none"} : state' = [state EXCEPT ![a] = s]
    /\ \E n \in {0, 1} : payments' = [payments EXCEPT ![a] = @ + n]
    /\ lost' = [lost EXCEPT ![a] = TRUE]

Next ==
    \/ \E a \in Apps : Judge(a) \/ Lose(a)
    \/ \E S \in SUBSET Apps : Pay(S)

Spec == Init /\ [][Next]_vars

\* An application no update of which was lost has been paid once if it is paid, and never
\* otherwise.
PaidOnceUnlessLost ==
    \A a \in Apps : ~lost[a] => payments[a] = IF state[a] = "paid" THEN 1 ELSE 0
=============================================================================
