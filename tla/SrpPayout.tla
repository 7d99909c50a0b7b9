----------------------------- MODULE SrpPayout ------------------------------
(***************************************************************************)
(* Ship replacement: applications, their review and their pay-out          *)
(* (service/srp.go, repository/srp.go, service/auto_srp.go).               *)
(*                                                                         *)
(* Review, automatic approval, filing again, the manual pay-out and the    *)
(* clerks' list read rows without a lock and later save them whole         *)
(* (gorm Save): the copy is what they write.  The pay-outs in coins and    *)
(* the batch of one user lock the rows in a transaction and look again.    *)
(***************************************************************************)
EXTENDS Integers, FiniteSets

CONSTANTS
    Apps,       \* applications (one per killmail and character)
    Users,
    Owner,      \* the user of an application
    Callers,    \* requests in flight, with the roles of their callers
    Limited,    \* those whose roles have the limit (srpCallerHasAmountLimit)
    Amounts,    \* amounts in ISK
    Limit,      \* srpAmountLimit; 0: none
    MaxOps      \* bound: requests in all

ASSUME SrpAssumption ==
    /\ Owner \in [Apps -> Users]
    /\ Limited \subseteq Callers
    /\ Amounts \subseteq Nat /\ Limit \in Nat /\ MaxOps \in Nat

VARIABLES
    row,        \* the table srp_application
    op,         \* the request of each caller, between its reads and its writes
    started,    \* requests so far
    credits,    \* history: wallet transactions with the reference srp:<id>
    transfers,  \* history: times a transfer in the game was confirmed
    torn        \* history: the row was written from a copy that was no longer the row

vars == <<row, op, started, credits, transfers, torn>>

-----------------------------------------------------------------------------
(* Rows and copies *)

Rows == [review : {"none", "submitted", "approved", "rejected"},
         payout : {"notpaid", "paid"}, amount : Nat]

Absent == [review |-> "none", payout |-> "notpaid", amount |-> 0]

NoCopies == [a \in Apps |-> Absent]

\* save: writes `copy` for the rows in `left`; manual: so does a manual pay-out; coin: pays
\* the rows in `left` in coins; user: pays those that are still payable.
Ops == [kind : {"idle", "save", "manual", "coin", "user"}, left : SUBSET Apps,
        read : [Apps -> Rows], copy : [Apps -> Rows], want : Nat]

Idle == [kind |-> "idle", left |-> {}, read |-> NoCopies, copy |-> NoCopies, want |-> 0]

Payable(r) == r.review = "approved" /\ r.payout = "notpaid"

OverLimit(c, x) == c \in Limited /\ Limit > 0 /\ x > Limit

\* A final amount of 0 in a request keeps the one the row has.
Given(x, r) == IF x > 0 THEN x ELSE r.amount

\* Coins have two decimals, one coin is a million ISK; the amount is rounded (in 0.01 coin).
ToCoins(isk) == (isk + 5000) \div 10000

Init ==
    /\ row = [a \in Apps |-> Absent]
    /\ op = [c \in Callers |-> Idle]
    /\ started = 0
    /\ credits = [a \in Apps |-> 0]
    /\ transfers = [a \in Apps |-> 0]
    /\ torn = [a \in Apps |-> FALSE]

-----------------------------------------------------------------------------
(* New applications *)

\* The unique index over killmail and character decides between two that are filed at once.
File(a, status, x) ==
    /\ row[a].review = "none" /\ started < MaxOps
    /\ row' = [row EXCEPT ![a] = [review |-> status, payout |-> "notpaid", amount |-> x]]
    /\ started' = started + 1
    /\ UNCHANGED <<op, credits, transfers, torn>>

Submit(a) == \E x \in Amounts : File(a, "submitted", x)

AutoSubmit(a) == \E x \in Amounts \ {0}, status \in {"submitted", "approved"} : File(a, status, x)

-----------------------------------------------------------------------------
(* Requests that read rows and save them whole *)

Begin(c, kind, S, new, x) ==
    /\ op[c].kind = "idle" /\ started < MaxOps
    /\ op' = [op EXCEPT ![c] =
                 [kind |-> kind, left |-> S, want |-> x,
                  read |-> [a \in Apps |-> IF a \in S THEN row[a] ELSE Absent],
                  copy |-> [a \in Apps |-> IF a \in S THEN new[a] ELSE Absent]]]
    /\ started' = started + 1
    /\ UNCHANGED <<row, credits, transfers, torn>>

SubmitAgain(c, a) ==
    /\ row[a].review = "rejected" /\ row[a].payout = "notpaid"
    /\ \E x \in Amounts :
          Begin(c, "save", {a}, [row EXCEPT ![a] = [@ EXCEPT !.review = "submitted", !.amount = x]], 0)

Approve(c, a) ==
    /\ row[a].review # "none" /\ row[a].payout # "paid"
    /\ \E x \in Amounts :
          /\ ~OverLimit(c, Given(x, row[a]))
          /\ Begin(c, "save", {a},
                   [row EXCEPT ![a] = [@ EXCEPT !.review = "approved", !.amount = Given(x, row[a])]], 0)

\* Mutant: a paid application can be rejected.
RejectPaid(c, a) ==
    /\ row[a].review # "none"
    /\ Begin(c, "save", {a}, [row EXCEPT ![a].review = "rejected"], 0)

Reject(c, a) ==
    /\ row[a].review # "none" /\ row[a].payout # "paid"
    /\ Begin(c, "save", {a}, [row EXCEPT ![a].review = "rejected"], 0)

\* The rows are read by one query and saved one after the other.
RunFleetAutoApproval(c) ==
    \E S \in SUBSET {a \in Apps : row[a].review = "submitted"} \ {{}} :
        \E x \in [S -> Amounts \ {0}] :
            /\ \A a \in S : ~OverLimit(c, x[a])
            /\ Begin(c, "save", S,
                     [a \in Apps |-> IF a \in S
                                     THEN [row[a] EXCEPT !.review = "approved", !.amount = x[a]]
                                     ELSE row[a]], 0)

\* A clerk opens the list: rows whose recommended amount (not in the model) has changed are
\* saved with the new one.
RefreshRecommended(c) ==
    \E S \in SUBSET {a \in Apps : row[a].review \in {"submitted", "approved"}
                                  /\ row[a].payout = "notpaid"} \ {{}} :
        Begin(c, "save", S, row, 0)

PayManually(c, a) ==
    /\ Payable(row[a])
    /\ \E x \in Amounts :
          /\ ~OverLimit(c, Given(x, row[a]))
          /\ Begin(c, "manual", {a},
                   [row EXCEPT ![a] = [@ EXCEPT !.payout = "paid", !.amount = Given(x, row[a])]], 0)

Done(c, a) ==
    op' = [op EXCEPT ![c] = IF op[c].left = {a} THEN Idle ELSE [op[c] EXCEPT !.left = @ \ {a}]]

Save(c, a) ==
    /\ op[c].kind \in {"save", "manual"} /\ a \in op[c].left
    /\ row' = [row EXCEPT ![a] = op[c].copy[a]]
    /\ torn' = [torn EXCEPT ![a] = @ \/ row[a] # op[c].read[a]]
    /\ transfers' = [transfers EXCEPT ![a] = IF op[c].kind = "manual" THEN @ + 1 ELSE @]
    /\ Done(c, a)
    /\ UNCHANGED <<started, credits>>

\* A write fails, or the process ends.
Abandon(c) ==
    /\ op[c].kind # "idle"
    /\ op' = [op EXCEPT ![c] = Idle]
    /\ UNCHANGED <<row, started, credits, transfers, torn>>

-----------------------------------------------------------------------------
(* Pay-outs that lock the rows *)

MarkPaid(S, amount) ==
    [a \in Apps |-> IF a \in S THEN [row[a] EXCEPT !.payout = "paid", !.amount = amount[a]] ELSE row[a]]

Counted(count, S) == [a \in Apps |-> IF a \in S THEN count[a] + 1 ELSE count[a]]

\* The first look takes no lock; the limit is checked here only.
PayInCoins(c, a) ==
    /\ Payable(row[a])
    /\ \E x \in Amounts :
          /\ ~OverLimit(c, Given(x, row[a]))
          /\ Begin(c, "coin", {a}, row, x)

\* Mutant: the transaction trusts the first look.
PayInCoinsTxUnchecked(c, a) ==
    /\ op[c].kind = "coin" /\ a \in op[c].left
    /\ ToCoins(Given(op[c].want, row[a])) > 0
    /\ row' = MarkPaid({a}, [b \in {a} |-> Given(op[c].want, row[a])])
    /\ credits' = Counted(credits, {a})
    /\ op' = [op EXCEPT ![c] = Idle]
    /\ UNCHANGED <<started, transfers, torn>>

\* The transaction looks again at the locked row.
PayInCoinsTx(c, a) ==
    /\ op[c].kind = "coin" /\ a \in op[c].left
    /\ Payable(row[a])
    /\ ToCoins(Given(op[c].want, row[a])) > 0
    /\ row' = MarkPaid({a}, [b \in {a} |-> Given(op[c].want, row[a])])
    /\ credits' = Counted(credits, {a})
    /\ op' = [op EXCEPT ![c] = Idle]
    /\ UNCHANGED <<started, transfers, torn>>

PayableOf(u) == {a \in Apps : Owner[a] = u /\ Payable(row[a])}

\* The limit is checked by a query of its own, before the transaction.
PayUser(c, u) ==
    /\ c \in Limited => \A a \in PayableOf(u) : row[a].amount <= Limit
    /\ Begin(c, "user", {a \in Apps : Owner[a] = u}, row, 0)

\* Mutant: the update does not ask whether a row is still unpaid.
PayUserTxPaidToo(c) ==
    /\ op[c].kind = "user"
    /\ LET S == {a \in op[c].left : row[a].review = "approved"} IN
          /\ S # {}
          /\ row' = MarkPaid(S, [a \in S |-> row[a].amount])
          /\ transfers' = Counted(transfers, S)
    /\ op' = [op EXCEPT ![c] = Idle]
    /\ UNCHANGED <<started, credits, torn>>

PayUserTx(c) ==
    /\ op[c].kind = "user"
    /\ LET S == {a \in op[c].left : Payable(row[a])} IN
          /\ S # {}
          /\ row' = MarkPaid(S, [a \in S |-> row[a].amount])
          /\ transfers' = Counted(transfers, S)
    /\ op' = [op EXCEPT ![c] = Idle]
    /\ UNCHANGED <<started, credits, torn>>

\* One transaction for all: an amount over the limit or of no coins stops it.
PayAllInCoins(c) ==
    LET S == {a \in Apps : Payable(row[a])} IN
    /\ op[c].kind = "idle" /\ started < MaxOps
    /\ S # {}
    /\ \A a \in S : ~OverLimit(c, row[a].amount) /\ ToCoins(row[a].amount) > 0
    /\ row' = MarkPaid(S, [a \in S |-> row[a].amount])
    /\ credits' = Counted(credits, S)
    /\ started' = started + 1
    /\ UNCHANGED <<op, transfers, torn>>

-----------------------------------------------------------------------------

Next ==
    \/ \E a \in Apps : Submit(a) \/ AutoSubmit(a)
    \/ \E c \in Callers, a \in Apps :
          \/ SubmitAgain(c, a) \/ Approve(c, a) \/ Reject(c, a) \/ PayManually(c, a)
          \/ Save(c, a) \/ PayInCoins(c, a) \/ PayInCoinsTx(c, a)
    \/ \E c \in Callers :
          \/ RunFleetAutoApproval(c) \/ RefreshRecommended(c) \/ Abandon(c)
          \/ PayUserTx(c) \/ PayAllInCoins(c)
    \/ \E c \in Callers, u \in Users : PayUser(c, u)

Spec == Init /\ [][Next]_vars

-----------------------------------------------------------------------------
(* Properties *)

TypeOK ==
    /\ row \in [Apps -> Rows]
    /\ op \in [Callers -> Ops]
    /\ started \in Nat
    /\ credits \in [Apps -> Nat] /\ transfers \in [Apps -> Nat]
    /\ torn \in [Apps -> BOOLEAN]

\* A paid application is an approved one: no review from a stale copy, and no pay-out, leaves
\* a row that is paid and submitted or rejected (ReviewApplication, Payout, UpdateApplication).
PaidIsApproved == \A a \in Apps : row[a].payout = "paid" => row[a].review = "approved"

Payments == [a \in Apps |-> credits[a] + transfers[a]]

\* Whatever pay-outs overlap, an application is paid exactly once when it is paid, and not at
\* all when it is not, as long as no stale copy was saved over its row: the transactions need
\* no more than their locks, the danger is the unlocked whole-row save alone.
PaidOnceUnlessTorn ==
    \A a \in Apps : ~torn[a] => Payments[a] = IF row[a].payout = "paid" THEN 1 ELSE 0

\* No application is paid twice ("该申请已发放，不能重复操作", srp.go:910).
PaidOnce == \A a \in Apps : Payments[a] <= 1

\* The book of the applications that the table stands for.
StateOf == [a \in Apps |-> IF row[a].payout = "paid" THEN "paid" ELSE row[a].review]

Book == INSTANCE SrpBook WITH state <- StateOf, payments <- Payments, lost <- torn

\* Review, filing, pay-out and batches move an application as the book says: judged only while
\* unpaid, paid only from approved, whole batches at once, and anything else only by a lost
\* update (service/srp.go as a whole).
ImplementsBook == Book!Spec
=============================================================================
