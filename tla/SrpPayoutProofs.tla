-------------------------- MODULE SrpPayoutProofs ---------------------------
(***************************************************************************)
(* Theorems about SrpPayout, for every set of applications, users and      *)
(* callers, every amount and every bound.  What a request may later write  *)
(* is settled when it reads: CopiesFit keeps for each copy in flight that  *)
(* it is a legal successor of the row it was made from.  A save over an    *)
(* unchanged row is then a step of the book, and any other is a lost       *)
(* update; the book's own invariant gives the single payment.              *)
(***************************************************************************)
EXTENDS SrpPayout, TLAPS

\* What a copy n may be when it was made from the row r.
Fits(kind, r, n) ==
    /\ kind = "save" => /\ r.payout = "notpaid" /\ n.payout = "notpaid"
                        /\ r.review # "none" /\ n.review # "none"
                        /\ n.review = r.review \/ <<r.review, n.review>> \in Book!Moves
    /\ kind = "manual" => Payable(r) /\ n.review = "approved" /\ n.payout = "paid"

CopiesFit ==
    \A c \in Callers : \A a \in op[c].left : Fits(op[c].kind, op[c].read[a], op[c].copy[a])

SrpInv == TypeOK /\ PaidIsApproved /\ CopiesFit

-----------------------------------------------------------------------------
(* The invariant *)

LEMMA AbsentIsRow == Absent \in Rows /\ NoCopies \in [Apps -> Rows] /\ Idle \in Ops
BY DEF Absent, Rows, NoCopies, Idle, Ops

LEMMA InitInv == Init => SrpInv
<1> SUFFICES ASSUME Init PROVE SrpInv
  OBVIOUS
<1>1. TypeOK
  BY AbsentIsRow DEF Init, TypeOK
<1>2. PaidIsApproved
  BY DEF Init, PaidIsApproved, Absent
<1>3. CopiesFit
  BY DEF Init, CopiesFit, Idle
<1> QED BY <1>1, <1>2, <1>3 DEF SrpInv

\* A request begins: its copies are legal successors of the rows it read.
LEMMA BeginInv ==
    ASSUME SrpInv, NEW c \in Callers, NEW kind \in {"save", "manual", "coin", "user"},
           NEW S \in SUBSET Apps, NEW new \in [Apps -> Rows], NEW x \in Nat,
           Begin(c, kind, S, new, x),
           \A a \in S : Fits(kind, row[a], new[a])
    PROVE  SrpInv'
<1> USE DEF SrpInv
<1> DEFINE o == [kind |-> kind, left |-> S, want |-> x,
                 read |-> [a \in Apps |-> IF a \in S THEN row[a] ELSE Absent],
                 copy |-> [a \in Apps |-> IF a \in S THEN new[a] ELSE Absent]]
<1>1. op' = [op EXCEPT ![c] = o] /\ started' = started + 1
      /\ UNCHANGED <<row, credits, transfers, torn>>
  BY DEF Begin
<1>2. o \in Ops
  <2>1. [a \in Apps |-> IF a \in S THEN row[a] ELSE Absent] \in [Apps -> Rows]
    BY AbsentIsRow DEF TypeOK
  <2>2. [a \in Apps |-> IF a \in S THEN new[a] ELSE Absent] \in [Apps -> Rows]
    BY AbsentIsRow
  <2> QED BY <2>1, <2>2 DEF Ops
<1>3. \A a \in o.left : Fits(o.kind, o.read[a], o.copy[a])
  OBVIOUS
<1> HIDE DEF o
<1>4. TypeOK'
  BY <1>1, <1>2 DEF TypeOK
<1>5. CopiesFit'
  BY <1>1, <1>3 DEF CopiesFit, TypeOK
<1>6. PaidIsApproved'
  BY <1>1 DEF PaidIsApproved
<1> QED BY <1>4, <1>5, <1>6

\* A row is written that is paid only when it is approved, and a request at most gives copies up.
LEMMA WriteInv ==
    ASSUME SrpInv, row' \in [Apps -> Rows], op' \in [Callers -> Ops],
           started' \in Nat, credits' \in [Apps -> Nat], transfers' \in [Apps -> Nat],
           torn' \in [Apps -> BOOLEAN],
           \A a \in Apps : row'[a] = row[a] \/ (row'[a].payout = "paid" => row'[a].review = "approved"),
           \A c \in Callers : \/ op'[c].left = {}
                              \/ op'[c] = op[c]
                              \/ \E a \in Apps : op'[c] = [op[c] EXCEPT !.left = @ \ {a}]
    PROVE  SrpInv'
<1> USE DEF SrpInv
<1>1. TypeOK'
  BY DEF TypeOK
<1>2. PaidIsApproved'
  BY DEF PaidIsApproved
<1>3. CopiesFit'
  <2> SUFFICES ASSUME NEW c \in Callers, NEW a \in op'[c].left
               PROVE  Fits(op'[c].kind, op'[c].read[a], op'[c].copy[a])
    BY DEF CopiesFit
  <2>1. CASE op'[c] = op[c]
    BY <2>1 DEF CopiesFit
  <2>2. ASSUME NEW b \in Apps, op'[c] = [op[c] EXCEPT !.left = @ \ {b}]
        PROVE  Fits(op'[c].kind, op'[c].read[a], op'[c].copy[a])
    <3>1. op[c] \in Ops
      BY DEF TypeOK
    <3>2. /\ op'[c].left = op[c].left \ {b} /\ op'[c].kind = op[c].kind
          /\ op'[c].read = op[c].read /\ op'[c].copy = op[c].copy
      BY <2>2, <3>1 DEF Ops
    <3> QED BY <3>2 DEF CopiesFit
  <2> QED BY <2>1, <2>2
<1> QED BY <1>1, <1>2, <1>3

\* Reading handlers.
LEMMA ReadersInv ==
    ASSUME SrpInv, NEW c \in Callers, NEW a \in Apps,
           \/ SubmitAgain(c, a) \/ Approve(c, a) \/ Reject(c, a)
           \/ PayManually(c, a) \/ PayInCoins(c, a)
    PROVE  SrpInv'
<1> USE DEF SrpInv
<1>1. row \in [Apps -> Rows] /\ row[a] \in Rows
  BY DEF TypeOK
<1>2. ASSUME NEW x \in Amounts
      PROVE  x \in Nat /\ Given(x, row[a]) \in Nat
  BY <1>1, <1>2, SrpAssumption DEF Given, Rows
<1>3. ASSUME SubmitAgain(c, a)
      PROVE  SrpInv'
  <2>1. PICK x \in Amounts : Begin(c, "save", {a}, [row EXCEPT ![a] = [@ EXCEPT !.review = "submitted", !.amount = x]], 0)
    BY <1>3 DEF SubmitAgain
  <2> DEFINE new == [row EXCEPT ![a] = [@ EXCEPT !.review = "submitted", !.amount = x]]
  <2>2. new \in [Apps -> Rows] /\ new[a].review = "submitted" /\ new[a].payout = row[a].payout
    BY <1>1, <1>2 DEF Rows
  <2>3. Fits("save", row[a], new[a])
    BY <1>3, <2>2 DEF SubmitAgain, Fits, Book!Moves
  <2>4. \A b \in {a} : Fits("save", row[b], new[b])
    BY <2>3
  <2>5. Begin(c, "save", {a}, new, 0)
    BY <2>1
  <2> HIDE DEF new
  <2> QED BY <2>2, <2>4, <2>5, BeginInv
<1>4. ASSUME Approve(c, a)
      PROVE  SrpInv'
  <2>1. PICK x \in Amounts : Begin(c, "save", {a},
            [row EXCEPT ![a] = [@ EXCEPT !.review = "approved", !.amount = Given(x, row[a])]], 0)
    BY <1>4 DEF Approve
  <2> DEFINE new == [row EXCEPT ![a] = [@ EXCEPT !.review = "approved", !.amount = Given(x, row[a])]]
  <2>2. new \in [Apps -> Rows] /\ new[a].review = "approved" /\ new[a].payout = row[a].payout
    BY <1>1, <1>2 DEF Rows
  <2>3. Fits("save", row[a], new[a])
    BY <1>1, <1>4, <2>2 DEF Approve, Fits, Book!Moves, Rows
  <2>4. \A b \in {a} : Fits("save", row[b], new[b])
    BY <2>3
  <2>5. Begin(c, "save", {a}, new, 0)
    BY <2>1
  <2> HIDE DEF new
  <2> QED BY <2>2, <2>4, <2>5, BeginInv
<1>5. ASSUME Reject(c, a)
      PROVE  SrpInv'
  <2> DEFINE new == [row EXCEPT ![a].review = "rejected"]
  <2>2. new \in [Apps -> Rows] /\ new[a].review = "rejected" /\ new[a].payout = row[a].payout
    BY <1>1 DEF Rows
  <2>3. Fits("save", row[a], new[a])
    BY <1>1, <1>5, <2>2 DEF Reject, Fits, Book!Moves, Rows
  <2>4. Begin(c, "save", {a}, new, 0)
    BY <1>5 DEF Reject
  <2>5. \A b \in {a} : Fits("save", row[b], new[b])
    BY <2>3
  <2> HIDE DEF new
  <2> QED BY <2>2, <2>4, <2>5, BeginInv
<1>6. ASSUME PayManually(c, a)
      PROVE  SrpInv'
  <2>1. PICK x \in Amounts : Begin(c, "manual", {a},
            [row EXCEPT ![a] = [@ EXCEPT !.payout = "paid", !.amount = Given(x, row[a])]], 0)
    BY <1>6 DEF PayManually
  <2> DEFINE new == [row EXCEPT ![a] = [@ EXCEPT !.payout = "paid", !.amount = Given(x, row[a])]]
  <2>2. new \in [Apps -> Rows] /\ new[a].payout = "paid" /\ new[a].review = row[a].review
    BY <1>1, <1>2 DEF Rows
  <2>3. Fits("manual", row[a], new[a])
    BY <1>6, <2>2 DEF PayManually, Fits, Payable
  <2>4. \A b \in {a} : Fits("manual", row[b], new[b])
    BY <2>3
  <2>5. Begin(c, "manual", {a}, new, 0)
    BY <2>1
  <2> HIDE DEF new
  <2> QED BY <2>2, <2>4, <2>5, BeginInv
<1>7. ASSUME PayInCoins(c, a)
      PROVE  SrpInv'
  <2>1. PICK x \in Amounts : Begin(c, "coin", {a}, row, x)
    BY <1>7 DEF PayInCoins
  <2>2. Fits("coin", row[a], row[a]) /\ x \in Nat
    BY <1>2 DEF Fits
  <2> QED BY <1>1, <2>1, <2>2, BeginInv
<1> QED BY <1>3, <1>4, <1>5, <1>6, <1>7

LEMMA BatchReadersInv ==
    ASSUME SrpInv, NEW c \in Callers,
           RunFleetAutoApproval(c) \/ RefreshRecommended(c) \/ \E u \in Users : PayUser(c, u)
    PROVE  SrpInv'
<1> USE DEF SrpInv
<1>1. row \in [Apps -> Rows]
  BY DEF TypeOK
<1>2. ASSUME RunFleetAutoApproval(c)
      PROVE  SrpInv'
  <2>1. PICK S \in SUBSET {a \in Apps : row[a].review = "submitted"} \ {{}} :
          \E x \in [S -> Amounts \ {0}] :
              Begin(c, "save", S,
                    [a \in Apps |-> IF a \in S
                                    THEN [row[a] EXCEPT !.review = "approved", !.amount = x[a]]
                                    ELSE row[a]], 0)
    BY <1>2 DEF RunFleetAutoApproval
  <2>2. PICK x \in [S -> Amounts \ {0}] :
              Begin(c, "save", S,
                    [a \in Apps |-> IF a \in S
                                    THEN [row[a] EXCEPT !.review = "approved", !.amount = x[a]]
                                    ELSE row[a]], 0)
    BY <2>1
  <2> DEFINE new == [a \in Apps |-> IF a \in S
                                    THEN [row[a] EXCEPT !.review = "approved", !.amount = x[a]]
                                    ELSE row[a]]
  <2>3. ASSUME NEW a \in S
        PROVE  /\ new[a] \in Rows /\ new[a].review = "approved" /\ new[a].payout = row[a].payout
               /\ row[a].review = "submitted" /\ row[a].payout = "notpaid"
    <3>1. a \in Apps /\ row[a].review = "submitted" /\ row[a] \in Rows /\ x[a] \in Nat
      BY <1>1, <2>1, SrpAssumption
    <3>2. row[a].payout = "notpaid"
      BY <3>1 DEF PaidIsApproved, Rows
    <3> QED BY <3>1, <3>2 DEF Rows
  <2>4. new \in [Apps -> Rows]
    BY <1>1, <2>3
  <2>5. \A a \in S : Fits("save", row[a], new[a])
    BY <2>3 DEF Fits, Book!Moves
  <2>6. S \in SUBSET Apps /\ Begin(c, "save", S, new, 0)
    BY <2>1, <2>2
  <2> HIDE DEF new
  <2> QED BY <2>4, <2>5, <2>6, BeginInv
<1>3. ASSUME RefreshRecommended(c)
      PROVE  SrpInv'
  <2>1. PICK S \in SUBSET {a \in Apps : row[a].review \in {"submitted", "approved"}
                                        /\ row[a].payout = "notpaid"} \ {{}} :
          Begin(c, "save", S, row, 0)
    BY <1>3 DEF RefreshRecommended
  <2>2. \A a \in S : Fits("save", row[a], row[a])
    BY <2>1 DEF Fits
  <2> QED BY <1>1, <2>1, <2>2, BeginInv
<1>4. ASSUME NEW u \in Users, PayUser(c, u)
      PROVE  SrpInv'
  <2>1. Begin(c, "user", {a \in Apps : Owner[a] = u}, row, 0)
    BY <1>4 DEF PayUser
  <2>2. \A a \in {a \in Apps : Owner[a] = u} : Fits("user", row[a], row[a])
    BY DEF Fits
  <2> QED BY <1>1, <2>1, <2>2, BeginInv
<1> QED BY <1>2, <1>3, <1>4

\* Writers: each leaves in the table only rows that are approved when they are paid.
LEMMA WritersInv ==
    ASSUME SrpInv, NEW c \in Callers,
           \/ \E a \in Apps : Save(c, a) \/ PayInCoinsTx(c, a)
           \/ PayUserTx(c) \/ PayAllInCoins(c) \/ Abandon(c)
    PROVE  SrpInv'
<1> USE DEF SrpInv
<1>1. row \in [Apps -> Rows] /\ op \in [Callers -> Ops] /\ Idle \in Ops /\ Idle.left = {}
  BY AbsentIsRow DEF TypeOK, Idle
<1>2. ASSUME NEW a \in Apps, Save(c, a)
      PROVE  SrpInv'
  <2> DEFINE next == IF op[c].left = {a} THEN Idle ELSE [op[c] EXCEPT !.left = @ \ {a}]
  <2>1. /\ row' = [row EXCEPT ![a] = op[c].copy[a]]
        /\ torn' = [torn EXCEPT ![a] = @ \/ row[a] # op[c].read[a]]
        /\ transfers' = [transfers EXCEPT ![a] = IF op[c].kind = "manual" THEN @ + 1 ELSE @]
        /\ UNCHANGED <<started, credits>>
    BY <1>2 DEF Save
  <2>11. op' = [op EXCEPT ![c] = next]
    BY <1>2 DEF Save, Done
  <2>2. op[c].copy \in [Apps -> Rows] /\ [op[c] EXCEPT !.left = @ \ {a}] \in Ops
    BY <1>1 DEF Ops
  <2>10. /\ next \in Ops
         /\ next.left = {} \/ next = [op[c] EXCEPT !.left = @ \ {a}]
    BY <1>1, <2>2
  <2> HIDE DEF next
  <2>3. Fits(op[c].kind, op[c].read[a], op[c].copy[a]) /\ op[c].kind \in {"save", "manual"}
    BY <1>2 DEF Save, CopiesFit
  <2>4. op[c].copy[a].payout = "paid" => op[c].copy[a].review = "approved"
    BY <2>3 DEF Fits
  <2>5. row' \in [Apps -> Rows] /\ op' \in [Callers -> Ops]
    BY <1>1, <2>1, <2>2, <2>10, <2>11
  <2>6. torn' \in [Apps -> BOOLEAN]
    BY <2>1, Zenon DEF TypeOK
  <2>7. transfers' \in [Apps -> Nat] /\ credits' \in [Apps -> Nat] /\ started' \in Nat
    BY <2>1 DEF TypeOK
  <2>8. \A b \in Apps : row'[b] = row[b] \/ (row'[b].payout = "paid" => row'[b].review = "approved")
    BY <1>1, <2>1, <2>4
  <2>9. \A d \in Callers : \/ op'[d].left = {}
                            \/ op'[d] = op[d]
                            \/ \E b \in Apps : op'[d] = [op[d] EXCEPT !.left = @ \ {b}]
    BY <1>1, <2>10, <2>11
  <2> QED BY <2>5, <2>6, <2>7, <2>8, <2>9, WriteInv
<1>3. ASSUME NEW S \in SUBSET Apps, NEW amount \in [S -> Nat], row' = MarkPaid(S, amount),
             \A a \in S : Payable(row[a]),
             op' = op \/ op' = [op EXCEPT ![c] = Idle],
             credits' = credits \/ credits' = Counted(credits, S),
             transfers' = transfers \/ transfers' = Counted(transfers, S),
             started' \in Nat, torn' = torn
      PROVE  SrpInv'
  <2>1. \A a \in S : [row[a] EXCEPT !.payout = "paid", !.amount = amount[a]] \in Rows
                     /\ [row[a] EXCEPT !.payout = "paid", !.amount = amount[a]].review = "approved"
    BY <1>1, <1>3 DEF Rows, Payable
  <2>2. row' \in [Apps -> Rows]
    BY <1>1, <1>3, <2>1 DEF MarkPaid
  <2>3. \A a \in Apps : row'[a] = row[a] \/ (row'[a].payout = "paid" => row'[a].review = "approved")
    BY <1>3, <2>1 DEF MarkPaid
  <2>4. credits' \in [Apps -> Nat] /\ transfers' \in [Apps -> Nat] /\ torn' \in [Apps -> BOOLEAN]
    BY <1>3 DEF Counted, TypeOK
  <2>5. op' \in [Callers -> Ops] /\ \A d \in Callers : op'[d].left = {} \/ op'[d] = op[d]
    BY <1>1, <1>3
  <2> QED BY <1>3, <2>2, <2>3, <2>4, <2>5, WriteInv
<1>4. ASSUME NEW a \in Apps, PayInCoinsTx(c, a)
      PROVE  SrpInv'
  <2>1. Given(op[c].want, row[a]) \in Nat
    BY <1>1 DEF Given, Ops, Rows
  <2>2. [b \in {a} |-> Given(op[c].want, row[a])] \in [{a} -> Nat]
    BY <2>1
  <2> QED BY <1>3, <1>4, <2>2 DEF PayInCoinsTx, TypeOK
<1>5. ASSUME PayUserTx(c)
      PROVE  SrpInv'
  <2> DEFINE S == {a \in op[c].left : Payable(row[a])}
  <2>1. S \in SUBSET Apps
    BY <1>1 DEF Ops
  <2>2. [a \in S |-> row[a].amount] \in [S -> Nat]
    BY <1>1, <2>1 DEF Rows
  <2> QED BY <1>3, <1>5, <2>1, <2>2 DEF PayUserTx, TypeOK
<1>6. ASSUME PayAllInCoins(c)
      PROVE  SrpInv'
  <2> DEFINE S == {a \in Apps : Payable(row[a])}
  <2>1. [a \in S |-> row[a].amount] \in [S -> Nat]
    BY <1>1 DEF Rows
  <2>2. started' \in Nat
    BY <1>6 DEF PayAllInCoins, TypeOK
  <2> QED BY <1>3, <1>6, <2>1, <2>2 DEF PayAllInCoins
<1>7. ASSUME Abandon(c)
      PROVE  SrpInv'
  <2>1. op' = [op EXCEPT ![c] = Idle] /\ UNCHANGED <<row, started, credits, transfers, torn>>
    BY <1>7 DEF Abandon
  <2>2. op' \in [Callers -> Ops] /\ \A d \in Callers : op'[d].left = {} \/ op'[d] = op[d]
    BY <1>1, <2>1
  <2> QED BY <2>1, <2>2, WriteInv DEF TypeOK
<1> QED BY <1>2, <1>4, <1>5, <1>6, <1>7

LEMMA FileInv ==
    ASSUME SrpInv, NEW a \in Apps, Submit(a) \/ AutoSubmit(a)
    PROVE  SrpInv'
<1> USE DEF SrpInv
<1>1. PICK status \in {"submitted", "approved"}, x \in Amounts : File(a, status, x)
  BY DEF Submit, AutoSubmit
<1>2. x \in Nat
  BY SrpAssumption
<1>3. row' = [row EXCEPT ![a] = [review |-> status, payout |-> "notpaid", amount |-> x]]
      /\ started' = started + 1 /\ UNCHANGED <<op, credits, transfers, torn>>
  BY <1>1 DEF File
<1>4. [review |-> status, payout |-> "notpaid", amount |-> x] \in Rows
  BY <1>1, <1>2 DEF Rows
<1>5. row' \in [Apps -> Rows]
  BY <1>3, <1>4 DEF TypeOK
<1>6. \A b \in Apps : row'[b] = row[b] \/ (row'[b].payout = "paid" => row'[b].review = "approved")
  BY <1>3 DEF TypeOK
<1> QED BY <1>3, <1>5, <1>6, WriteInv DEF TypeOK

LEMMA StepInv == SrpInv /\ [Next]_vars => SrpInv'
<1> SUFFICES ASSUME SrpInv, [Next]_vars PROVE SrpInv'
  OBVIOUS
<1>1. CASE UNCHANGED vars
  BY <1>1 DEF vars, SrpInv, TypeOK, PaidIsApproved, CopiesFit
<1>2. CASE Next
  BY <1>2, ReadersInv, BatchReadersInv, WritersInv, FileInv DEF Next
<1> QED BY <1>1, <1>2

\* Every reachable state has well-formed rows, paid rows that are approved, and copies in
\* flight that are legal successors of what was read.
THEOREM SrpInvariant == Spec => []SrpInv
BY InitInv, StepInv, PTL DEF Spec

THEOREM SrpTypes == Spec => []TypeOK
BY SrpInvariant, PTL DEF SrpInv

\* A paid application is an approved one.
THEOREM PaidApproved == Spec => []PaidIsApproved
BY SrpInvariant, PTL DEF SrpInv

-----------------------------------------------------------------------------
(* The book *)

LEMMA InitBook == Init => Book!Init
BY DEF Init, Book!Init, StateOf, Payments, Absent

\* A save over the row it was made from judges or pays; any other save is a lost update.
LEMMA SaveRefines ==
    ASSUME SrpInv, NEW c \in Callers, NEW a \in Apps, Save(c, a)
    PROVE  [Book!Next]_Book!vars
<1> USE DEF SrpInv
<1> DEFINE r == op[c].read[a]
           n == op[c].copy[a]
           s == IF n.payout = "paid" THEN "paid" ELSE n.review
           k == IF op[c].kind = "manual" THEN 1 ELSE 0
<1>1. /\ row' = [row EXCEPT ![a] = n]
      /\ torn' = [torn EXCEPT ![a] = @ \/ row[a] # r]
      /\ transfers' = [transfers EXCEPT ![a] = IF op[c].kind = "manual" THEN @ + 1 ELSE @]
      /\ credits' = credits
  BY DEF Save
<1>2. Fits(op[c].kind, r, n) /\ op[c].kind \in {"save", "manual"} /\ r \in Rows /\ n \in Rows
  BY DEF Save, CopiesFit, TypeOK, Ops
<1>3. StateOf' = [StateOf EXCEPT ![a] = s]
  BY <1>1 DEF StateOf, TypeOK
<1>4. Payments' = [Payments EXCEPT ![a] = @ + k]
  <2>1. credits \in [Apps -> Nat] /\ transfers \in [Apps -> Nat]
    BY DEF TypeOK
  <2>2. CASE op[c].kind = "manual"
    <3>1. k = 1 /\ transfers' = [transfers EXCEPT ![a] = @ + 1]
      BY <1>1, <2>2
    <3>2. transfers'[a] = transfers[a] + 1 /\ \A b \in Apps \ {a} : transfers'[b] = transfers[b]
      BY <2>1, <3>1
    <3>3. credits[a] + (transfers[a] + 1) = (credits[a] + transfers[a]) + 1
      BY <2>1
    <3> QED BY <1>1, <3>1, <3>2, <3>3 DEF Payments
  <2>3. CASE op[c].kind # "manual"
    <3>1. transfers' = transfers
      BY <1>1, <2>1, <2>3
    <3> QED BY <1>1, <2>1, <2>3, <3>1 DEF Payments
  <2> QED BY <2>2, <2>3
<1>5. s \in Book!States \ {"none"} /\ k \in {0, 1}
  BY <1>2 DEF Fits, Book!States, Rows
<1>6. CASE row[a] # r
  <2>1. torn' = [torn EXCEPT ![a] = TRUE]
    BY <1>1, <1>6, Zenon DEF TypeOK
  <2>2. Book!Lose(a)
    BY <1>3, <1>4, <1>5, <2>1 DEF Book!Lose
  <2> QED BY <2>2 DEF Book!Next
<1>7. CASE row[a] = r
  <2>1. torn' = torn
    BY <1>1, <1>7, Zenon DEF TypeOK
  <2>2. CASE op[c].kind = "manual"
    <3>1. StateOf[a] = "approved" /\ s = "paid" /\ k = 1
      BY <1>2, <1>7, <2>2 DEF Fits, Payable, StateOf
    <3>2. Book!Pay({a})
      BY <1>3, <1>4, <2>1, <3>1 DEF Book!Pay, StateOf, Payments
    <3> QED BY <3>2 DEF Book!Next
  <2>3. CASE op[c].kind = "save"
    <3>1. /\ StateOf[a] = r.review /\ s = n.review /\ k = 0
          /\ n.review = r.review \/ <<r.review, n.review>> \in Book!Moves
      BY <1>2, <1>7, <2>3 DEF Fits, StateOf
    <3>2. Payments' = Payments
      <4>1. Payments[a] \in Nat
        BY DEF Payments, TypeOK
      <4>2. Payments = [b \in Apps |-> Payments[b]]
        BY DEF Payments
      <4> QED BY <1>4, <3>1, <4>1, <4>2
    <3>3. CASE n.review = r.review
      <4>1. StateOf' = StateOf
        BY <1>3, <3>1, <3>3 DEF StateOf
      <4> QED BY <2>1, <3>2, <4>1 DEF Book!vars
    <3>4. CASE <<r.review, n.review>> \in Book!Moves
      <4>1. Book!Judge(a)
        BY <1>3, <1>5, <2>1, <3>1, <3>2, <3>4 DEF Book!Judge
      <4> QED BY <4>1 DEF Book!Next
    <3> QED BY <3>1, <3>3, <3>4
  <2> QED BY <1>2, <2>2, <2>3
<1> QED BY <1>6, <1>7

\* A locking transaction pays approved rows, all in one step.
LEMMA TxRefines ==
    ASSUME SrpInv, NEW S \in SUBSET Apps, NEW amount, row' = MarkPaid(S, amount),
           \A a \in S : Payable(row[a]), torn' = torn,
           \/ credits' = Counted(credits, S) /\ transfers' = transfers
           \/ transfers' = Counted(transfers, S) /\ credits' = credits
    PROVE  [Book!Next]_Book!vars
<1> USE DEF SrpInv
<1>1. \A a \in S : StateOf[a] = "approved"
  BY DEF StateOf, Payable
<1>2. \A a \in S : [row[a] EXCEPT !.payout = "paid", !.amount = amount[a]].payout = "paid"
  BY DEF TypeOK, Rows
<1>3. StateOf' = [a \in Apps |-> IF a \in S THEN "paid" ELSE StateOf[a]]
  BY <1>2 DEF StateOf, MarkPaid
<1>4. Payments' = [a \in Apps |-> IF a \in S THEN Payments[a] + 1 ELSE Payments[a]]
  BY DEF Payments, Counted, TypeOK
<1>5. Book!Pay(S)
  BY <1>1, <1>3, <1>4 DEF Book!Pay
<1> QED BY <1>5 DEF Book!Next

LEMMA StepRefines == SrpInv /\ [Next]_vars => [Book!Next]_Book!vars
<1> SUFFICES ASSUME SrpInv, [Next]_vars PROVE [Book!Next]_Book!vars
  OBVIOUS
<1> USE DEF SrpInv
<1>1. ASSUME UNCHANGED <<row, credits, transfers, torn>>
      PROVE  [Book!Next]_Book!vars
  BY <1>1 DEF Book!vars, StateOf, Payments
<1>2. ASSUME NEW a \in Apps, Submit(a) \/ AutoSubmit(a)
      PROVE  [Book!Next]_Book!vars
  <2>1. PICK status \in {"submitted", "approved"}, x \in Amounts : File(a, status, x)
    BY <1>2 DEF Submit, AutoSubmit
  <2>2. StateOf[a] = "none"
    BY <2>1 DEF File, StateOf, PaidIsApproved
  <2>3. StateOf' = [StateOf EXCEPT ![a] = status]
    BY <2>1 DEF File, StateOf, TypeOK
  <2>4. Payments' = Payments /\ torn' = torn
    BY <2>1 DEF File, Payments
  <2>5. Book!Judge(a)
    BY <2>1, <2>2, <2>3, <2>4 DEF Book!Judge, Book!Moves, Book!States
  <2> QED BY <2>5 DEF Book!Next
<1>3. ASSUME NEW c \in Callers, NEW a \in Apps, PayInCoinsTx(c, a)
      PROVE  [Book!Next]_Book!vars
  BY <1>3, TxRefines DEF PayInCoinsTx
<1>4. ASSUME NEW c \in Callers, PayUserTx(c)
      PROVE  [Book!Next]_Book!vars
  <2> DEFINE S == {a \in op[c].left : Payable(row[a])}
  <2>1. S \in SUBSET Apps
    BY DEF TypeOK, Ops
  <2> QED BY <1>4, <2>1, TxRefines DEF PayUserTx
<1>5. ASSUME NEW c \in Callers, PayAllInCoins(c)
      PROVE  [Book!Next]_Book!vars
  BY <1>5, TxRefines DEF PayAllInCoins
<1>6. ASSUME NEW c \in Callers, NEW a \in Apps, 
             SubmitAgain(c, a) \/ Approve(c, a) \/ Reject(c, a) \/ PayManually(c, a) \/ PayInCoins(c, a)
      PROVE  [Book!Next]_Book!vars
  BY <1>1, <1>6 DEF SubmitAgain, Approve, Reject, PayManually, PayInCoins, Begin
<1>7. ASSUME NEW c \in Callers,
             RunFleetAutoApproval(c) \/ RefreshRecommended(c) \/ Abandon(c) \/ \E u \in Users : PayUser(c, u)
      PROVE  [Book!Next]_Book!vars
  BY <1>1, <1>7 DEF RunFleetAutoApproval, RefreshRecommended, Abandon, PayUser, Begin
<1>8. CASE UNCHANGED vars
  BY <1>1, <1>8 DEF vars
<1> QED BY <1>2, <1>3, <1>4, <1>5, <1>6, <1>7, <1>8, SaveRefines DEF Next

\* Reviews, filings, pay-outs and batches implement the book: every step judges an unpaid
\* application, pays approved ones, or is a lost update of one.
THEOREM Refinement == Spec => ImplementsBook
BY InitBook, StepRefines, SrpInvariant, PTL DEF Spec, Book!Spec, ImplementsBook

LEMMA OnceInTheBook ==
    ASSUME TypeOK
    PROVE  /\ PaidOnceUnlessTorn <=> Book!PaidOnceUnlessLost
           /\ StateOf \in [Apps -> Book!States] /\ Payments \in [Apps -> Nat]
<1>1. \A a \in Apps : StateOf[a] = "paid" <=> row[a].payout = "paid"
  BY DEF StateOf, TypeOK, Rows
<1>2. PaidOnceUnlessTorn <=> Book!PaidOnceUnlessLost
  BY <1>1 DEF PaidOnceUnlessTorn, Book!PaidOnceUnlessLost
<1>3. StateOf \in [Apps -> Book!States]
  BY DEF StateOf, TypeOK, Rows, Book!States
<1>4. Payments \in [Apps -> Nat]
  BY DEF Payments, TypeOK
<1> QED BY <1>2, <1>3, <1>4

\* The book pays an application once unless an update of it is lost.
LEMMA BookPaysOnce ==
    ASSUME TypeOK, Book!PaidOnceUnlessLost, [Book!Next]_Book!vars
    PROVE  Book!PaidOnceUnlessLost'
<1>1. StateOf \in [Apps -> Book!States] /\ Payments \in [Apps -> Nat]
  BY OnceInTheBook
<1>2. torn \in [Apps -> BOOLEAN]
  BY DEF TypeOK
<1>3. ASSUME NEW a \in Apps, Book!Judge(a)
      PROVE  Book!PaidOnceUnlessLost'
  <2>1. PICK s \in Book!States : <<StateOf[a], s>> \in Book!Moves /\ StateOf' = [StateOf EXCEPT ![a] = s]
    BY <1>3 DEF Book!Judge
  <2>2. Payments' = Payments /\ torn' = torn
    BY <1>3 DEF Book!Judge
  <2>3. StateOf[a] # "paid" /\ s # "paid"
    BY <2>1 DEF Book!Moves
  <2> QED BY <1>1, <2>1, <2>2, <2>3 DEF Book!PaidOnceUnlessLost
<1>4. ASSUME NEW S \in SUBSET Apps, Book!Pay(S)
      PROVE  Book!PaidOnceUnlessLost'
  BY <1>1, <1>4 DEF Book!Pay, Book!PaidOnceUnlessLost
<1>5. ASSUME NEW a \in Apps, Book!Lose(a)
      PROVE  Book!PaidOnceUnlessLost'
  <2>1. PICK s \in Book!States : StateOf' = [StateOf EXCEPT ![a] = s]
    BY <1>5 DEF Book!Lose
  <2>2. PICK n \in {0, 1} : Payments' = [Payments EXCEPT ![a] = @ + n]
    BY <1>5 DEF Book!Lose
  <2>3. torn' = [torn EXCEPT ![a] = TRUE]
    BY <1>5 DEF Book!Lose
  <2>4. torn'[a] /\ \A b \in Apps \ {a} : torn'[b] = torn[b]
    BY <1>2, <2>3
  <2>5. \A b \in Apps \ {a} : StateOf'[b] = StateOf[b] /\ Payments'[b] = Payments[b]
    BY <1>1, <2>1, <2>2
  <2> QED BY <2>4, <2>5 DEF Book!PaidOnceUnlessLost
<1>6. CASE UNCHANGED Book!vars
  BY <1>6 DEF Book!vars, Book!PaidOnceUnlessLost
<1> QED BY <1>3, <1>4, <1>5, <1>6 DEF Book!Next

\* An application whose updates were not lost is paid once when it is paid and never
\* otherwise, whatever pay-outs overlap: inherited from the book.
THEOREM PaidOnceInv == Spec => []PaidOnceUnlessTorn
<1>1. Init => PaidOnceUnlessTorn
  BY DEF Init, PaidOnceUnlessTorn, Payments, Absent
<1>2. SrpInv /\ SrpInv' /\ PaidOnceUnlessTorn /\ [Next]_vars => PaidOnceUnlessTorn'
  <2> SUFFICES ASSUME SrpInv, SrpInv', PaidOnceUnlessTorn, [Next]_vars PROVE PaidOnceUnlessTorn'
    OBVIOUS
  <2>1. TypeOK /\ TypeOK'
    BY DEF SrpInv
  <2>2. Book!PaidOnceUnlessLost
    BY <2>1, OnceInTheBook
  <2>3. Book!PaidOnceUnlessLost'
    BY <2>1, <2>2, StepRefines, BookPaysOnce
  <2>4. TypeOK' => (PaidOnceUnlessTorn' <=> Book!PaidOnceUnlessLost')
    <3>1. TypeOK' => \A a \in Apps : StateOf'[a] = "paid" <=> row'[a].payout = "paid"
      BY DEF StateOf, TypeOK, Rows
    <3> QED BY <3>1 DEF PaidOnceUnlessTorn, Book!PaidOnceUnlessLost
  <2> QED BY <2>1, <2>3, <2>4
<1> QED BY <1>1, <1>2, SrpInvariant, PTL DEF Spec
=============================================================================
