-------------------------- MODULE ShopOrdersProofs --------------------------
(***************************************************************************)
(* Theorems about ShopOrders, for every set of users and orders, every     *)
(* quantity, price, stock and bound. An order has two writers that never   *)
(* see each other: the call that placed it, which debits the buyer or      *)
(* saves the order back as rejected, and the reviewers. The invariant says *)
(* what the call's step tells about the money that moved, and what the     *)
(* status of the order tells about the reviewers' part.                    *)
(***************************************************************************)
EXTENDS ShopOrders, FiniteSetTheorems, WellFoundedInduction, TLAPS

Placed == {"debit", "restock", "reject", "bought", "failed", "crashed"}

\* Status and total are those the call wrote; a debit is the call's last step.
CallTells ==
    \A o \in Orders :
        /\ order[o].status # "none" => pc[o] \in Placed /\ order[o].total = Total(o)
        /\ pc[o] # "bought" => tally[o].buy = 0
        /\ pc[o] = "bought" => tally[o].buy = 1

\* What the reviewers did to an order of this status.
StatusTells ==
    \A o \in Orders :
        /\ order[o].status \in {"none", "requested"} => tally[o].delivery = 0 /\ tally[o].refund = 0
        /\ order[o].status = "delivered" => tally[o].delivery = 1 /\ tally[o].refund = 0
        /\ order[o].status = "rejected" => tally[o].delivery + tally[o].refund <= 1
        /\ order[o].status = "rejected" /\ pc[o] \in {"debit", "bought"} =>
              tally[o].refund = 1 \/ Total(o) = 0
        /\ pc[o] = "bought" => Total(o) > 0

OrderInv == TypeOK /\ CallTells /\ StatusTells

-----------------------------------------------------------------------------
(* Types *)

LEMMA ProductTypes ==
    ASSUME NEW p \in Product, NEW n \in Nat
    PROVE  /\ Limited(p) => [p EXCEPT !.stock = @ + n] \in Product
           /\ p.stock >= n => [p EXCEPT !.stock = @ - n] \in Product
BY DEF Product, Limited, Unlimited

LEMMA MoreTally ==
    ASSUME NEW t \in Tally
    PROVE  /\ [t EXCEPT !.buy = @ + 1] \in Tally
           /\ [t EXCEPT !.delivery = @ + 1] \in Tally
           /\ \A more \in BOOLEAN : [t EXCEPT !.refund = IF more THEN @ + 1 ELSE @] \in Tally
BY DEF Tally

LEMMA TypeInit == Init => TypeOK
<1> SUFFICES ASSUME Init PROVE TypeOK
  OBVIOUS
<1>1. order \in [Orders -> OrderRecord] /\ tally \in [Orders -> Tally]
  BY DEF Init, OrderRecord, OrderStatus, Tally
<1>2. editor \in [open : BOOLEAN, form : Product]
  BY ShopAssumption DEF Init
<1> QED BY <1>1, <1>2, ShopAssumption DEF Init, TypeOK, Steps, Running, Ended

LEMMA TotalType ==
    ASSUME TypeOK, NEW o \in Orders
    PROVE  Total(o) \in Nat
<1>1. copy[o].price \in Nat /\ Quantity[o] \in Nat
  BY ShopAssumption DEF TypeOK, Product
<1> QED BY <1>1 DEF Total

LEMMA TypeContinue ==
    ASSUME TypeOK, NEW o \in Orders, ReadProduct(o) \/ Continue(o)
    PROVE  TypeOK'
<1> USE ShopAssumption DEF TypeOK, Goto, Steps, Running, Ended
<1>1. CASE ReadProduct(o)
  <2>1. earlier' \in [Orders -> SUBSET Orders]
    BY <1>1 DEF ReadProduct, Purchases
  <2>2. pc' \in [Orders -> Steps] /\ copy' \in [Orders -> Product]
    BY <1>1 DEF ReadProduct
  <2> QED BY <1>1, <2>1, <2>2 DEF ReadProduct, boundVars
<1>2. CASE CheckLimit(o)
  BY <1>2 DEF CheckLimit, historyVars, boundVars
<1>3. CASE CheckBalance(o)
  <2>1. VisibleBalance(Buyer[o]) \in Nat /\ Buyer[o] \in Users
    BY DEF VisibleBalance
  <2>2. balance' \in [Users -> Nat] /\ pc' \in [Orders -> Steps]
    BY <1>3, <2>1 DEF CheckBalance
  <2> QED BY <1>3, <2>2 DEF CheckBalance, historyVars, boundVars
<1>4. CASE PlaceOrder(o)
  <2>1. product' \in Product
    <3>1. CASE Limited(copy[o])
      <4>1. product.stock >= Quantity[o] /\ product' = [product EXCEPT !.stock = @ - Quantity[o]]
        BY <1>4, <3>1 DEF PlaceOrder
      <4> QED BY <4>1, ProductTypes
    <3>2. CASE ~Limited(copy[o])
      BY <1>4, <3>2 DEF PlaceOrder
    <3> QED BY <3>1, <3>2
  <2>2. [status |-> "requested", total |-> Total(o)] \in OrderRecord
    BY TotalType DEF OrderRecord, OrderStatus
  <2> QED BY <1>4, <2>1, <2>2 DEF PlaceOrder, historyVars, boundVars
<1>5. CASE SoldOut(o)
  BY <1>5 DEF SoldOut, historyVars, boundVars
<1>6. CASE Debit(o)
  <2>1. balance' \in [Users -> Nat]
    <3>1. Buyer[o] \in Users /\ balance[Buyer[o]] - Total(o) \in Nat
      BY <1>6, TotalType DEF Debit, CanDebit
    <3> QED BY <1>6, <3>1 DEF Debit
  <2>2. tally' \in [Orders -> Tally]
    <3>1. [tally[o] EXCEPT !.buy = @ + 1] \in Tally
      BY MoreTally
    <3> QED BY <1>6, <3>1 DEF Debit
  <2> QED BY <1>6, <2>1, <2>2 DEF Debit, historyVars, boundVars
<1>7. CASE DebitFails(o) \/ CallFails(o)
  BY <1>7 DEF DebitFails, CallFails, Fault, historyVars
<1>8. CASE RollbackStock(o)
  <2>1. product' \in Product
    <3>1. Limited(copy[o]) => [copy[o] EXCEPT !.stock = @ + Quantity[o]] \in Product
      BY ProductTypes
    <3> QED BY <1>8, <3>1 DEF RollbackStock
  <2> QED BY <1>8, <2>1 DEF RollbackStock, Fault
<1>9. CASE RollbackStatus(o)
  <2>1. [status |-> "rejected", total |-> Total(o)] \in OrderRecord
    BY TotalType DEF OrderRecord, OrderStatus
  <2> QED BY <1>9, <2>1 DEF RollbackStatus, Fault
<1> QED BY <1>1, <1>2, <1>3, <1>4, <1>5, <1>6, <1>7, <1>8, <1>9 DEF Continue

LEMMA TypeReview ==
    ASSUME TypeOK, NEW o \in Orders, Review(o)
    PROVE  TypeOK'
<1> USE ShopAssumption DEF TypeOK
<1>1. ASSUME NEW reviewer \in Reviewers, AdminDeliverOrder(o, reviewer)
      PROVE  TypeOK'
  <2>1. order' \in [Orders -> OrderRecord]
    BY <1>1 DEF AdminDeliverOrder, OrderRecord, OrderStatus
  <2>2. balance' \in [Users -> Nat]
    BY <1>1 DEF AdminDeliverOrder, AwardTo
  <2>3. tally' \in [Orders -> Tally]
    <3>1. [tally[o] EXCEPT !.delivery = @ + 1] \in Tally
      BY MoreTally
    <3> QED BY <1>1, <3>1 DEF AdminDeliverOrder
  <2> QED BY <1>1, <2>1, <2>2, <2>3 DEF AdminDeliverOrder, requestVars, historyVars, boundVars
<1>2. CASE AdminRejectOrder(o)
  <2>1. order[o].total \in Nat /\ Buyer[o] \in Users
    BY DEF OrderRecord
  <2>2. order' \in [Orders -> OrderRecord]
    BY <1>2 DEF AdminRejectOrder, OrderRecord, OrderStatus
  <2>3. balance' \in [Users -> Nat]
    BY <1>2, <2>1 DEF AdminRejectOrder
  <2>4. tally' \in [Orders -> Tally]
    <3>1. [tally[o] EXCEPT !.refund = IF order[o].total > 0 THEN @ + 1 ELSE @] \in Tally
      BY MoreTally
    <3> QED BY <1>2, <3>1 DEF AdminRejectOrder
  <2>5. product' \in Product
    <3>1. Limited(product) => [product EXCEPT !.stock = @ + Quantity[o]] \in Product
      BY ProductTypes
    <3> QED BY <1>2, <3>1 DEF AdminRejectOrder
  <2> QED BY <1>2, <2>2, <2>3, <2>4, <2>5 DEF AdminRejectOrder, requestVars, historyVars, boundVars
<1> QED BY <1>1, <1>2 DEF Review

LEMMA TypeOthers ==
    ASSUME TypeOK, LoadForm \/ SaveForm \/ (\E u \in Users : PolicyChange(u)) \/ Crash \/ UNCHANGED vars
    PROVE  TypeOK'
<1> USE ShopAssumption DEF TypeOK
<1>1. CASE LoadForm
  BY <1>1 DEF LoadForm, requestVars, historyVars
<1>2. CASE SaveForm
  <2>1. product' \in Product
    BY <1>2 DEF SaveForm, Product
  <2> QED BY <1>2, <2>1 DEF SaveForm, requestVars, historyVars, boundVars
<1>3. ASSUME NEW u \in Users, PolicyChange(u)
      PROVE  TypeOK'
  <2>1. balance' \in [Users -> Nat] /\ enabled' \subseteq Users
    BY <1>3 DEF PolicyChange
  <2> QED BY <1>3, <2>1 DEF PolicyChange, requestVars, historyVars
<1>4. CASE Crash
  <2>1. pc' \in [Orders -> Steps]
    BY <1>4 DEF Crash, Steps, Ended
  <2>2. editor' \in [open : BOOLEAN, form : Product]
    BY <1>4 DEF Crash
  <2>3. crashes' \in Nat
    BY <1>4 DEF Crash
  <2> QED BY <1>4, <2>1, <2>2, <2>3 DEF Crash, historyVars
<1>5. CASE UNCHANGED vars
  BY <1>5 DEF vars, requestVars, historyVars, boundVars
<1> QED BY <1>1, <1>2, <1>3, <1>4, <1>5

LEMMA TypeStep == TypeOK /\ [Next]_vars => TypeOK'
BY TypeContinue, TypeReview, TypeOthers DEF Next

\* Stock and balances never become negative, whatever roll-backs, reviews and edits write.
THEOREM TypeCorrect == Spec => []TypeOK
BY TypeInit, TypeStep, PTL DEF Spec

-----------------------------------------------------------------------------
(* The two writers of an order *)

LEMMA OrderContinue ==
    ASSUME OrderInv, NEW o \in Orders, ReadProduct(o) \/ Continue(o)
    PROVE  CallTells' /\ StatusTells'
<1> USE DEF OrderInv, CallTells, StatusTells, Placed, Goto, TypeOK
<1>1. CASE ReadProduct(o)
  <2>1. order[o].status = "none" /\ tally[o].buy = 0
    BY <1>1 DEF ReadProduct, OrderRecord
  <2>2. /\ pc'[o] \in {"limit", "failed"}
        /\ \A q \in Orders \ {o} : pc'[q] = pc[q] /\ Total(q)' = Total(q)
        /\ order' = order /\ tally' = tally
    BY <1>1 DEF ReadProduct, Total
  <2> QED BY <2>1, <2>2
<1>2. CASE CheckLimit(o) \/ CheckBalance(o) \/ SoldOut(o) \/ CallFails(o) \/ DebitFails(o) \/ RollbackStock(o)
           \/ (RollbackStatus(o) /\ order' = order)
  <2>1. /\ order' = order /\ tally' = tally /\ copy' = copy
        /\ \A q \in Orders \ {o} : pc'[q] = pc[q]
        /\ pc[o] # "bought" /\ pc'[o] # "bought"
        /\ pc'[o] \in Placed \/ (pc[o] \notin Placed /\ pc'[o] \notin Placed)
        /\ pc'[o] # "debit"
    BY <1>2 DEF CheckLimit, CheckBalance, SoldOut, CallFails, DebitFails, RollbackStock, RollbackStatus
  <2>2. \A q \in Orders : Total(q)' = Total(q)
    BY <2>1 DEF Total
  <2> QED BY <2>1, <2>2
<1>3. CASE PlaceOrder(o)
  <2>1. order[o].status = "none" /\ tally' = tally /\ copy' = copy
    BY <1>3 DEF PlaceOrder, OrderRecord
  <2>2. /\ order'[o].status = "requested" /\ order'[o].total = Total(o) /\ pc'[o] = "debit"
        /\ \A q \in Orders \ {o} : order'[q] = order[q] /\ pc'[q] = pc[q]
        /\ pc[o] # "bought"
    BY <1>3 DEF PlaceOrder
  <2>3. \A q \in Orders : Total(q)' = Total(q)
    BY <2>1 DEF Total
  <2> QED BY <2>1, <2>2, <2>3
<1>4. CASE Debit(o)
  <2>1. /\ order' = order /\ copy' = copy /\ Total(o) > 0
        /\ pc[o] = "debit" /\ pc'[o] = "bought"
        /\ \A q \in Orders \ {o} : tally'[q] = tally[q] /\ pc'[q] = pc[q]
    BY <1>4 DEF Debit, CanDebit
  <2>2. /\ tally'[o].buy = tally[o].buy + 1
        /\ tally'[o].refund = tally[o].refund /\ tally'[o].delivery = tally[o].delivery
    BY <1>4 DEF Debit, Tally
  <2>3. \A q \in Orders : Total(q)' = Total(q)
    BY <2>1 DEF Total
  <2> QED BY <2>1, <2>2, <2>3
<1>5. CASE RollbackStatus(o) /\ order' # order
  <2>1. /\ tally' = tally /\ copy' = copy /\ pc[o] = "reject" /\ pc'[o] = "failed"
        /\ order'[o].status = "rejected" /\ order'[o].total = Total(o)
        /\ \A q \in Orders \ {o} : order'[q] = order[q] /\ pc'[q] = pc[q]
    BY <1>5 DEF RollbackStatus
  <2>2. \A q \in Orders : Total(q)' = Total(q)
    BY <2>1 DEF Total
  <2>3. tally[o].delivery + tally[o].refund <= 1
    BY DEF OrderRecord, OrderStatus, Tally
  <2> QED BY <2>1, <2>2, <2>3
<1> QED BY <1>1, <1>2, <1>3, <1>4, <1>5 DEF Continue

LEMMA OrderReview ==
    ASSUME OrderInv, NEW o \in Orders, Review(o)
    PROVE  CallTells' /\ StatusTells'
<1> USE DEF OrderInv, CallTells, StatusTells, TypeOK
<1>1. pc' = pc /\ copy' = copy /\ \A q \in Orders : Total(q)' = Total(q)
  BY DEF Review, AdminDeliverOrder, AdminRejectOrder, requestVars, Total
<1>2. /\ order[o].status = "requested"
      /\ \A q \in Orders \ {o} : order'[q] = order[q] /\ tally'[q] = tally[q]
  BY DEF Review, AdminDeliverOrder, AdminRejectOrder
<1>3. order'[o].total = order[o].total /\ tally'[o].buy = tally[o].buy
  BY DEF Review, AdminDeliverOrder, AdminRejectOrder, OrderRecord, Tally
<1>4. \/ order'[o].status = "delivered" /\ tally'[o].delivery = 1 /\ tally'[o].refund = 0
      \/ /\ order'[o].status = "rejected" /\ tally'[o].delivery = 0
         /\ tally'[o].refund = IF order[o].total > 0 THEN 1 ELSE 0
  BY <1>2 DEF Review, AdminDeliverOrder, AdminRejectOrder, OrderRecord, Tally
<1>5. order[o].total = Total(o) /\ Total(o) \in Nat
  BY <1>2, TotalType
<1> QED BY <1>1, <1>2, <1>3, <1>4, <1>5

LEMMA OrderOthers ==
    ASSUME OrderInv, LoadForm \/ SaveForm \/ (\E u \in Users : PolicyChange(u)) \/ Crash \/ UNCHANGED vars
    PROVE  CallTells' /\ StatusTells'
<1>1. /\ order' = order /\ tally' = tally /\ copy' = copy
      /\ \A o \in Orders : pc'[o] = pc[o] \/ (pc[o] \in Running /\ pc'[o] = "crashed")
  BY DEF LoadForm, SaveForm, PolicyChange, Crash, vars, requestVars
<1>2. \A o \in Orders : Total(o)' = Total(o)
  BY <1>1 DEF Total
<1> QED BY <1>1, <1>2 DEF OrderInv, CallTells, StatusTells, Placed, Running

LEMMA OrderInvStep == OrderInv /\ [Next]_vars => OrderInv'
BY TypeStep, OrderContinue, OrderReview, OrderOthers DEF Next, OrderInv

THEOREM OrderInvariant == Spec => []OrderInv
<1>1. Init => OrderInv
  BY TypeInit DEF Init, OrderInv, CallTells, StatusTells
<1> QED BY <1>1, OrderInvStep, PTL DEF Spec

\* An order is delivered once or refunded once, never both.
THEOREM SingleOutcome == Spec => []OneOutcome
<1>1. OrderInv => OneOutcome
  BY DEF OrderInv, StatusTells, OneOutcome, TypeOK, OrderRecord, OrderStatus
<1> QED BY <1>1, OrderInvariant, PTL

\* A buyer whose order ends rejected has not paid for it, even when the rejection came
\* before the debit.
THEOREM RejectedOrdersAreFree == Spec => []RejectedIsNotCharged
<1>1. OrderInv => RejectedIsNotCharged
  BY DEF OrderInv, CallTells, StatusTells, RejectedIsNotCharged, TypeOK, Tally, Placed, Running
<1> QED BY <1>1, OrderInvariant, PTL

\* No later step of the buying call or of a reviewer revives a rejected order.
THEOREM RejectionsAreFinal == Spec => RejectionIsFinal
<1> DEFINE Kept == \A o \in Orders : order[o].status = "rejected" => order'[o].status = "rejected"
<1>1. ASSUME OrderInv, NEW o \in Orders, ReadProduct(o) \/ Continue(o)
      PROVE  Kept
  <2>1. order' = order \/ PlaceOrder(o) \/ RollbackStatus(o)
    BY <1>1 DEF ReadProduct, Continue, CheckLimit, CheckBalance, SoldOut, CallFails, Debit, DebitFails,
                RollbackStock
  <2>2. PlaceOrder(o) => order[o].status = "none"
    BY <1>1 DEF PlaceOrder, OrderInv, CallTells, Placed
  <2> QED BY <1>1, <2>1, <2>2 DEF PlaceOrder, RollbackStatus, OrderInv, TypeOK
<1>2. ASSUME OrderInv, NEW o \in Orders, Review(o)
      PROVE  Kept
  BY <1>2 DEF Review, AdminDeliverOrder, AdminRejectOrder, OrderInv, TypeOK
<1>3. ASSUME LoadForm \/ SaveForm \/ (\E u \in Users : PolicyChange(u)) \/ Crash
      PROVE  Kept
  BY <1>3 DEF LoadForm, SaveForm, PolicyChange, Crash
<1>4. OrderInv /\ [Next]_vars => [Kept]_vars
  BY <1>1, <1>2, <1>3 DEF Next
<1> QED BY <1>4, OrderInvariant, PTL DEF Spec, RejectionIsFinal

-----------------------------------------------------------------------------
(***************************************************************************)
(* Sums over finite sets of orders. SumFunctionOnSet is a recursive        *)
(* function on the subsets of a set: what it returns is shown by the least *)
(* cardinality at which a claim about it would fail.                       *)
(***************************************************************************)
LEMMA LeastNumber ==
    ASSUME NEW T \in SUBSET Nat, T # {}
    PROVE  \E n \in T : \A m \in T : n <= m
<1>1. PICK n \in T : \A m \in T : <<m, n>> \notin OpToRel(<, Nat)
  BY WFMin, NatLessThanWellFounded
<1>2. \A m \in T : ~(m < n)
  BY <1>1 DEF OpToRel
<1> QED BY <1>2

First(T) == CHOOSE x \in T : TRUE
SumStep(f, g, T) == IF T = {} THEN 0 ELSE f[First(T)] + g[T \ {First(T)}]
IsSum(g, f, S) == g = [T \in SUBSET S |-> SumStep(f, g, T)]

\* A subset of a finite set is finite, and smaller without one of its elements.
LEMMA Smaller ==
    ASSUME NEW S, IsFiniteSet(S), NEW T \in SUBSET S
    PROVE  /\ IsFiniteSet(T) /\ Cardinality(T) \in Nat
           /\ Cardinality(T) <= Cardinality(S)
           /\ Cardinality(T) = 0 => T = {}
           /\ \A x \in T : /\ T \ {x} \in SUBSET S
                           /\ Cardinality(T \ {x}) = Cardinality(T) - 1
                           /\ Cardinality(T \ {x}) \in Nat
           /\ T # {} => First(T) \in T
<1>1. IsFiniteSet(T) /\ Cardinality(T) \in Nat /\ Cardinality(T) <= Cardinality(S)
  BY FS_Subset, FS_CardinalityType
<1>2. Cardinality(T) = 0 => T = {}
  BY <1>1, FS_EmptySet
<1>3. ASSUME NEW x \in T
      PROVE  Cardinality(T \ {x}) = Cardinality(T) - 1 /\ Cardinality(T \ {x}) \in Nat
  <2>1. IsFiniteSet(T \ {x}) /\ Cardinality(T \ {x}) = Cardinality(T) - 1
    BY <1>1, FS_RemoveElement
  <2> QED BY <2>1, FS_CardinalityType
<1>4. T # {} => First(T) \in T
  BY DEF First
<1> QED BY <1>1, <1>2, <1>3, <1>4

\* The recursion has a solution: one for the subsets of at most n elements is
\* changed at those of n + 1 elements only.
LEMMA SumExists ==
    ASSUME NEW f, NEW S, IsFiniteSet(S)
    PROVE  \E g : IsSum(g, f, S)
<1> DEFINE UpTo(g, n) == /\ g = [T \in SUBSET S |-> g[T]]
                         /\ \A T \in SUBSET S : Cardinality(T) <= n => g[T] = SumStep(f, g, T)
           Bad == {n \in Nat : ~ \E g : UpTo(g, n)}
<1>1. Bad = {}
  <2> SUFFICES ASSUME Bad # {} PROVE FALSE
    OBVIOUS
  <2> HIDE DEF UpTo
  <2>1. PICK n \in Bad : \A m \in Bad : n <= m
    BY LeastNumber
  <2>2. n # 0
    <3> DEFINE g == [T \in SUBSET S |-> 0]
    <3>1. ASSUME NEW T \in SUBSET S, Cardinality(T) <= 0 PROVE T = {}
      <4>1. Cardinality(T) = 0
        BY <3>1, Smaller
      <4> QED BY <4>1, Smaller
    <3>2. UpTo(g, 0)
      BY <3>1 DEF UpTo, SumStep
    <3> QED BY <3>2
  <2>3. PICK g : UpTo(g, n - 1)
    <3>1. n - 1 \in Nat \ Bad
      BY <2>1, <2>2
    <3> QED BY <3>1
  <2> DEFINE h == [T \in SUBSET S |-> IF Cardinality(T) = n THEN SumStep(f, g, T) ELSE g[T]]
  <2>4. ASSUME NEW T \in SUBSET S, Cardinality(T) <= n
        PROVE  h[T] = SumStep(f, h, T)
    <3>1. SumStep(f, h, T) = SumStep(f, g, T)
      <4>1. CASE T = {}
        BY <4>1 DEF SumStep
      <4>2. CASE T # {}
        <5>1. First(T) \in T
          BY <4>2 DEF First
        <5>2. T \ {First(T)} \in SUBSET S /\ Cardinality(T \ {First(T)}) # n
          BY <2>4, <5>1, Smaller
        <5>3. h[T \ {First(T)}] = g[T \ {First(T)}]
          BY <5>2
        <5> QED BY <5>3 DEF SumStep
      <4> QED BY <4>1, <4>2
    <3>2. Cardinality(T) # n => g[T] = SumStep(f, g, T)
      <4>1. Cardinality(T) # n => Cardinality(T) <= n - 1
        BY <2>4, Smaller
      <4> QED BY <4>1, <2>3 DEF UpTo
    <3> QED BY <3>1, <3>2
  <2>5. UpTo(h, n)
    <3>1. h = [T \in SUBSET S |-> h[T]]
      OBVIOUS
    <3> HIDE DEF h
    <3> QED BY <2>4, <3>1 DEF UpTo
  <2> QED BY <2>1, <2>5
<1>2. PICK g : UpTo(g, Cardinality(S))
  <2>1. Cardinality(S) \in Nat \ Bad
    BY <1>1, FS_CardinalityType
  <2> QED BY <2>1
<1>3. \A T \in SUBSET S : g[T] = SumStep(f, g, T)
  BY <1>2, Smaller
<1> QED BY <1>2, <1>3 DEF IsSum

LEMMA SumIsSum ==
    ASSUME NEW f, NEW S, IsFiniteSet(S)
    PROVE  \E g : IsSum(g, f, S) /\ SumFunctionOnSet(f, S) = g[S]
<1> DEFINE g == CHOOSE h : IsSum(h, f, S)
<1>1. IsSum(g, f, S)
  BY SumExists
<1>2. SumFunctionOnSet(f, S) = g[S]
  BY DEF SumFunctionOnSet, FoldFunctionOnSet, MapThenFoldSet, IsSum, SumStep, First
<1> QED BY <1>1, <1>2

\* The solutions for two sets agree on the subsets the sets share.
LEMMA SumUnique ==
    ASSUME NEW f, NEW S, NEW T, NEW g, NEW h, IsFiniteSet(S), IsSum(g, f, S), IsSum(h, f, T),
           NEW U \in SUBSET (S \cap T)
    PROVE  g[U] = h[U]
<1> DEFINE Bad == {n \in Nat : \E V \in SUBSET (S \cap T) : Cardinality(V) = n /\ g[V] # h[V]}
<1>1. Bad = {}
  <2> SUFFICES ASSUME Bad # {} PROVE FALSE
    OBVIOUS
  <2>1. PICK n \in Bad : \A m \in Bad : n <= m
    <3> HIDE DEF Bad
    <3>1. Bad \in SUBSET Nat
      BY DEF Bad
    <3> QED BY <3>1, LeastNumber
  <2>2. PICK V \in SUBSET (S \cap T) : Cardinality(V) = n /\ g[V] # h[V]
    BY <2>1
  <2>3. g[V] = SumStep(f, g, V) /\ h[V] = SumStep(f, h, V)
    BY DEF IsSum
  <2>4. V # {}
    BY <2>2, <2>3 DEF SumStep
  <2> DEFINE W == V \ {First(V)}
  <2>5. W \in SUBSET (S \cap T) /\ Cardinality(W) = n - 1 /\ Cardinality(W) \in Nat
    <3>1. First(V) \in V /\ V \in SUBSET S
      BY <2>4, Smaller
    <3> QED BY <2>2, <3>1, Smaller
  <2>6. g[W] # h[W]
    BY <2>2, <2>3, <2>4 DEF SumStep
  <2>7. n - 1 \in Bad
    BY <2>5, <2>6
  <2> QED BY <2>1, <2>7
<1>2. Cardinality(U) \in Nat
  BY Smaller
<1> QED BY <1>1, <1>2

LEMMA SumUnfold ==
    ASSUME NEW f, NEW S, IsFiniteSet(S)
    PROVE  SumFunctionOnSet(f, S) =
              IF S = {} THEN 0 ELSE f[First(S)] + SumFunctionOnSet(f, S \ {First(S)})
<1>1. PICK g : IsSum(g, f, S) /\ SumFunctionOnSet(f, S) = g[S]
  BY SumIsSum
<1>2. g[S] = SumStep(f, g, S)
  BY <1>1 DEF IsSum
<1>3. CASE S # {}
  <2> DEFINE T == S \ {First(S)}
  <2>1. IsFiniteSet(T) /\ T \in SUBSET (S \cap T)
    BY Smaller
  <2>2. PICK h : IsSum(h, f, T) /\ SumFunctionOnSet(f, T) = h[T]
    BY <2>1, SumIsSum
  <2>3. g[T] = h[T]
    BY <1>1, <2>1, <2>2, SumUnique
  <2> QED BY <1>1, <1>2, <1>3, <2>2, <2>3 DEF SumStep
<1> QED BY <1>1, <1>2, <1>3 DEF SumStep

LEMMA SumType ==
    ASSUME NEW D, NEW f \in [D -> Int], NEW S \in SUBSET D, IsFiniteSet(S)
    PROVE  SumFunctionOnSet(f, S) \in Int
<1> DEFINE Bad == {n \in Nat : \E V \in SUBSET S : Cardinality(V) = n /\ SumFunctionOnSet(f, V) \notin Int}
<1>1. Bad = {}
  <2> SUFFICES ASSUME Bad # {} PROVE FALSE
    OBVIOUS
  <2>1. PICK n \in Bad : \A m \in Bad : n <= m
    <3> HIDE DEF Bad
    <3>1. Bad \in SUBSET Nat
      BY DEF Bad
    <3> QED BY <3>1, LeastNumber
  <2>2. PICK V \in SUBSET S : Cardinality(V) = n /\ SumFunctionOnSet(f, V) \notin Int
    BY <2>1
  <2> DEFINE W == V \ {First(V)}
  <2>3. V # {} /\ f[First(V)] \in Int /\ SumFunctionOnSet(f, V) = f[First(V)] + SumFunctionOnSet(f, W)
    <3>1. IsFiniteSet(V)
      BY Smaller
    <3>2. V # {}
      <4>1. V = {} => SumFunctionOnSet(f, V) = 0
        BY <3>1, SumUnfold
      <4> QED BY <2>2, <4>1
    <3>3. First(V) \in V
      BY <3>2, Smaller
    <3> QED BY <3>1, <3>2, <3>3, SumUnfold
  <2>4. W \in SUBSET S /\ Cardinality(W) = n - 1 /\ Cardinality(W) \in Nat
    <3>1. First(V) \in V
      BY <2>3, Smaller
    <3> QED BY <2>2, <3>1, Smaller
  <2>5. SumFunctionOnSet(f, W) \notin Int
    BY <2>2, <2>3
  <2>6. n - 1 \in Bad
    BY <2>4, <2>5
  <2> QED BY <2>1, <2>6
<1>2. Cardinality(S) \in Nat
  BY FS_CardinalityType
<1> QED BY <1>1, <1>2

LEMMA SumOfZeros ==
    ASSUME NEW D, NEW S \in SUBSET D, IsFiniteSet(S)
    PROVE  SumFunctionOnSet([x \in D |-> 0], S) = 0
<1> DEFINE f == [x \in D |-> 0]
           Bad == {n \in Nat : \E V \in SUBSET S : Cardinality(V) = n /\ SumFunctionOnSet(f, V) # 0}
<1>1. Bad = {}
  <2> SUFFICES ASSUME Bad # {} PROVE FALSE
    OBVIOUS
  <2>1. PICK n \in Bad : \A m \in Bad : n <= m
    <3> HIDE DEF Bad
    <3>1. Bad \in SUBSET Nat
      BY DEF Bad
    <3> QED BY <3>1, LeastNumber
  <2>2. PICK V \in SUBSET S : Cardinality(V) = n /\ SumFunctionOnSet(f, V) # 0
    BY <2>1
  <2> DEFINE W == V \ {First(V)}
  <2>3. First(V) \in V /\ SumFunctionOnSet(f, V) = f[First(V)] + SumFunctionOnSet(f, W)
    <3>1. IsFiniteSet(V)
      BY Smaller
    <3>2. V # {}
      BY <2>2, <3>1, SumUnfold
    <3>3. First(V) \in V
      BY <3>2, Smaller
    <3> HIDE DEF f
    <3> QED BY <3>1, <3>2, <3>3, SumUnfold
  <2>4. W \in SUBSET S /\ Cardinality(W) = n - 1 /\ Cardinality(W) \in Nat
    BY <2>2, <2>3, Smaller
  <2>5. SumFunctionOnSet(f, W) # 0
    BY <2>2, <2>3
  <2>6. n - 1 \in Bad
    BY <2>4, <2>5
  <2> QED BY <2>1, <2>6
<1>2. Cardinality(S) \in Nat
  BY FS_CardinalityType
<1> QED BY <1>1, <1>2

\* Any element may be taken out first.
LEMMA SumRemove ==
    ASSUME NEW D, NEW f \in [D -> Int], NEW S \in SUBSET D, IsFiniteSet(S), NEW x \in S
    PROVE  SumFunctionOnSet(f, S) = f[x] + SumFunctionOnSet(f, S \ {x})
<1> DEFINE Bad == {n \in Nat : \E V \in SUBSET S, y \in S :
                       /\ Cardinality(V) = n /\ y \in V
                       /\ SumFunctionOnSet(f, V) # f[y] + SumFunctionOnSet(f, V \ {y})}
<1>1. Bad = {}
  <2> SUFFICES ASSUME Bad # {} PROVE FALSE
    OBVIOUS
  <2>1. PICK n \in Bad : \A m \in Bad : n <= m
    <3> HIDE DEF Bad
    <3>1. Bad \in SUBSET Nat
      BY DEF Bad
    <3> QED BY <3>1, LeastNumber
  <2>2. PICK V \in SUBSET S, y \in S :
            /\ Cardinality(V) = n /\ y \in V
            /\ SumFunctionOnSet(f, V) # f[y] + SumFunctionOnSet(f, V \ {y})
    BY <2>1
  <2> DEFINE z == First(V)
             W == V \ {z}
             Y == V \ {y}
             R == W \ {y}
  <2>3. z \in V /\ SumFunctionOnSet(f, V) = f[z] + SumFunctionOnSet(f, W)
    BY <2>2, Smaller, SumUnfold DEF First
  <2>4. y # z
    BY <2>2, <2>3
  <2>5. /\ W \in SUBSET S /\ Y \in SUBSET S /\ R \in SUBSET S
        /\ Cardinality(W) = n - 1 /\ Cardinality(Y) = n - 1 /\ n - 1 \in Nat
        /\ y \in W /\ z \in Y /\ Y \ {z} = R
    <3>1. W \in SUBSET S /\ Y \in SUBSET S
      OBVIOUS
    <3>2. Cardinality(W) = n - 1 /\ Cardinality(Y) = n - 1 /\ Cardinality(W) \in Nat
      BY <2>2, <2>3, <3>1, Smaller
    <3> QED BY <2>2, <2>3, <2>4, <3>1, <3>2
  <2>6. n - 1 \notin Bad
    BY <2>1
  <2>7. SumFunctionOnSet(f, W) = f[y] + SumFunctionOnSet(f, R)
    BY <2>5, <2>6
  <2>8. SumFunctionOnSet(f, Y) = f[z] + SumFunctionOnSet(f, Y \ {z})
    BY <2>3, <2>5, <2>6
  <2>9. SumFunctionOnSet(f, R) \in Int /\ f[y] \in Int /\ f[z] \in Int
    <3>1. IsFiniteSet(R) /\ R \in SUBSET D
      BY <2>5, Smaller
    <3>2. SumFunctionOnSet(f, R) \in Int
      BY <3>1, SumType
    <3>3. f[y] \in Int /\ f[z] \in Int
      BY <2>2, <2>3
    <3> QED BY <3>2, <3>3
  <2>10. SumFunctionOnSet(f, V) = f[y] + SumFunctionOnSet(f, Y)
    <3>1. SumFunctionOnSet(f, Y) = f[z] + SumFunctionOnSet(f, R)
      BY <2>5, <2>8
    <3> HIDE DEF R, W, Y, z
    <3> QED BY <2>3, <2>7, <2>9, <3>1
  <2> QED BY <2>2, <2>10
<1>2. Cardinality(S) \in Nat
  BY FS_CardinalityType
<1> QED BY <1>1, <1>2

\* Only the values on the set count.
LEMMA SumAgree ==
    ASSUME NEW D, NEW f \in [D -> Int], NEW g \in [D -> Int], NEW S \in SUBSET D, IsFiniteSet(S),
           \A x \in S : f[x] = g[x]
    PROVE  SumFunctionOnSet(f, S) = SumFunctionOnSet(g, S)
<1> DEFINE Bad == {n \in Nat : \E V \in SUBSET S :
                       Cardinality(V) = n /\ SumFunctionOnSet(f, V) # SumFunctionOnSet(g, V)}
<1>1. Bad = {}
  <2> SUFFICES ASSUME Bad # {} PROVE FALSE
    OBVIOUS
  <2>1. PICK n \in Bad : \A m \in Bad : n <= m
    <3> HIDE DEF Bad
    <3>1. Bad \in SUBSET Nat
      BY DEF Bad
    <3> QED BY <3>1, LeastNumber
  <2>2. PICK V \in SUBSET S :
            Cardinality(V) = n /\ SumFunctionOnSet(f, V) # SumFunctionOnSet(g, V)
    BY <2>1
  <2> DEFINE W == V \ {First(V)}
  <2>3. /\ V # {} /\ f[First(V)] = g[First(V)]
        /\ SumFunctionOnSet(f, V) = f[First(V)] + SumFunctionOnSet(f, W)
        /\ SumFunctionOnSet(g, V) = g[First(V)] + SumFunctionOnSet(g, W)
    <3>1. IsFiniteSet(V)
      BY Smaller
    <3>2. V # {}
      BY <2>2, <3>1, SumUnfold
    <3>3. First(V) \in V
      BY <3>2, Smaller
    <3> QED BY <3>1, <3>2, <3>3, SumUnfold
  <2>4. W \in SUBSET S /\ Cardinality(W) = n - 1 /\ Cardinality(W) \in Nat
    <3>1. First(V) \in V
      BY <2>3, Smaller
    <3> QED BY <2>2, <3>1, Smaller
  <2>5. SumFunctionOnSet(f, W) # SumFunctionOnSet(g, W)
    BY <2>2, <2>3
  <2>6. n - 1 \in Bad
    BY <2>4, <2>5
  <2> QED BY <2>1, <2>6
<1>2. Cardinality(S) \in Nat
  BY FS_CardinalityType
<1> QED BY <1>1, <1>2

\* A function that changes at one place changes the sum by the difference.
LEMMA SumUpdate ==
    ASSUME NEW D, NEW f \in [D -> Int], NEW g \in [D -> Int], NEW S \in SUBSET D, IsFiniteSet(S),
           NEW x \in D, \A y \in D \ {x} : f[y] = g[y]
    PROVE  SumFunctionOnSet(g, S) =
              SumFunctionOnSet(f, S) + (IF x \in S THEN g[x] - f[x] ELSE 0)
<1>1. CASE x \notin S
  BY <1>1, SumAgree, SumType
<1>2. CASE x \in S
  <2> DEFINE T == S \ {x}
  <2>1. T \in SUBSET D /\ IsFiniteSet(T)
    BY Smaller
  <2>2. SumFunctionOnSet(f, S) = f[x] + SumFunctionOnSet(f, T)
    BY <1>2, SumRemove
  <2>3. SumFunctionOnSet(g, S) = g[x] + SumFunctionOnSet(g, T)
    BY <1>2, SumRemove
  <2>4. SumFunctionOnSet(f, T) = SumFunctionOnSet(g, T) /\ SumFunctionOnSet(f, T) \in Int
    BY <2>1, SumAgree, SumType
  <2>5. f[x] \in Int /\ g[x] \in Int
    OBVIOUS
  <2> HIDE DEF T
  <2> QED BY <1>2, <2>2, <2>3, <2>4, <2>5
<1> QED BY <1>1, <1>2

\* A sum of natural numbers over a set is at least the one over a subset.
LEMMA SumGrows ==
    ASSUME NEW D, NEW f \in [D -> Nat], NEW T \in SUBSET D, IsFiniteSet(T), NEW S \in SUBSET T
    PROVE  SumFunctionOnSet(f, S) <= SumFunctionOnSet(f, T)
<1> DEFINE Bad == {n \in Nat : \E V \in SUBSET T : \E U \in SUBSET V :
                       Cardinality(V) = n /\ ~(SumFunctionOnSet(f, U) <= SumFunctionOnSet(f, V))}
<1>1. f \in [D -> Int] /\ \A V \in SUBSET T : IsFiniteSet(V) /\ SumFunctionOnSet(f, V) \in Int
  <2>1. f \in [D -> Int]
    OBVIOUS
  <2> QED BY <2>1, Smaller, SumType
<1>2. Bad = {}
  <2> SUFFICES ASSUME Bad # {} PROVE FALSE
    OBVIOUS
  <2>1. PICK n \in Bad : \A m \in Bad : n <= m
    <3> HIDE DEF Bad
    <3>1. Bad \in SUBSET Nat
      BY DEF Bad
    <3> QED BY <3>1, LeastNumber
  <2>2. PICK V \in SUBSET T : \E U \in SUBSET V :
            Cardinality(V) = n /\ ~(SumFunctionOnSet(f, U) <= SumFunctionOnSet(f, V))
    BY <2>1
  <2>3. PICK U \in SUBSET V :
            Cardinality(V) = n /\ ~(SumFunctionOnSet(f, U) <= SumFunctionOnSet(f, V))
    BY <2>2
  <2>4. PICK x \in V : x \notin U
    <3>1. U # V
      BY <1>1, <2>3
    <3> QED BY <3>1
  <2> DEFINE W == V \ {x}
  <2>5. W \in SUBSET T /\ U \in SUBSET W /\ Cardinality(W) = n - 1 /\ Cardinality(W) \in Nat
    BY <2>3, <2>4, Smaller
  <2>6. SumFunctionOnSet(f, U) <= SumFunctionOnSet(f, W)
    <3>1. n - 1 \notin Bad
      BY <2>1
    <3> QED BY <2>5, <3>1
  <2>7. SumFunctionOnSet(f, V) = f[x] + SumFunctionOnSet(f, W) /\ f[x] \in Nat
    BY <1>1, <2>4, SumRemove
  <2>8. /\ SumFunctionOnSet(f, U) \in Int /\ SumFunctionOnSet(f, V) \in Int
        /\ SumFunctionOnSet(f, W) \in Int
    BY <1>1, <2>5
  <2> HIDE DEF W, Bad
  <2> QED BY <2>3, <2>6, <2>7, <2>8
<1>3. Cardinality(T) \in Nat
  BY FS_CardinalityType
<1> QED BY <1>2, <1>3

-----------------------------------------------------------------------------
(* Pieces under order *)

Counted(o) == order[o].status \in {"requested", "delivered"}

LEMMA HeldType ==
    ASSUME NEW S \in SUBSET Orders
    PROVE  Held(S) \in Int
<1> DEFINE A == {o \in S : order[o].status \in {"requested", "delivered"}}
<1>1. Quantity \in [Orders -> Int] /\ A \in SUBSET Orders /\ IsFiniteSet(A)
  BY ShopAssumption, FS_Subset
<1> HIDE DEF A
<1>2. SumFunctionOnSet(Quantity, A) \in Int
  BY <1>1, SumType
<1> QED BY <1>2 DEF Held, A

\* A step that changes the status of one order changes the count by its pieces at most.
LEMMA HeldChange ==
    ASSUME NEW S \in SUBSET Orders, NEW o \in Orders,
           \A q \in Orders \ {o} : order'[q].status = order[q].status
    PROVE  Held(S)' = Held(S) - (IF o \in S /\ Counted(o) THEN Quantity[o] ELSE 0)
                              + (IF o \in S /\ Counted(o)' THEN Quantity[o] ELSE 0)
<1> DEFINE A == {q \in S : order[q].status \in {"requested", "delivered"}}
           B == {q \in S : order'[q].status \in {"requested", "delivered"}}
           Sum(T) == SumFunctionOnSet(Quantity, T)
<1>1. /\ Quantity \in [Orders -> Int] /\ Quantity[o] \in Int
      /\ A \in SUBSET Orders /\ IsFiniteSet(A)
      /\ B \in SUBSET Orders /\ IsFiniteSet(B)
  BY ShopAssumption, FS_Subset
<1>2. A \ {o} = B \ {o}
  OBVIOUS
<1>3. (o \in A <=> o \in S /\ Counted(o)) /\ (o \in B <=> o \in S /\ Counted(o)')
  BY DEF Counted
<1>4. Held(S) = Sum(A) /\ Held(S)' = Sum(B)
  BY DEF Held
<1> HIDE DEF A, B
<1>5. A \ {o} \in SUBSET Orders /\ IsFiniteSet(A \ {o}) /\ Sum(A \ {o}) \in Int
  <2>1. A \ {o} \in SUBSET Orders /\ IsFiniteSet(A \ {o})
    BY <1>1, FS_Subset
  <2> QED BY <1>1, <2>1, SumType
<1>6. Sum(A) = IF o \in A THEN Quantity[o] + Sum(A \ {o}) ELSE Sum(A \ {o})
  <2>1. CASE o \in A
    <3>1. Sum(A) = Quantity[o] + Sum(A \ {o})
      BY <1>1, <2>1, SumRemove
    <3> QED BY <2>1, <3>1
  <2>2. CASE o \notin A
    <3>1. A \ {o} = A
      BY <2>2
    <3> QED BY <2>2, <3>1
  <2> QED BY <2>1, <2>2
<1>7. Sum(B) = IF o \in B THEN Quantity[o] + Sum(A \ {o}) ELSE Sum(A \ {o})
  <2>1. CASE o \in B
    <3>1. Sum(B) = Quantity[o] + Sum(B \ {o})
      BY <1>1, <2>1, SumRemove
    <3> QED BY <1>2, <2>1, <3>1
  <2>2. CASE o \notin B
    <3>1. B \ {o} = B
      BY <2>2
    <3> QED BY <1>2, <2>2, <3>1
  <2> QED BY <2>1, <2>2
<1> HIDE DEF Sum
<1> QED BY <1>1, <1>3, <1>4, <1>5, <1>6, <1>7

LEMMA HeldSame ==
    ASSUME NEW S \in SUBSET Orders, \A q \in Orders : order'[q].status = order[q].status
    PROVE  Held(S)' = Held(S)
<1>1. {q \in S : order'[q].status \in {"requested", "delivered"}}
         = {q \in S : order[q].status \in {"requested", "delivered"}}
  OBVIOUS
<1> QED BY <1>1 DEF Held

\* What each step does to the status of orders.
LEMMA StatusSteps ==
    ASSUME OrderInv, NEW o \in Orders, ReadProduct(o) \/ Continue(o) \/ Review(o)
    PROVE  /\ \A q \in Orders \ {o} : order'[q].status = order[q].status
           /\ \/ order' = order
              \/ PlaceOrder(o) /\ order[o].status = "none" /\ order'[o].status = "requested"
              \/ RollbackStatus(o) /\ order'[o].status = "rejected"
              \/ /\ \E reviewer \in Reviewers : AdminDeliverOrder(o, reviewer)
                 /\ order[o].status = "requested" /\ order'[o].status = "delivered"
              \/ /\ AdminRejectOrder(o)
                 /\ order[o].status = "requested" /\ order'[o].status = "rejected"
<1> USE DEF OrderInv, TypeOK
<1>1. CASE ReadProduct(o) \/ CheckLimit(o) \/ CheckBalance(o) \/ SoldOut(o) \/ CallFails(o) \/ Debit(o)
           \/ DebitFails(o) \/ RollbackStock(o)
  BY <1>1 DEF ReadProduct, CheckLimit, CheckBalance, SoldOut, CallFails, Debit, DebitFails, RollbackStock
<1>2. CASE PlaceOrder(o)
  <2>1. order[o].status = "none"
    BY <1>2 DEF PlaceOrder, CallTells, Placed
  <2> QED BY <1>2, <2>1 DEF PlaceOrder
<1>3. CASE RollbackStatus(o)
  BY <1>3 DEF RollbackStatus
<1>4. CASE Review(o)
  <2>1. CASE AdminRejectOrder(o)
    BY <2>1 DEF AdminRejectOrder, OrderRecord
  <2>2. ASSUME NEW reviewer \in Reviewers, AdminDeliverOrder(o, reviewer)
        PROVE  /\ \A q \in Orders \ {o} : order'[q].status = order[q].status
               /\ order[o].status = "requested" /\ order'[o].status = "delivered"
    BY <2>2 DEF AdminDeliverOrder, OrderRecord
  <2> HIDE DEF OrderInv, TypeOK
  <2> QED BY <1>4, <2>1, <2>2 DEF Review
<1> HIDE DEF OrderInv, TypeOK
<1> QED BY <1>1, <1>2, <1>3, <1>4 DEF Continue

LEMMA OthersKeepOrders ==
    ASSUME LoadForm \/ SaveForm \/ (\E u \in Users : PolicyChange(u)) \/ Crash \/ UNCHANGED vars
    PROVE  order' = order /\ tally' = tally /\ copy' = copy /\ rolledBack' = rolledBack
           /\ earlier' = earlier
BY DEF LoadForm, SaveForm, PolicyChange, Crash, vars, requestVars, historyVars

-----------------------------------------------------------------------------
(* The stock *)

\* As long as nobody edits the product and no roll-back wrote it, it is limited in every
\* copy, so every order takes its pieces and every rejection gives them back.
StockInv ==
    /\ \A o \in Orders : pc[o] = "reject" => o \in rolledBack
    /\ editor.open => edits > 0
    /\ Limited(OpeningProduct) /\ edits = 0 /\ rolledBack = {} =>
          Limited(product) /\ \A o \in Orders : Limited(copy[o])
    /\ StockIsConserved

LEMMA StockOrder ==
    ASSUME OrderInv, StockInv, NEW o \in Orders, ReadProduct(o) \/ Continue(o) \/ Review(o)
    PROVE  StockInv'
<1> USE ShopAssumption DEF StockInv, OrderInv, TypeOK
<1>1. \A q \in Orders : pc'[q] = "reject" => q \in rolledBack'
  BY DEF ReadProduct, Continue, Review, CheckLimit, CheckBalance, PlaceOrder, SoldOut, CallFails, Debit,
         DebitFails, RollbackStock, RollbackStatus, AdminDeliverOrder, AdminRejectOrder, Goto,
         historyVars, requestVars
<1>2. edits' = edits /\ editor' = editor /\ rolledBack \subseteq rolledBack'
  BY DEF ReadProduct, Continue, Review, CheckLimit, CheckBalance, PlaceOrder, SoldOut, CallFails, Debit,
         DebitFails, RollbackStock, RollbackStatus, AdminDeliverOrder, AdminRejectOrder,
         historyVars, boundVars
<1>3. ASSUME Limited(OpeningProduct), edits' = 0, rolledBack' = {}
      PROVE  /\ Limited(product)' /\ \A q \in Orders : Limited(copy[q])'
             /\ product'.stock + Held(Orders)' = OpeningProduct.stock
  <2>1. /\ Limited(product) /\ \A q \in Orders : Limited(copy[q])
        /\ product.stock + Held(Orders) = OpeningProduct.stock
        /\ product.stock \in Int /\ OpeningProduct.stock \in Int
    BY <1>2, <1>3 DEF StockIsConserved, Product, Unlimited
  <2>2. Held(Orders) \in Int /\ Quantity[o] \in Int
    BY HeldType
  <2>3. Held(Orders)' = Held(Orders) - (IF Counted(o) THEN Quantity[o] ELSE 0)
                                     + (IF Counted(o)' THEN Quantity[o] ELSE 0)
    BY StatusSteps, HeldChange
  <2>4. CASE PlaceOrder(o)
    <3>1. Limited(copy[o]) /\ product'.stock = product.stock - Quantity[o]
          /\ product.stock >= Quantity[o] /\ copy' = copy
      BY <2>1, <2>4 DEF PlaceOrder, Product
    <3>2. ~Counted(o) /\ Counted(o)'
      BY <2>4 DEF PlaceOrder, Counted, CallTells, Placed
    <3> QED BY <2>1, <2>2, <2>3, <3>1, <3>2 DEF Limited
  <2>5. CASE AdminRejectOrder(o)
    <3>1. product'.stock = product.stock + Quantity[o] /\ copy' = copy
      BY <2>1, <2>5 DEF AdminRejectOrder, Product, requestVars
    <3>2. Counted(o) /\ ~Counted(o)'
      BY <2>5 DEF AdminRejectOrder, Counted, OrderRecord
    <3> QED BY <2>1, <2>2, <2>3, <3>1, <3>2 DEF Limited
  <2>6. CASE \E reviewer \in Reviewers : AdminDeliverOrder(o, reviewer)
    <3>1. product' = product /\ copy' = copy
      BY <2>6 DEF AdminDeliverOrder, requestVars
    <3>2. Counted(o) /\ Counted(o)'
      BY <2>6 DEF AdminDeliverOrder, Counted, OrderRecord
    <3> QED BY <2>1, <2>2, <2>3, <3>1, <3>2 DEF Limited
  <2>7. CASE ReadProduct(o) \/ CheckLimit(o) \/ CheckBalance(o) \/ SoldOut(o) \/ CallFails(o)
             \/ Debit(o) \/ DebitFails(o)
    <3>1. product' = product /\ order' = order /\ \A q \in Orders : copy'[q] = copy[q] \/ copy'[q] = product
      BY <2>7 DEF ReadProduct, CheckLimit, CheckBalance, SoldOut, CallFails, Debit, DebitFails
    <3>2. Held(Orders)' = Held(Orders)
      BY <3>1, HeldSame
    <3> QED BY <2>1, <3>1, <3>2 DEF Limited
  <2>8. ~RollbackStock(o)
    BY <1>3 DEF RollbackStock
  <2>9. ~RollbackStatus(o)
    BY <1>2, <1>3 DEF RollbackStatus
  <2> QED BY <2>4, <2>5, <2>6, <2>7, <2>8, <2>9 DEF Continue, Review
<1> QED BY <1>1, <1>2, <1>3 DEF StockIsConserved

LEMMA StockOthers ==
    ASSUME OrderInv, StockInv,
           LoadForm \/ SaveForm \/ (\E u \in Users : PolicyChange(u)) \/ Crash \/ UNCHANGED vars
    PROVE  StockInv'
<1> USE DEF StockInv, OrderInv, TypeOK
<1>1. \A o \in Orders : pc'[o] = "reject" => o \in rolledBack'
  BY OthersKeepOrders DEF LoadForm, SaveForm, PolicyChange, Crash, vars, requestVars, Running
<1>2. /\ edits' \in Nat /\ (edits' = 0 => edits = 0)
      /\ editor'.open => edits' > 0
      /\ edits' = 0 => product' = product
  <2>1. CASE LoadForm
    BY <2>1 DEF LoadForm
  <2>2. CASE SaveForm
    <3>1. edits' = edits /\ edits > 0
      BY <2>2 DEF SaveForm, boundVars
    <3>2. ~editor'.open
      BY <2>2 DEF SaveForm
    <3> QED BY <3>1, <3>2
  <2>3. CASE (\E u \in Users : PolicyChange(u)) \/ UNCHANGED vars
    <3>1. edits' = edits /\ editor' = editor /\ product' = product
      BY <2>3 DEF PolicyChange, vars, boundVars
    <3> QED BY <3>1
  <2>4. CASE Crash
    BY <2>4 DEF Crash, StockInv
  <2> QED BY <2>1, <2>2, <2>3, <2>4
<1>3. Held(Orders)' = Held(Orders)
  BY OthersKeepOrders, HeldSame
<1> QED BY <1>1, <1>2, <1>3, OthersKeepOrders DEF StockIsConserved, Limited

LEMMA NothingHeld ==
    ASSUME Init, NEW S \in SUBSET Orders
    PROVE  Held(S) = 0
<1>1. {o \in S : order[o].status \in {"requested", "delivered"}} = {}
  BY DEF Init
<1>2. IsFiniteSet({})
  BY FS_EmptySet
<1> QED BY <1>1, <1>2, SumUnfold DEF Held

\* As long as nobody edits the product and no failed purchase wrote it back, the stock and the
\* pieces under order add up to the opening stock, whatever else happens in between.
THEOREM StockConservation == Spec => []StockIsConserved
<1>1. Init => StockInv
  <2> SUFFICES ASSUME Init PROVE StockInv
    OBVIOUS
  <2>1. Held(Orders) = 0 /\ product.stock \in Int
    BY NothingHeld, ShopAssumption DEF Init, Product, Unlimited
  <2> QED BY <2>1, ShopAssumption DEF Init, StockInv, StockIsConserved, Limited, Product
<1>2. OrderInv /\ StockInv /\ [Next]_vars => StockInv'
  BY StockOrder, StockOthers DEF Next
<1>3. StockInv => StockIsConserved
  BY DEF StockInv
<1> QED BY <1>1, <1>2, <1>3, OrderInvariant, PTL DEF Spec

-----------------------------------------------------------------------------
(* The limit per user *)

\* A call counts the pieces of its user before its order exists. The orders of the calls that had
\* ended when it began are never placed again, so what it counted of them can only fall.
LimitInv ==
    /\ \A o \in Orders : earlier[o] \subseteq {q \in Purchases(Buyer[o]) : pc[q] \in Ended}
    /\ \A o \in Orders : o \notin earlier[o]
    /\ \A o \in Orders : pc[o] \in {"balance", "place"} /\ copy[o].maxPerUser > 0 =>
          Held(earlier[o]) + Quantity[o] <= copy[o].maxPerUser
    /\ LimitCountsEarlierPurchases

\* A set holds at least the pieces of its subsets.
LEMMA HeldGrows ==
    ASSUME NEW T \in SUBSET Orders, NEW S \in SUBSET T
    PROVE  Held(S) <= Held(T)
<1> DEFINE A == {o \in S : order[o].status \in {"requested", "delivered"}}
           B == {o \in T : order[o].status \in {"requested", "delivered"}}
<1>1. Quantity \in [Orders -> Nat] /\ B \in SUBSET Orders /\ IsFiniteSet(B) /\ A \in SUBSET B
  BY ShopAssumption, FS_Subset
<1>2. Held(S) = SumFunctionOnSet(Quantity, A) /\ Held(T) = SumFunctionOnSet(Quantity, B)
  BY DEF Held
<1> HIDE DEF A, B
<1> QED BY <1>1, <1>2, SumGrows

\* A step of an order that adds no piece of a set keeps what the set holds, or lowers it.
LEMMA HeldFalls ==
    ASSUME OrderInv, NEW o \in Orders, ReadProduct(o) \/ Continue(o) \/ Review(o),
           NEW S \in SUBSET Orders, ~PlaceOrder(o) \/ o \notin S
    PROVE  Held(S)' <= Held(S)
<1>1. Held(S) \in Int /\ Quantity[o] \in Nat
  BY HeldType, ShopAssumption
<1>2. Held(S)' = Held(S) - (IF o \in S /\ Counted(o) THEN Quantity[o] ELSE 0)
                         + (IF o \in S /\ Counted(o)' THEN Quantity[o] ELSE 0)
  BY StatusSteps, HeldChange
<1>3. o \in S /\ Counted(o)' => Counted(o)
  BY StatusSteps DEF Counted
<1> QED BY <1>1, <1>2, <1>3

\* What a step of an order leaves of the calls: only its own call moves.
LEMMA OneCallMoves ==
    ASSUME OrderInv, NEW o \in Orders, ReadProduct(o) \/ Continue(o) \/ Review(o)
    PROVE  /\ \A q \in Orders \ {o} : pc'[q] = pc[q] /\ copy'[q] = copy[q] /\ earlier'[q] = earlier[q]
           /\ pc[o] \in Ended => pc'[o] \in Ended
           /\ pc'[o] \in {"balance", "place"} => CheckLimit(o) \/ CheckBalance(o) \/ pc'[o] = pc[o]
           /\ ReadProduct(o) \/ (copy'[o] = copy[o] /\ earlier'[o] = earlier[o])
<1> USE DEF OrderInv, TypeOK, Goto, Ended
<1>1. CASE ReadProduct(o)
  BY <1>1 DEF ReadProduct
<1>2. CASE CheckLimit(o) \/ CheckBalance(o) \/ PlaceOrder(o) \/ SoldOut(o) \/ CallFails(o)
  BY <1>2 DEF CheckLimit, CheckBalance, PlaceOrder, SoldOut, CallFails, historyVars
<1>3. CASE Debit(o) \/ DebitFails(o) \/ RollbackStock(o) \/ RollbackStatus(o)
  BY <1>3 DEF Debit, DebitFails, RollbackStock, RollbackStatus, historyVars
<1>4. CASE Review(o)
  BY <1>4 DEF Review, AdminDeliverOrder, AdminRejectOrder, historyVars, requestVars
<1> QED BY <1>1, <1>2, <1>3, <1>4 DEF Continue

LEMMA EarlierEnded ==
    ASSUME OrderInv, LimitInv, NEW o \in Orders, ReadProduct(o) \/ Continue(o) \/ Review(o)
    PROVE  /\ \A q \in Orders : earlier'[q] \subseteq {r \in Purchases(Buyer[q]) : pc'[r] \in Ended}
           /\ \A q \in Orders : q \notin earlier'[q]
<1>1. ASSUME NEW q \in Orders, earlier'[q] = earlier[q]
      PROVE  earlier'[q] \subseteq {r \in Purchases(Buyer[q]) : pc'[r] \in Ended} /\ q \notin earlier'[q]
  <2>1. \A r \in Orders : pc[r] \in Ended => pc'[r] \in Ended
    BY OneCallMoves
  <2> QED BY <1>1, <2>1 DEF LimitInv, Purchases
<1>2. CASE ReadProduct(o)
  <2>1. earlier'[o] = {r \in Purchases(Buyer[o]) : pc[r] \in Ended} /\ pc[o] = "idle"
    BY <1>2 DEF ReadProduct, OrderInv, TypeOK
  <2>2. \A r \in Orders \ {o} : pc'[r] = pc[r] /\ earlier'[r] = earlier[r]
    BY OneCallMoves
  <2>3. o \notin earlier'[o]
    BY <2>1 DEF Ended
  <2> QED BY <1>1, <2>1, <2>2, <2>3 DEF Purchases
<1>3. CASE ~ReadProduct(o)
  BY <1>1, <1>3, OneCallMoves
<1> QED BY <1>2, <1>3

LEMMA LimitOrder ==
    ASSUME OrderInv, LimitInv, NEW o \in Orders, ReadProduct(o) \/ Continue(o) \/ Review(o)
    PROVE  LimitInv'
<1>1. /\ \A q \in Orders : /\ Quantity[q] \in Nat /\ copy[q].maxPerUser \in Nat
                           /\ earlier[q] \in SUBSET Orders /\ Purchases(Buyer[q]) \in SUBSET Orders
      /\ \A S \in SUBSET Orders : Held(S) \in Int /\ Held(S)' \in Int
  <2>1. \A S \in SUBSET Orders : Held(S) \in Int
    BY HeldType
  <2>2. \A S \in SUBSET Orders : Held(S)' \in Int
    BY <2>1, StatusSteps, HeldChange, ShopAssumption
  <2> QED BY <2>1, <2>2, ShopAssumption DEF OrderInv, TypeOK, Product, Purchases
<1>2. ASSUME NEW q \in Orders, pc'[q] \in {"balance", "place"}, copy'[q].maxPerUser > 0
      PROVE  Held(earlier[q])' + Quantity[q] <= copy'[q].maxPerUser
  <2>1. copy'[q] = copy[q] /\ earlier'[q] = earlier[q]
    <3>1. q = o => ~ReadProduct(o)
      BY <1>2 DEF ReadProduct, Goto, OrderInv, TypeOK
    <3> QED BY <3>1, OneCallMoves
  <2>2. PICK S \in SUBSET Orders : S = earlier[q]
    BY <1>1
  <2>3. Held(S)' <= Held(S)
    <3>1. PlaceOrder(o) => o \notin S
      BY <2>2 DEF PlaceOrder, LimitInv, Ended
    <3> QED BY <3>1, HeldFalls
  <2>4. Held(S) + Quantity[q] <= copy[q].maxPerUser
    <3>1. CASE pc[q] \in {"balance", "place"}
      BY <1>2, <2>1, <2>2, <3>1 DEF LimitInv
    <3>2. CASE pc[q] \notin {"balance", "place"}
      <4>1. q = o /\ CheckLimit(o)
        BY <1>2, <3>2, OneCallMoves DEF CheckBalance
      <4>2. Held(Purchases(Buyer[o])) + Quantity[o] <= copy[o].maxPerUser
        BY <1>1, <1>2, <2>1, <4>1 DEF CheckLimit, Goto, OrderInv, TypeOK
      <4>3. Held(S) <= Held(Purchases(Buyer[o]))
        <5>1. S \in SUBSET Purchases(Buyer[o])
          BY <2>2, <4>1 DEF LimitInv
        <5> QED BY <1>1, <5>1, HeldGrows
      <4> QED BY <1>1, <4>1, <4>2, <4>3
    <3> QED BY <3>1, <3>2
  <2>5. Held(earlier[q])' = Held(S)'
    BY <2>1, <2>2
  <2> QED BY <1>1, <2>1, <2>3, <2>4, <2>5
<1>3. ASSUME NEW q \in Orders, order'[q].status \in {"requested", "delivered"}, copy'[q].maxPerUser > 0
      PROVE  Held(earlier[q] \cup {q})' <= copy'[q].maxPerUser
  <2>1. copy'[q] = copy[q] /\ earlier'[q] = earlier[q]
    <3>1. q = o => ~ReadProduct(o)
      BY <1>3 DEF ReadProduct, OrderInv, CallTells, TypeOK, OrderRecord, Placed
    <3> QED BY <3>1, OneCallMoves
  <2>2. PICK S \in SUBSET Orders : S = earlier[q]
    BY <1>1
  <2>3. S \cup {q} \in SUBSET Orders
    OBVIOUS
  <2>4. Held(S \cup {q})' <= copy[q].maxPerUser
    <3>1. CASE q = o /\ PlaceOrder(o)
      <4>1. ~Counted(q) /\ Counted(q)'
        BY <1>3, <3>1 DEF Counted, PlaceOrder, OrderInv, CallTells, Placed
      <4>2. Held(S \cup {q})' = Held(S \cup {q}) + Quantity[q]
        <5>1. \A r \in Orders \ {q} : order'[r].status = order[r].status
          BY <3>1, StatusSteps
        <5>2. Held(S \cup {q})' = Held(S \cup {q})
                  - (IF q \in S \cup {q} /\ Counted(q) THEN Quantity[q] ELSE 0)
                  + (IF q \in S \cup {q} /\ Counted(q)' THEN Quantity[q] ELSE 0)
          BY <2>3, <5>1, HeldChange
        <5> QED BY <1>1, <2>3, <4>1, <5>2
      <4>3. Held(S \cup {q}) = Held(S)
        <5>1. {r \in S \cup {q} : order[r].status \in {"requested", "delivered"}}
                 = {r \in S : order[r].status \in {"requested", "delivered"}}
          BY <4>1 DEF Counted
        <5> QED BY <5>1 DEF Held
      <4>4. Held(S) + Quantity[q] <= copy[q].maxPerUser
        BY <1>3, <2>1, <2>2, <3>1 DEF PlaceOrder, LimitInv
      <4> QED BY <1>1, <4>2, <4>3, <4>4
    <3>2. CASE ~(q = o /\ PlaceOrder(o))
      <4>1. order[q].status \in {"requested", "delivered"}
        BY <1>3, <3>2, StatusSteps
      <4>2. Held(S \cup {q}) <= copy[q].maxPerUser
        BY <1>3, <2>1, <2>2, <4>1 DEF LimitInv, LimitCountsEarlierPurchases
      <4>3. PlaceOrder(o) => o \notin S \cup {q}
        BY <2>2, <3>2 DEF PlaceOrder, LimitInv, Ended
      <4>4. Held(S \cup {q})' <= Held(S \cup {q})
        BY <2>3, <4>3, HeldFalls
      <4> QED BY <1>1, <2>3, <4>2, <4>4
    <3> QED BY <3>1, <3>2
  <2>5. Held(earlier[q] \cup {q})' = Held(S \cup {q})'
    BY <2>1, <2>2
  <2> QED BY <2>1, <2>4, <2>5
<1>4. \A q \in Orders : Purchases(Buyer[q])' = Purchases(Buyer[q])
  BY DEF Purchases
<1> QED BY <1>2, <1>3, <1>4, EarlierEnded DEF LimitInv, LimitCountsEarlierPurchases

LEMMA LimitOthers ==
    ASSUME OrderInv, LimitInv,
           LoadForm \/ SaveForm \/ (\E u \in Users : PolicyChange(u)) \/ Crash \/ UNCHANGED vars
    PROVE  LimitInv'
<1>1. \A q \in Orders : pc'[q] = pc[q] \/ pc'[q] = "crashed"
  BY DEF OrderInv, TypeOK, LoadForm, SaveForm, PolicyChange, Crash, vars, requestVars
<1>2. order' = order /\ copy' = copy /\ earlier' = earlier
  BY OthersKeepOrders
<1>3. \A q \in Orders : Held(earlier[q])' = Held(earlier[q])
                        /\ Held(earlier[q] \cup {q})' = Held(earlier[q] \cup {q})
  BY <1>2 DEF Held
<1>4. \A q \in Orders : Purchases(Buyer[q])' = Purchases(Buyer[q])
  BY DEF Purchases
<1>5. \A q \in Orders : pc[q] \in Ended => pc'[q] \in Ended
  BY <1>1 DEF Ended
<1>6. \A q \in Orders : earlier'[q] \subseteq {r \in Purchases(Buyer[q]) : pc'[r] \in Ended}
  BY <1>2, <1>5 DEF LimitInv, Purchases
<1>7. \A q \in Orders : pc'[q] \in {"balance", "place"} => pc[q] = pc'[q]
  BY <1>1
<1>8. LimitCountsEarlierPurchases'
  BY <1>2, <1>3 DEF LimitInv, LimitCountsEarlierPurchases
<1> QED BY <1>2, <1>3, <1>4, <1>6, <1>7, <1>8 DEF LimitInv

\* What an order adds to the purchases its user had finished before is within the limit the call
\* read, for any overlap with other calls, edit of the limit, failure, review and roll-back.
THEOREM LimitOfEarlierPurchases == Spec => []LimitCountsEarlierPurchases
<1>1. Init => LimitInv
  BY DEF Init, LimitInv, LimitCountsEarlierPurchases
<1>2. OrderInv /\ LimitInv /\ [Next]_vars => LimitInv'
  BY LimitOrder, LimitOthers DEF Next
<1>3. LimitInv => LimitCountsEarlierPurchases
  BY DEF LimitInv
<1> QED BY <1>1, <1>2, <1>3, OrderInvariant, PTL DEF Spec

-----------------------------------------------------------------------------
(* The coins of a buyer *)

\* An order that is being debited exists, so the debit moves its total; nobody has lost the
\* capability as long as the policy has not changed.
BalanceInv ==
    /\ policyChanges = 0 => enabled = Users
    /\ \A o \in Orders : pc[o] = "debit" => order[o].status # "none"
    /\ \A o \in Orders : pc[o] \in {"restock", "reject"} => order[o].status # "none"
    /\ BuyerBalanceIsAccounted

LEMMA ReturnedType ==
    ASSUME NEW T \in [Orders -> Tally], NEW R \in [Orders -> OrderRecord]
    PROVE  [o \in Orders |-> (T[o].refund - T[o].buy) * R[o].total] \in [Orders -> Int]
<1>1. \A o \in Orders : (T[o].refund - T[o].buy) * R[o].total \in Int
  BY DEF Tally, OrderRecord
<1> QED BY <1>1

LEMMA OneMore ==
    ASSUME NEW refund \in Nat, NEW buy \in Nat, NEW total \in Nat
    PROVE  /\ ((refund + 1) - buy) * total = (refund - buy) * total + total
           /\ (refund - (buy + 1)) * total = (refund - buy) * total - total
<1>1. \A d \in Int : (d + 1) * total = d * total + total /\ (d - 1) * total = d * total - total
  OBVIOUS
<1>2. (refund + 1) - buy = (refund - buy) + 1 /\ refund - (buy + 1) = (refund - buy) - 1
  OBVIOUS
<1>3. refund - buy \in Int
  OBVIOUS
<1> QED BY <1>1, <1>2, <1>3

\* A step of one order changes what its buyer got back by what this order gives back now.
LEMMA ReturnedChange ==
    ASSUME TypeOK, TypeOK', NEW o \in Orders, NEW u \in Users,
           \A q \in Orders \ {o} : order'[q] = order[q] /\ tally'[q] = tally[q]
    PROVE  /\ SumFunctionOnSet(Returned, Purchases(u)) \in Int
           /\ Returned[o] \in Int /\ Returned[o]' \in Int
           /\ SumFunctionOnSet(Returned, Purchases(u))' =
                 SumFunctionOnSet(Returned, Purchases(u))
                     + (IF Buyer[o] = u THEN Returned[o]' - Returned[o] ELSE 0)
<1>1. Returned \in [Orders -> Int] /\ Returned' \in [Orders -> Int]
  BY ReturnedType DEF Returned, TypeOK
<1>2. Purchases(u) \in SUBSET Orders /\ Purchases(u)' = Purchases(u) /\ IsFiniteSet(Purchases(u))
      /\ (o \in Purchases(u) <=> Buyer[o] = u)
  BY ShopAssumption, FS_Subset DEF Purchases
<1>3. \A q \in Orders \ {o} : Returned[q] = Returned'[q]
  BY DEF Returned
<1>4. SumFunctionOnSet(Returned, Purchases(u)) \in Int
  BY <1>1, <1>2, SumType
<1>5. SumFunctionOnSet(Returned', Purchases(u)) =
         SumFunctionOnSet(Returned, Purchases(u))
             + (IF o \in Purchases(u) THEN Returned'[o] - Returned[o] ELSE 0)
  BY <1>1, <1>2, <1>3, SumUpdate
<1>6. SumFunctionOnSet(Returned, Purchases(u))' = SumFunctionOnSet(Returned', Purchases(u))
  BY <1>2
<1> QED BY <1>1, <1>2, <1>4, <1>5, <1>6

LEMMA ReturnedSame ==
    ASSUME order' = order, tally' = tally, NEW u \in Users
    PROVE  SumFunctionOnSet(Returned, Purchases(u))' = SumFunctionOnSet(Returned, Purchases(u))
<1>1. Purchases(u)' = Purchases(u) /\ Returned' = Returned
  BY DEF Purchases, Returned
<1> QED BY <1>1

\* What a step of an order does to the balance of a user without award while nobody has lost
\* the capability: exactly what the order gives back to its buyer.
LEMMA CoinsFollowOrders ==
    ASSUME OrderInv, OrderInv', BalanceInv, policyChanges = 0, NEW o \in Orders,
           ReadProduct(o) \/ Continue(o) \/ Review(o), NEW u \in Users \ Admins
    PROVE  /\ \A q \in Orders \ {o} : order'[q] = order[q] /\ tally'[q] = tally[q]
           /\ balance'[u] = balance[u] + (IF Buyer[o] = u THEN Returned[o]' - Returned[o] ELSE 0)
<1> DEFINE Goal == /\ \A q \in Orders \ {o} : order'[q] = order[q] /\ tally'[q] = tally[q]
                   /\ balance'[u] = balance[u] + (IF Buyer[o] = u THEN Returned[o]' - Returned[o] ELSE 0)
<1>1. balance[u] \in Nat /\ Buyer[o] \in Users /\ enabled = Users
  BY ShopAssumption DEF OrderInv, TypeOK, BalanceInv
<1>2. /\ order[o].total \in Nat /\ Total(o) \in Nat
      /\ tally[o].refund \in Nat /\ tally[o].buy \in Nat
  BY TotalType DEF OrderInv, TypeOK, Tally, OrderRecord
<1>3. /\ Returned[o] = (tally[o].refund - tally[o].buy) * order[o].total
      /\ Returned[o]' = (tally'[o].refund - tally'[o].buy) * order'[o].total
      /\ Returned[o] \in Int /\ Returned[o]' \in Int
  <2>1. Returned \in [Orders -> Int] /\ Returned' \in [Orders -> Int]
    BY ReturnedType DEF OrderInv, TypeOK, Returned
  <2> QED BY <2>1 DEF Returned
<1>4. CASE ReadProduct(o) \/ CheckLimit(o) \/ CheckBalance(o) \/ SoldOut(o) \/ CallFails(o)
           \/ DebitFails(o) \/ RollbackStock(o)
  <2>1. order' = order /\ tally' = tally
    BY <1>4 DEF ReadProduct, CheckLimit, CheckBalance, SoldOut, CallFails, DebitFails, RollbackStock
  <2>2. balance'[u] = balance[u]
    BY <1>1, <1>4 DEF ReadProduct, CheckLimit, CheckBalance, SoldOut, CallFails, DebitFails, RollbackStock,
           VisibleBalance, OrderInv, TypeOK
  <2>3. Returned[o]' = Returned[o]
    BY <1>3, <2>1
  <2> QED BY <1>1, <1>3, <2>1, <2>2, <2>3
<1>5. CASE PlaceOrder(o)
  <2>1. order[o].status = "none" /\ tally[o].buy = 0 /\ tally[o].refund = 0
    BY <1>5 DEF PlaceOrder, OrderInv, CallTells, StatusTells, Placed
  <2>2. tally' = tally /\ balance' = balance /\ \A q \in Orders \ {o} : order'[q] = order[q]
    BY <1>5 DEF PlaceOrder, OrderInv, TypeOK
  <2>3. order'[o].total \in Nat
    BY DEF OrderInv, TypeOK, OrderRecord
  <2>4. Returned[o]' = 0 /\ Returned[o] = 0
    <3>1. \A n \in Nat : (0 - 0) * n = 0
      OBVIOUS
    <3> QED BY <1>2, <1>3, <2>1, <2>2, <2>3, <3>1
  <2> QED BY <1>1, <2>2, <2>4
<1>6. CASE Debit(o)
  <2>1. /\ order' = order /\ Buyer[o] \in Users
        /\ \A q \in Orders \ {o} : tally'[q] = tally[q]
        /\ tally'[o].buy = tally[o].buy + 1 /\ tally'[o].refund = tally[o].refund
        /\ balance'[u] = IF u = Buyer[o] THEN balance[u] - Total(o) ELSE balance[u]
    BY <1>1, <1>6 DEF Debit, OrderInv, TypeOK, Tally
  <2>2. order[o].total = Total(o)
    BY <1>6 DEF Debit, OrderInv, CallTells, BalanceInv
  <2>3. Returned[o]' = Returned[o] - Total(o)
    BY <1>2, <1>3, <2>1, <2>2, OneMore
  <2> QED BY <1>1, <1>2, <1>3, <2>1, <2>3
<1>7. CASE RollbackStatus(o)
  <2>1. order[o].total = Total(o)
    BY <1>7 DEF RollbackStatus, OrderInv, CallTells, BalanceInv
  <2>2. /\ tally' = tally /\ balance' = balance /\ \A q \in Orders \ {o} : order'[q] = order[q]
        /\ order'[o].total = Total(o)
    BY <1>7, <2>1 DEF RollbackStatus, OrderInv, TypeOK
  <2>3. Returned[o]' = Returned[o]
    BY <1>3, <2>1, <2>2
  <2> QED BY <1>1, <1>3, <2>2, <2>3
<1>8. ASSUME NEW reviewer \in Reviewers, AdminDeliverOrder(o, reviewer)
      PROVE  Goal
  <2>1. /\ \A q \in Orders \ {o} : order'[q] = order[q] /\ tally'[q] = tally[q]
        /\ order'[o].total = order[o].total
        /\ tally'[o].buy = tally[o].buy /\ tally'[o].refund = tally[o].refund
    BY <1>8 DEF AdminDeliverOrder, OrderInv, TypeOK, OrderRecord, Tally
  <2>2. balance'[u] = balance[u]
    BY <1>1, <1>8 DEF AdminDeliverOrder, AwardTo, OrderInv, TypeOK
  <2>3. Returned[o]' = Returned[o]
    BY <1>3, <2>1
  <2> QED BY <1>1, <1>3, <2>1, <2>2, <2>3
<1>9. CASE AdminRejectOrder(o)
  <2>1. /\ \A q \in Orders \ {o} : order'[q] = order[q] /\ tally'[q] = tally[q]
        /\ order'[o].total = order[o].total /\ tally'[o].buy = tally[o].buy
        /\ tally'[o].refund = IF order[o].total > 0 THEN tally[o].refund + 1 ELSE tally[o].refund
    BY <1>9 DEF AdminRejectOrder, OrderInv, TypeOK, OrderRecord, Tally
  <2>2. balance'[u] = IF u = Buyer[o] THEN balance[u] + order[o].total ELSE balance[u]
    BY <1>1, <1>9 DEF AdminRejectOrder, OrderInv, TypeOK
  <2>3. Returned[o]' = Returned[o] + order[o].total
    <3>1. CASE order[o].total > 0
      <4>1. Returned[o]' = ((tally[o].refund + 1) - tally[o].buy) * order[o].total
        BY <1>3, <2>1, <3>1
      <4>2. ((tally[o].refund + 1) - tally[o].buy) * order[o].total
               = (tally[o].refund - tally[o].buy) * order[o].total + order[o].total
        BY <1>2, OneMore
      <4> QED BY <1>3, <4>1, <4>2
    <3>2. CASE order[o].total = 0
      <4>1. tally'[o].refund = tally[o].refund
        BY <2>1, <3>2
      <4> QED BY <1>3, <2>1, <3>2, <4>1
    <3> QED BY <1>2, <3>1, <3>2
  <2> QED BY <1>1, <1>2, <1>3, <2>1, <2>2, <2>3
<1> QED BY <1>4, <1>5, <1>6, <1>7, <1>8, <1>9 DEF Continue, Review

LEMMA BalanceOrder ==
    ASSUME OrderInv, OrderInv', BalanceInv, NEW o \in Orders,
           ReadProduct(o) \/ Continue(o) \/ Review(o)
    PROVE  BalanceInv'
<1>1. policyChanges' = policyChanges /\ enabled' = enabled
  BY DEF ReadProduct, Continue, Review, CheckLimit, CheckBalance, PlaceOrder, SoldOut, CallFails, Debit,
         DebitFails, RollbackStock, RollbackStatus, AdminDeliverOrder, AdminRejectOrder, boundVars
<1>2. ASSUME NEW q \in Orders, pc'[q] \in {"debit", "restock", "reject"}
      PROVE  order'[q].status # "none"
  <2>1. order[q].status # "none" => order'[q].status # "none"
    BY StatusSteps
  <2>2. pc[q] \in {"debit", "restock", "reject"} \/ (q = o /\ PlaceOrder(o))
    BY <1>2 DEF OrderInv, TypeOK, ReadProduct, Continue, Review, CheckLimit, CheckBalance, PlaceOrder,
           SoldOut, CallFails, Debit, DebitFails, RollbackStock, RollbackStatus, AdminDeliverOrder,
           AdminRejectOrder, Goto, requestVars
  <2>3. PlaceOrder(o) => order'[o].status # "none"
    BY DEF PlaceOrder, OrderInv, TypeOK
  <2> QED BY <2>1, <2>2, <2>3 DEF BalanceInv
<1>3. ASSUME NEW u \in Users \ Admins, policyChanges' = 0
      PROVE  balance'[u] = OpeningBalance[u] + SumFunctionOnSet(Returned, Purchases(u))'
  <2> DEFINE Sum == SumFunctionOnSet(Returned, Purchases(u))
             Moved == IF Buyer[o] = u THEN Returned[o]' - Returned[o] ELSE 0
  <2>1. balance[u] = OpeningBalance[u] + Sum /\ OpeningBalance[u] \in Nat
    BY <1>1, <1>3, ShopAssumption DEF BalanceInv, BuyerBalanceIsAccounted
  <2>2. /\ balance'[u] = balance[u] + Moved
        /\ \A q \in Orders \ {o} : order'[q] = order[q] /\ tally'[q] = tally[q]
    BY <1>1, <1>3, CoinsFollowOrders
  <2>3. Sum' = Sum + Moved /\ Sum \in Int /\ Moved \in Int
    <3>1. TypeOK /\ TypeOK'
      BY DEF OrderInv
    <3> QED BY <2>2, <3>1, ReturnedChange
  <2> HIDE DEF Sum, Moved
  <2>4. balance'[u] = OpeningBalance[u] + Sum'
    BY <2>1, <2>2, <2>3
  <2> QED BY <2>4 DEF Sum
<1> QED BY <1>1, <1>2, <1>3 DEF BalanceInv, BuyerBalanceIsAccounted

LEMMA BalanceOthers ==
    ASSUME OrderInv, BalanceInv,
           LoadForm \/ SaveForm \/ (\E u \in Users : PolicyChange(u)) \/ Crash \/ UNCHANGED vars
    PROVE  BalanceInv'
<1>1. \A o \in Orders : pc'[o] = pc[o] \/ pc'[o] = "crashed"
  BY DEF OrderInv, TypeOK, LoadForm, SaveForm, PolicyChange, Crash, vars, requestVars
<1>2. policyChanges' = 0 => policyChanges = 0 /\ enabled' = enabled /\ balance' = balance
  <2>1. CASE \E u \in Users : PolicyChange(u)
    BY <2>1 DEF PolicyChange, OrderInv, TypeOK
  <2>2. CASE LoadForm \/ SaveForm \/ Crash \/ UNCHANGED vars
    BY <2>2 DEF LoadForm, SaveForm, Crash, vars, boundVars
  <2> QED BY <2>1, <2>2
<1>3. \A u \in Users : SumFunctionOnSet(Returned, Purchases(u))' = SumFunctionOnSet(Returned, Purchases(u))
  BY OthersKeepOrders, ReturnedSame
<1> QED BY <1>1, <1>2, <1>3, OthersKeepOrders DEF BalanceInv, BuyerBalanceIsAccounted

\* What a buyer holds is the opening balance, less the orders debited, plus those refunded,
\* for every interleaving of purchases, reviews, roll-backs and crashes.
THEOREM BalancesAreAccounted == Spec => []BuyerBalanceIsAccounted
<1>1. Init => BalanceInv
  <2> SUFFICES ASSUME Init PROVE BalanceInv
    OBVIOUS
  <2>1. ASSUME NEW u \in Users
        PROVE  SumFunctionOnSet(Returned, Purchases(u)) = 0
    <3> DEFINE Zero == [o \in Orders |-> 0]
    <3>1. Returned = Zero
      <4>1. \A o \in Orders : (tally[o].refund - tally[o].buy) * order[o].total = 0
        BY DEF Init
      <4> QED BY <4>1 DEF Returned
    <3>2. Purchases(u) \in SUBSET Orders /\ IsFiniteSet(Purchases(u))
      BY ShopAssumption, FS_Subset DEF Purchases
    <3>3. SumFunctionOnSet(Zero, Purchases(u)) = 0
      BY <3>2, SumOfZeros
    <3> QED BY <3>1, <3>3
  <2>2. OpeningBalance \in [Users -> Nat] /\ balance = OpeningBalance
    BY ShopAssumption DEF Init
  <2> QED BY <2>1, <2>2 DEF Init, BalanceInv, BuyerBalanceIsAccounted
<1>2. OrderInv /\ BalanceInv /\ [Next]_vars => BalanceInv'
  <2> SUFFICES ASSUME OrderInv, BalanceInv, [Next]_vars PROVE BalanceInv'
    OBVIOUS
  <2>1. OrderInv'
    BY OrderInvStep
  <2> QED BY <2>1, BalanceOrder, BalanceOthers DEF Next
<1>3. BalanceInv => BuyerBalanceIsAccounted
  BY DEF BalanceInv
<1> QED BY <1>1, <1>2, <1>3, OrderInvariant, PTL DEF Spec
=============================================================================
