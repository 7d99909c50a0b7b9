----------------------------- MODULE ShopOrders -----------------------------
(***************************************************************************)
(* The shop (server/internal/service/shop.go, repository/shop.go): buying, *)
(* the roll-back of an order whose debit failed, delivery and rejection by *)
(* administrators, and the product editor.                                 *)
(*                                                                         *)
(* A purchase is not one transaction. It reads the product, counts earlier *)
(* purchases and reads the wallet without a lock; takes the stock and      *)
(* creates the order in a first transaction; debits the wallet in a second *)
(* one; and, when that fails, writes the product and the order back whole  *)
(* from the copies it still holds. Between any two of these steps other    *)
(* buyers and administrators work on the same rows, or the server dies.    *)
(* Each wallet transaction is one step here: SysWallet shows that it is.   *)
(***************************************************************************)
EXTENDS Integers, FiniteSets, Functions

CONSTANTS Users, Orders,            \* each order is one call of BuyProduct
          Buyer, Quantity,          \* who makes the call, for how many pieces
          Reviewers, Admins,        \* may review orders; receive the admin award
          Award,                    \* pap.admin_award
          OpeningBalance, OpeningProduct,
          EditStocks, EditPrices, EditLimits,       \* what an administrator may set
          MaxEdits, MaxCrashes, MaxFaults, MaxPolicyChanges    \* bounds

Unlimited == -1                     \* stock of a product without a stock limit
Product == [stock : Nat \cup {Unlimited}, price : Nat, onSale : BOOLEAN, maxPerUser : Nat]

ASSUME ShopAssumption ==
    /\ IsFiniteSet(Orders)
    /\ Buyer \in [Orders -> Users]
    /\ Quantity \in [Orders -> Nat \ {0}]
    /\ Admins \subseteq Reviewers /\ Reviewers \subseteq Users
    /\ Award \in Nat
    /\ OpeningBalance \in [Users -> Nat]
    /\ OpeningProduct \in Product
    /\ EditStocks \subseteq Nat \cup {Unlimited}
    /\ EditPrices \subseteq Nat /\ EditLimits \subseteq Nat
    /\ MaxEdits \in Nat /\ MaxCrashes \in Nat /\ MaxFaults \in Nat /\ MaxPolicyChanges \in Nat

VARIABLES product,      \* the shop_product row
          order,        \* the shop_order rows: status and total price
          balance,      \* system_wallet.balance
          enabled,      \* users whose corporation has the wallet capability
          tally,        \* wallet_transaction rows of the order, and its deliveries
          pc, copy,     \* each purchase's step and the product it read
          editor,       \* an administrator's product form
          rolledBack,   \* history: calls whose roll-back wrote the product or failed to
          unsaved,      \* history: calls whose roll-back failed to write the order
          earlier,      \* history: the user's calls that had ended when a call began
          edits, crashes, faults, policyChanges     \* bounds

requestVars == <<pc, copy>>
historyVars == <<rolledBack, unsaved, earlier>>
boundVars == <<edits, crashes, faults, policyChanges>>
vars == <<product, order, balance, enabled, tally, requestVars, editor, historyVars, boundVars>>

OrderStatus == {"none", "requested", "delivered", "rejected"}
OrderRecord == [status : OrderStatus, total : Nat]
Tally == [buy : Nat, refund : Nat, delivery : Nat]
Running == {"limit", "balance", "place", "debit", "restock", "reject"}
Ended == {"bought", "failed", "crashed"}
Steps == {"idle"} \cup Running \cup Ended

TypeOK ==
    /\ product \in Product
    /\ order \in [Orders -> OrderRecord]
    /\ balance \in [Users -> Nat]
    /\ enabled \subseteq Users
    /\ tally \in [Orders -> Tally]
    /\ pc \in [Orders -> Steps]
    /\ copy \in [Orders -> Product]
    /\ editor \in [open : BOOLEAN, form : Product]
    /\ rolledBack \subseteq Orders /\ unsaved \subseteq Orders
    /\ earlier \in [Orders -> SUBSET Orders]
    /\ edits \in Nat /\ crashes \in Nat /\ faults \in Nat /\ policyChanges \in Nat

Init ==
    /\ product = OpeningProduct
    /\ order = [o \in Orders |-> [status |-> "none", total |-> 0]]
    /\ balance = OpeningBalance
    /\ enabled = Users
    /\ tally = [o \in Orders |-> [buy |-> 0, refund |-> 0, delivery |-> 0]]
    /\ pc = [o \in Orders |-> "idle"]
    /\ copy = [o \in Orders |-> OpeningProduct]
    /\ editor = [open |-> FALSE, form |-> OpeningProduct]
    /\ rolledBack = {} /\ unsaved = {} /\ earlier = [o \in Orders |-> {}]
    /\ edits = 0 /\ crashes = 0 /\ faults = 0 /\ policyChanges = 0

-----------------------------------------------------------------------------
(* Helpers *)

Goto(o, step) == pc' = [pc EXCEPT ![o] = step]
Limited(p) == p.stock >= 0
Total(o) == copy[o].price * Quantity[o]

\* CountUserProductPurchased: requested and delivered orders count.
Held(S) ==
    SumFunctionOnSet(Quantity, {o \in S : order[o].status \in {"requested", "delivered"}})
Purchases(u) == {o \in Orders : Buyer[o] = u}

\* GetMyWallet empties the wallet of a user without the capability.
VisibleBalance(u) == IF u \in enabled THEN balance[u] ELSE 0

\* A statement of the database fails and has no effect.
Fault == faults < MaxFaults /\ faults' = faults + 1

-----------------------------------------------------------------------------
(* BuyProduct *)

\* The product is read once and carried to the end of the call.
ReadProduct(o) ==
    /\ pc[o] = "idle"
    /\ copy' = [copy EXCEPT ![o] = product]
    /\ Goto(o, IF product.onSale /\ (Limited(product) => product.stock >= Quantity[o])
               THEN "limit" ELSE "failed")
    /\ earlier' = [earlier EXCEPT ![o] = {q \in Purchases(Buyer[o]) : pc[q] \in Ended}]
    /\ UNCHANGED <<product, order, balance, enabled, tally, editor, rolledBack, unsaved, boundVars>>

\* Mutant of CheckLimit: the pieces of this call are not counted.
CheckLimitBefore(o) ==
    /\ pc[o] = "limit"
    /\ Goto(o, IF copy[o].maxPerUser > 0
                  /\ Held(Purchases(Buyer[o])) > copy[o].maxPerUser
               THEN "failed" ELSE "balance")
    /\ UNCHANGED <<product, order, balance, enabled, tally, copy, editor, historyVars, boundVars>>

CheckLimit(o) ==
    /\ pc[o] = "limit"
    /\ Goto(o, IF copy[o].maxPerUser > 0
                  /\ Held(Purchases(Buyer[o])) + Quantity[o] > copy[o].maxPerUser
               THEN "failed" ELSE "balance")
    /\ UNCHANGED <<product, order, balance, enabled, tally, copy, editor, historyVars, boundVars>>

CheckBalance(o) ==
    /\ pc[o] = "balance"
    /\ balance' = [balance EXCEPT ![Buyer[o]] = VisibleBalance(Buyer[o])]
    /\ Goto(o, IF VisibleBalance(Buyer[o]) < Total(o) THEN "failed" ELSE "place")
    /\ UNCHANGED <<product, order, enabled, tally, copy, editor, historyVars, boundVars>>

\* Mutant of PlaceOrder: the stock is written back from the copy of the product.
PlaceOrderFromCopy(o) ==
    /\ pc[o] = "place"
    /\ Limited(copy[o]) => product.stock >= Quantity[o]
    /\ product' = [copy[o] EXCEPT !.stock = IF Limited(copy[o]) THEN @ - Quantity[o] ELSE @]
    /\ order' = [order EXCEPT ![o] = [status |-> "requested", total |-> Total(o)]]
    /\ Goto(o, "debit")
    /\ UNCHANGED <<balance, enabled, tally, copy, editor, historyVars, boundVars>>

\* The first transaction: DecrStockTx tests the stock again, in its WHERE.
PlaceOrder(o) ==
    /\ pc[o] = "place"
    /\ Limited(copy[o]) => product.stock >= Quantity[o]
    /\ product' = IF Limited(copy[o]) THEN [product EXCEPT !.stock = @ - Quantity[o]] ELSE product
    /\ order' = [order EXCEPT ![o] = [status |-> "requested", total |-> Total(o)]]
    /\ Goto(o, "debit")
    /\ UNCHANGED <<balance, enabled, tally, copy, editor, historyVars, boundVars>>

SoldOut(o) ==
    /\ pc[o] = "place"
    /\ Limited(copy[o]) /\ product.stock < Quantity[o]
    /\ Goto(o, "failed")
    /\ UNCHANGED <<product, order, balance, enabled, tally, copy, editor, historyVars, boundVars>>

\* Up to the commit of the order an error of the database ends the call without effect.
CallFails(o) ==
    /\ pc[o] \in {"limit", "balance", "place"}
    /\ Fault
    /\ Goto(o, "failed")
    /\ UNCHANGED <<product, order, balance, enabled, tally, copy, editor, historyVars,
                   edits, crashes, policyChanges>>

\* The second transaction, DebitUser.
CanDebit(o) ==
    /\ Total(o) > 0
    /\ Buyer[o] \in enabled
    /\ balance[Buyer[o]] >= Total(o)

\* Mutant of Debit: one unit is charged whatever the quantity.
DebitOneUnit(o) ==
    /\ pc[o] = "debit"
    /\ CanDebit(o)
    /\ balance' = [balance EXCEPT ![Buyer[o]] = @ - copy[o].price]
    /\ tally' = [tally EXCEPT ![o].buy = @ + 1]
    /\ Goto(o, "bought")
    /\ UNCHANGED <<product, order, enabled, copy, editor, historyVars, boundVars>>

Debit(o) ==
    /\ pc[o] = "debit"
    /\ CanDebit(o)
    /\ balance' = [balance EXCEPT ![Buyer[o]] = @ - Total(o)]
    /\ tally' = [tally EXCEPT ![o].buy = @ + 1]
    /\ Goto(o, "bought")
    /\ UNCHANGED <<product, order, enabled, copy, editor, historyVars, boundVars>>

\* Any error of DebitUser starts the roll-back.
DebitFails(o) ==
    /\ pc[o] = "debit"
    /\ (~CanDebit(o) /\ UNCHANGED faults) \/ Fault
    /\ Goto(o, "restock")
    /\ UNCHANGED <<product, order, balance, enabled, tally, copy, editor, historyVars,
                   edits, crashes, policyChanges>>

\* Mutant of RollbackStock: a stock that cannot be restored ends the roll-back.
RollbackStockOrReturn(o) ==
    /\ pc[o] = "restock"
    /\ \/ /\ product' = IF Limited(copy[o])
                         THEN [copy[o] EXCEPT !.stock = @ + Quantity[o]] ELSE product
          /\ Goto(o, "reject")
          /\ UNCHANGED faults
       \/ Limited(copy[o]) /\ Fault /\ Goto(o, "failed") /\ UNCHANGED product
    /\ rolledBack' = rolledBack \cup {o}
    /\ UNCHANGED <<order, balance, enabled, tally, copy, editor, unsaved, earlier,
                   edits, crashes, policyChanges>>

\* rollbackOrder saves the whole product it read before the order was placed, with the
\* quantity added on top. A failure is logged, and the order is rejected all the same.
RollbackStock(o) ==
    /\ pc[o] = "restock"
    /\ \/ /\ product' = IF Limited(copy[o])
                         THEN [copy[o] EXCEPT !.stock = @ + Quantity[o]] ELSE product
          /\ UNCHANGED faults
       \/ Limited(copy[o]) /\ Fault /\ UNCHANGED product
    /\ rolledBack' = rolledBack \cup {o}
    /\ Goto(o, "reject")
    /\ UNCHANGED <<order, balance, enabled, tally, copy, editor, unsaved, earlier,
                   edits, crashes, policyChanges>>

\* It then saves the whole order, whatever happened to the row meanwhile. A failure is
\* logged, and the order stays as it is.
RollbackStatus(o) ==
    /\ pc[o] = "reject"
    /\ \/ /\ order' = [order EXCEPT ![o] = [status |-> "rejected", total |-> Total(o)]]
          /\ UNCHANGED <<faults, unsaved>>
       \/ Fault /\ unsaved' = unsaved \cup {o} /\ UNCHANGED order
    /\ Goto(o, "failed")
    /\ UNCHANGED <<product, balance, enabled, tally, copy, editor, rolledBack, earlier,
                   edits, crashes, policyChanges>>

-----------------------------------------------------------------------------
(* Administrators *)

\* What a delivery pays its reviewer.
AwardTo(reviewer) == IF reviewer \in Admins THEN Award ELSE 0

\* Mutant of AdminDeliverOrder: the status is not tested under the lock.
DeliverAnyOrder(o, reviewer) ==
    /\ order[o].status # "none"
    /\ tally[o].delivery < 2
    /\ AwardTo(reviewer) > 0 => reviewer \in enabled
    /\ order' = [order EXCEPT ![o].status = "delivered"]
    /\ balance' = [balance EXCEPT ![reviewer] = @ + AwardTo(reviewer)]
    /\ tally' = [tally EXCEPT ![o].delivery = @ + 1]
    /\ UNCHANGED <<product, enabled, requestVars, editor, historyVars, boundVars>>

\* The award goes to the reviewing administrator in the same transaction, so a
\* reviewer whose own wallet is disabled cannot deliver.
AdminDeliverOrder(o, reviewer) ==
    /\ order[o].status = "requested"
    /\ AwardTo(reviewer) > 0 => reviewer \in enabled
    /\ order' = [order EXCEPT ![o].status = "delivered"]
    /\ balance' = [balance EXCEPT ![reviewer] = @ + AwardTo(reviewer)]
    /\ tally' = [tally EXCEPT ![o].delivery = @ + 1]
    /\ UNCHANGED <<product, enabled, requestVars, editor, historyVars, boundVars>>

\* Mutant of AdminRejectOrder: nothing is refunded.
RejectUnrefunded(o) ==
    /\ order[o].status = "requested"
    /\ product' = IF Limited(product) THEN [product EXCEPT !.stock = @ + Quantity[o]] ELSE product
    /\ order' = [order EXCEPT ![o].status = "rejected"]
    /\ UNCHANGED <<balance, enabled, tally, requestVars, editor, historyVars, boundVars>>

\* Stock, refund and status in one transaction; a refund to a disabled wallet
\* fails the whole rejection, an order of price 0 has none.
AdminRejectOrder(o) ==
    LET total == order[o].total
    IN  /\ order[o].status = "requested"
        /\ total > 0 => Buyer[o] \in enabled
        /\ product' = IF Limited(product) THEN [product EXCEPT !.stock = @ + Quantity[o]] ELSE product
        /\ balance' = [balance EXCEPT ![Buyer[o]] = @ + total]
        /\ tally' = [tally EXCEPT ![o].refund = IF total > 0 THEN @ + 1 ELSE @]
        /\ order' = [order EXCEPT ![o].status = "rejected"]
        /\ UNCHANGED <<enabled, requestVars, editor, historyVars, boundVars>>

\* AdminUpdateProduct reads the row, changes the fields given and saves all of it.
LoadForm ==
    /\ ~editor.open
    /\ edits < MaxEdits
    /\ edits' = edits + 1
    /\ editor' = [open |-> TRUE, form |-> product]
    /\ UNCHANGED <<product, order, balance, enabled, tally, requestVars, historyVars,
                   crashes, faults, policyChanges>>

SaveForm ==
    /\ editor.open
    /\ \E stock \in {editor.form.stock} \cup EditStocks, price \in {editor.form.price} \cup EditPrices,
          onSale \in BOOLEAN, limit \in {editor.form.maxPerUser} \cup EditLimits :
            product' = [stock |-> stock, price |-> price, onSale |-> onSale, maxPerUser |-> limit]
    /\ editor' = [editor EXCEPT !.open = FALSE]
    /\ UNCHANGED <<order, balance, enabled, tally, requestVars, historyVars, boundVars>>

\* A policy update takes the capability away and sweeps the wallet, or grants it.
PolicyChange(u) ==
    /\ policyChanges < MaxPolicyChanges
    /\ policyChanges' = policyChanges + 1
    /\ IF u \in enabled
       THEN enabled' = enabled \ {u} /\ balance' = [balance EXCEPT ![u] = 0]
       ELSE enabled' = enabled \cup {u} /\ UNCHANGED balance
    /\ UNCHANGED <<product, order, tally, requestVars, editor, historyVars,
                   edits, crashes, faults>>

\* Every call under way dies between two transactions and is never resumed.
Crash ==
    /\ crashes < MaxCrashes
    /\ crashes' = crashes + 1
    /\ pc' = [o \in Orders |-> IF pc[o] \in Running THEN "crashed" ELSE pc[o]]
    /\ editor' = [editor EXCEPT !.open = FALSE]
    /\ UNCHANGED <<product, order, balance, enabled, tally, copy, historyVars,
                   edits, faults, policyChanges>>

-----------------------------------------------------------------------------
\* What a call that was started does next.
Continue(o) ==
    \/ CheckLimit(o) \/ CheckBalance(o) \/ PlaceOrder(o) \/ SoldOut(o) \/ CallFails(o)
    \/ Debit(o) \/ DebitFails(o) \/ RollbackStock(o) \/ RollbackStatus(o)

Review(o) == (\E reviewer \in Reviewers : AdminDeliverOrder(o, reviewer)) \/ AdminRejectOrder(o)

Next ==
    \/ \E o \in Orders : ReadProduct(o) \/ Continue(o) \/ Review(o)
    \/ LoadForm \/ SaveForm
    \/ \E u \in Users : PolicyChange(u)
    \/ Crash

Spec == Init /\ [][Next]_vars
FairSpec == Spec /\ \A o \in Orders : WF_vars(Continue(o))

-----------------------------------------------------------------------------
(* Properties *)

\* An order is delivered once or refunded once, never both, however many
\* reviewers act on it and whatever the buying call still writes to it.
OneOutcome == \A o \in Orders : tally[o].delivery + tally[o].refund <= 1

\* A buyer whose order ends rejected has not paid for it: it was never debited,
\* or the debit was given back, even when the rejection came first.
RejectedIsNotCharged ==
    \A o \in Orders : order[o].status = "rejected" /\ pc[o] \notin Running =>
        tally[o].buy <= tally[o].refund

\* As long as nobody edits the product and no roll-back wrote it, the stock and
\* the pieces under order add up to the opening stock.
StockIsConserved ==
    Limited(OpeningProduct) /\ edits = 0 /\ rolledBack = {} =>
        product.stock + Held(Orders) = OpeningProduct.stock

\* The limit is counted outside the transaction of the order, so calls of one user that overlap
\* do not see each other. All others do: what an order adds to the user's earlier purchases is
\* within the limit its call read, whatever overlaps, is edited, reviewed or rolled back.
LimitCountsEarlierPurchases ==
    \A o \in Orders :
        order[o].status \in {"requested", "delivered"} /\ copy[o].maxPerUser > 0 =>
            Held(earlier[o] \cup {o}) <= copy[o].maxPerUser

\* What an order gave back to its buyer, less what it cost.
Returned == [o \in Orders |-> (tally[o].refund - tally[o].buy) * order[o].total]

\* Coins move with orders only: what a user holds is the opening balance minus
\* the orders debited plus those refunded, for users who receive no award and
\* never lost the capability.
BuyerBalanceIsAccounted ==
    \A u \in Users \ Admins : policyChanges = 0 =>
        balance[u] = OpeningBalance[u] + SumFunctionOnSet(Returned, Purchases(u))

\* A rejection is final: no later step of the call or of a reviewer revives the order.
RejectionIsFinal ==
    [][\A o \in Orders : order[o].status = "rejected" => order'[o].status = "rejected"]_vars

\* An order whose debit failed does not stay open for delivery, unless the server dies or the
\* statement that rejects it fails: neither a stock that cannot be restored nor anything other
\* callers and reviewers do stops the rejection.
FailedDebitIsRejected ==
    \A o \in Orders : pc[o] = "restock" ~>
        order[o].status = "rejected" \/ pc[o] = "crashed" \/ o \in unsaved

-----------------------------------------------------------------------------
(* What the documentation says and the code does not keep *)

\* "requested: ordered, the wallet has been debited", once no call is under way.
RequestedIsDebited ==
    \A o \in Orders : order[o].status = "requested" /\ pc[o] \notin Running => tally[o].buy = 1

\* "rejected: the administrator rejected it", so nothing was delivered.
RejectedIsUndelivered ==
    \A o \in Orders : order[o].status = "rejected" => tally[o].delivery = 0

\* A refund gives back a debit: once its call has returned a refunded order had one.
RefundedWasDebited ==
    \A o \in Orders : tally[o].refund > 0 /\ pc[o] \notin Running => tally[o].buy > 0

\* The failed purchase restores the stock it took.
RollbackRestoresStock ==
    Limited(OpeningProduct) /\ (\A o \in Orders : pc[o] \notin Running) =>
        product.stock + Held(Orders) = OpeningProduct.stock

\* Without edits nobody holds more pieces than the limit on the product page.
LimitIsKept ==
    \A u \in Users : edits = 0 /\ OpeningProduct.maxPerUser > 0 =>
        Held(Purchases(u)) <= OpeningProduct.maxPerUser

\* "debit failed: reject the order", also when a statement fails.
FailedDebitIsAlwaysRejected ==
    \A o \in Orders : pc[o] = "restock" ~> order[o].status = "rejected" \/ pc[o] = "crashed"
=============================================================================
