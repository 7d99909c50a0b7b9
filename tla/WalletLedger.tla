---------------------------- MODULE WalletLedger ----------------------------
(***************************************************************************)
(* What the fuxi-coin wallet promises to the modules that move money with  *)
(* it (server/internal/service/sys_wallet.go): every change of a balance   *)
(* is one atomic posting that leaves a ledger row carrying the balance it  *)
(* produced, or the zeroing of a wallet whose owner lost the capability.   *)
(* Amounts are whole coins (the documented price unit).                    *)
(***************************************************************************)
EXTENDS Integers, Sequences

CONSTANTS Users,            \* wallet owners
          OpeningBalance    \* the balance of each wallet when we start to look

ASSUME OpeningBalanceAssumption == OpeningBalance \in [Users -> Nat]

VARIABLES balance,          \* system_wallet.balance
          ledger            \* wallet_transaction rows of each user, in commit order

walletVars == <<balance, ledger>>

\* A debit must be covered; a delta (credit, correction, admin adjustment) is
\* clamped at an empty wallet.
RowKinds == {"delta", "debit"}
LedgerRow == [kind : RowKinds, amount : Int, after : Nat]

AtLeastZero(n) == IF n < 0 THEN 0 ELSE n

Post(u, kind, amount) ==
    LET after == AtLeastZero(balance[u] + amount)
    IN  /\ kind = "debit" => balance[u] + amount >= 0
        /\ balance' = [balance EXCEPT ![u] = after]
        /\ ledger' = [ledger EXCEPT ![u] =
                        Append(@, [kind |-> kind, amount |-> amount, after |-> after])]

\* The only change that leaves no row.
Zero(u) ==
    /\ balance' = [balance EXCEPT ![u] = 0]
    /\ UNCHANGED ledger

WalletInit ==
    /\ balance = OpeningBalance
    /\ ledger = [u \in Users |-> <<>>]

\* The posted row is read off the new ledger, so that the action quantifies
\* over users only.
PostNewest(u) ==
    /\ ledger'[u] # <<>>
    /\ LET row == ledger'[u][Len(ledger'[u])]
       IN  Post(u, row.kind, row.amount)

WalletNext == \E u \in Users : PostNewest(u) \/ Zero(u)

WalletSpec == WalletInit /\ [][WalletNext]_walletVars

=============================================================================
