----------------------------- MODULE SysWallet -----------------------------
(***************************************************************************)
(* The fuxi-coin wallet service at the grain of its SQL statements         *)
(* (server/internal/service/sys_wallet.go, repository/sys_wallet.go).      *)
(* Several requests run at once against PostgreSQL in READ COMMITTED: a    *)
(* transaction checks the wallet capability of the user's corporation,     *)
(* takes the wallet row FOR UPDATE, and commits the new balance with its   *)
(* ledger row. Outside any transaction, the readers and the sweep after a  *)
(* policy update write a zero into the wallets of users without the        *)
(* capability; those UPDATEs only wait for the row lock.                   *)
(***************************************************************************)
EXTENDS WalletLedger, FiniteSets

CONSTANTS Procs,            \* request handlers running in the server
          NoProc,           \* the null lock holder
          Ops,              \* the operations the handlers may be asked for
          Policies,         \* sets of users a policy update can leave enabled
          MaxOps,           \* bound: operations started
          MaxCorpChanges,   \* bound: users whose main character changes corporation
          MaxCrashes        \* bound: crashes of the server

(***************************************************************************)
(* add/deduct/set are AdminAdjust; credit covers CreditUser and every      *)
(* positive ApplyWalletDelta, correct its negative use (the PAP re-issue), *)
(* recruit the recruitment reward, which skips the capability; read is     *)
(* GetMyWallet, AdminGetWallet and one row of AdminListWallets.            *)
(***************************************************************************)
TxKinds == {"add", "deduct", "set", "credit", "correct", "recruit", "debit"}
OpKinds == TxKinds \cup {"read"}
Op == [kind : OpKinds, user : Users, amount : Nat \ {0}]

ASSUME SysWalletAssumption ==
    /\ NoProc \notin Procs
    /\ Ops \subseteq Op
    /\ Policies \subseteq SUBSET Users
    /\ MaxOps \in Nat /\ MaxCorpChanges \in Nat /\ MaxCrashes \in Nat

VARIABLES enabled,          \* users with wallet.user.enabled
          wasOff,           \* history: users who were ever without it
          rowLock,          \* the transaction that holds each wallet row
          pc, op, seen,     \* each handler's step, operation and balance read
          todo,             \* wallets a sweep has still to look at
          started, corpChanges, crashes

procVars == <<pc, op, seen, todo>>
boundVars == <<started, corpChanges, crashes>>
vars == <<walletVars, enabled, wasOff, rowLock, procVars, boundVars>>

Steps == {"idle", "begin", "checked", "locked", "ready",      \* a transaction
          "read", "zero",                                     \* a reader
          "list", "sweep", "sweepZero"}                       \* a policy update
NoOp == [kind |-> "none"]
AnyOp == Op \cup [kind : {"policy"}, user : Users] \cup {NoOp}

TypeOK ==
    /\ balance \in [Users -> Nat]
    /\ ledger \in [Users -> Seq(LedgerRow)]
    /\ enabled \subseteq Users /\ wasOff \subseteq Users
    /\ rowLock \in [Users -> Procs \cup {NoProc}]
    /\ pc \in [Procs -> Steps]
    /\ op \in [Procs -> AnyOp]
    /\ seen \in [Procs -> Nat]
    /\ todo \in [Procs -> SUBSET Users]
    /\ started \in Nat /\ corpChanges \in Nat /\ crashes \in Nat

Init ==
    /\ WalletInit
    /\ enabled = Users
    /\ wasOff = {}
    /\ rowLock = [u \in Users |-> NoProc]
    /\ pc = [p \in Procs |-> "idle"]
    /\ op = [p \in Procs |-> NoOp]
    /\ seen = [p \in Procs |-> 0]
    /\ todo = [p \in Procs |-> {}]
    /\ started = 0 /\ corpChanges = 0 /\ crashes = 0

-----------------------------------------------------------------------------
(* Helpers *)

Goto(p, step) == pc' = [pc EXCEPT ![p] = step]

\* A handler returns: nothing of its stack survives.
Return(p) ==
    /\ Goto(p, "idle")
    /\ op' = [op EXCEPT ![p] = NoOp]
    /\ seen' = [seen EXCEPT ![p] = 0]
    /\ UNCHANGED todo

\* Rollback or commit: the row goes back to whoever waits for it.
Release(u) == rowLock' = [rowLock EXCEPT ![u] = NoProc]

\* The signed amount a transaction records.
Delta(o, old) ==
    CASE o.kind = "set" -> o.amount - old
      [] o.kind \in {"deduct", "correct", "debit"} -> -o.amount
      [] OTHER -> o.amount

\* AdminAdjust(deduct) and DebitUser refuse what the wallet cannot cover;
\* ApplyWalletDelta clamps instead.
MustCover(o) == o.kind \in {"deduct", "debit"}

-----------------------------------------------------------------------------
(* Transactions *)

Start(p, o) ==
    /\ pc[p] = "idle"
    /\ started < MaxOps
    /\ started' = started + 1
    /\ op' = [op EXCEPT ![p] = o]
    /\ IF o.kind = "read"
       THEN /\ Goto(p, "read")
            /\ seen' = [seen EXCEPT ![p] = balance[o.user]]
       ELSE /\ Goto(p, "begin")
            /\ UNCHANGED seen
    /\ UNCHANGED <<walletVars, enabled, wasOff, rowLock, todo, corpChanges, crashes>>

\* The capability is read before the wallet row is locked.
CheckCapability(p) ==
    /\ pc[p] = "begin"
    /\ op[p].kind = "recruit" \/ op[p].user \in enabled
    /\ Goto(p, "checked")
    /\ UNCHANGED <<walletVars, enabled, wasOff, rowLock, op, seen, todo, boundVars>>

\* Without the capability the wallet is locked and zeroed inside the transaction
\* and an error is returned: the rollback undoes the zeroing and frees the row.
RefuseDisabled(p) ==
    /\ pc[p] = "begin"
    /\ op[p].kind # "recruit" /\ op[p].user \notin enabled
    /\ rowLock[op[p].user] = NoProc
    /\ Return(p)
    /\ UNCHANGED <<walletVars, enabled, wasOff, rowLock, boundVars>>

\* Mutant of LockWallet: a plain SELECT, without FOR UPDATE.
LockWalletPlain(p) ==
    /\ pc[p] = "checked"
    /\ seen' = [seen EXCEPT ![p] = balance[op[p].user]]
    /\ Goto(p, "locked")
    /\ UNCHANGED <<walletVars, enabled, wasOff, rowLock, op, todo, boundVars>>

LockWallet(p) ==
    /\ pc[p] = "checked"
    /\ rowLock[op[p].user] = NoProc
    /\ rowLock' = [rowLock EXCEPT ![op[p].user] = p]
    /\ seen' = [seen EXCEPT ![p] = balance[op[p].user]]
    /\ Goto(p, "locked")
    /\ UNCHANGED <<walletVars, enabled, wasOff, op, todo, boundVars>>

\* Mutant of Verify: nobody tests that the wallet covers the amount.
VerifyUncovered(p) ==
    /\ pc[p] = "locked"
    /\ op[p].kind = "debit" => op[p].user \in enabled
    /\ Goto(p, "ready")
    /\ UNCHANGED <<walletVars, enabled, wasOff, rowLock, op, seen, todo, boundVars>>

\* Under the lock: the covering check of deduct and debit, and for a debit the
\* second capability check that ApplyWalletDelta makes.
Verify(p) ==
    /\ pc[p] = "locked"
    /\ MustCover(op[p]) => seen[p] >= op[p].amount
    /\ op[p].kind = "debit" => op[p].user \in enabled
    /\ Goto(p, "ready")
    /\ UNCHANGED <<walletVars, enabled, wasOff, rowLock, op, seen, todo, boundVars>>

\* Mutant of Abort: an early return that leaves the transaction open.
AbortOpen(p) ==
    /\ pc[p] = "locked"
    /\ \/ MustCover(op[p]) /\ seen[p] < op[p].amount
       \/ op[p].kind = "debit" /\ op[p].user \notin enabled
    /\ Return(p)
    /\ UNCHANGED <<walletVars, enabled, wasOff, rowLock, boundVars>>

Abort(p) ==
    /\ pc[p] = "locked"
    /\ \/ MustCover(op[p]) /\ seen[p] < op[p].amount
       \/ op[p].kind = "debit" /\ op[p].user \notin enabled
    /\ Release(op[p].user)
    /\ Return(p)
    /\ UNCHANGED <<walletVars, enabled, wasOff, boundVars>>

\* Mutant of Commit: the row keeps the balance before the clamp.
CommitUnclampedRow(p) ==
    LET u == op[p].user
        amount == Delta(op[p], seen[p])
    IN  /\ pc[p] = "ready"
        /\ balance' = [balance EXCEPT ![u] = AtLeastZero(seen[p] + amount)]
        /\ ledger' = [ledger EXCEPT ![u] =
                        Append(@, [kind |-> IF MustCover(op[p]) THEN "debit" ELSE "delta",
                                   amount |-> amount, after |-> seen[p] + amount])]
        /\ Release(u)
        /\ Return(p)
        /\ UNCHANGED <<enabled, wasOff, boundVars>>

\* The new balance is computed from the balance read under the lock.
Commit(p) ==
    LET u == op[p].user
        amount == Delta(op[p], seen[p])
        after == AtLeastZero(seen[p] + amount)
    IN  /\ pc[p] = "ready"
        /\ balance' = [balance EXCEPT ![u] = after]
        /\ ledger' = [ledger EXCEPT ![u] =
                        Append(@, [kind |-> IF MustCover(op[p]) THEN "debit" ELSE "delta",
                                   amount |-> amount, after |-> after])]
        /\ Release(u)
        /\ Return(p)
        /\ UNCHANGED <<enabled, wasOff, boundVars>>

-----------------------------------------------------------------------------
(* Readers and the sweep: statements outside any transaction *)

\* getWalletWithCapabilityEnforced after its unlocked read.
CheckOnRead(p) ==
    /\ pc[p] = "read"
    /\ IF op[p].user \notin enabled /\ seen[p] # 0
       THEN Goto(p, "zero") /\ UNCHANGED <<op, seen, todo>>
       ELSE Return(p)
    /\ UNCHANGED <<walletVars, enabled, wasOff, rowLock, boundVars>>

\* UpdateBalance(user, 0): unconditional, it only waits for the row lock.
ZeroOnRead(p) ==
    /\ pc[p] = "zero"
    /\ rowLock[op[p].user] = NoProc
    /\ Zero(op[p].user)
    /\ Return(p)
    /\ UNCHANGED <<enabled, wasOff, rowLock, boundVars>>

\* UpdateCorporationAccessPolicies commits the policy, then sweeps.
UpdatePolicies(p, policy) ==
    /\ pc[p] = "idle"
    /\ started < MaxOps
    /\ started' = started + 1
    /\ enabled' = policy
    /\ wasOff' = wasOff \cup (Users \ policy)
    /\ Goto(p, "list")
    /\ UNCHANGED <<walletVars, rowLock, op, seen, todo, corpChanges, crashes>>

ListPositive(p) ==
    /\ pc[p] = "list"
    /\ todo' = [todo EXCEPT ![p] = {u \in Users : balance[u] > 0}]
    /\ Goto(p, "sweep")
    /\ UNCHANGED <<walletVars, enabled, wasOff, rowLock, op, seen, boundVars>>

SweepUser(p, u) ==
    /\ pc[p] = "sweep"
    /\ u \in todo[p]
    /\ todo' = [todo EXCEPT ![p] = @ \ {u}]
    /\ IF u \in enabled
       THEN UNCHANGED <<pc, op>>
       ELSE /\ Goto(p, "sweepZero")
            /\ op' = [op EXCEPT ![p] = [kind |-> "policy", user |-> u]]
    /\ UNCHANGED <<walletVars, enabled, wasOff, rowLock, seen, boundVars>>

SweepZero(p) ==
    /\ pc[p] = "sweepZero"
    /\ rowLock[op[p].user] = NoProc
    /\ Zero(op[p].user)
    /\ Goto(p, "sweep")
    /\ UNCHANGED <<enabled, wasOff, rowLock, op, seen, todo, boundVars>>

SweepDone(p) ==
    /\ pc[p] = "sweep"
    /\ todo[p] = {}
    /\ Return(p)
    /\ UNCHANGED <<walletVars, enabled, wasOff, rowLock, boundVars>>

-----------------------------------------------------------------------------
(* The environment *)

\* An ESI refresh moves a user's main character in or out of a corporation
\* with the capability; nothing sweeps then.
CorpChange(u) ==
    /\ corpChanges < MaxCorpChanges
    /\ corpChanges' = corpChanges + 1
    /\ enabled' = IF u \in enabled THEN enabled \ {u} ELSE enabled \cup {u}
    /\ wasOff' = wasOff \cup (Users \ enabled')
    /\ UNCHANGED <<walletVars, rowLock, procVars, started, crashes>>

\* The database rolls every open transaction back.
Crash ==
    /\ crashes < MaxCrashes
    /\ crashes' = crashes + 1
    /\ rowLock' = [u \in Users |-> NoProc]
    /\ pc' = [p \in Procs |-> "idle"]
    /\ op' = [p \in Procs |-> NoOp]
    /\ seen' = [p \in Procs |-> 0]
    /\ todo' = [p \in Procs |-> {}]
    /\ UNCHANGED <<walletVars, enabled, wasOff, started, corpChanges>>

-----------------------------------------------------------------------------
Transact(p) ==
    \/ CheckCapability(p) \/ RefuseDisabled(p) \/ LockWallet(p)
    \/ Verify(p) \/ Abort(p) \/ Commit(p)

ReadOrSweep(p) ==
    \/ CheckOnRead(p) \/ ZeroOnRead(p)
    \/ ListPositive(p) \/ (\E u \in Users : SweepUser(p, u))
    \/ SweepZero(p) \/ SweepDone(p)

\* A handler that has been started goes on by itself.
Continue(p) == Transact(p) \/ ReadOrSweep(p)

Next ==
    \/ \E p \in Procs :
        \/ \E o \in Ops : Start(p, o)
        \/ \E policy \in Policies : UpdatePolicies(p, policy)
        \/ Continue(p)
    \/ \E u \in Users : CorpChange(u)
    \/ Crash

Spec == Init /\ [][Next]_vars
FairSpec == Spec /\ \A p \in Procs : WF_vars(Continue(p))

-----------------------------------------------------------------------------
(* Properties *)

\* Every change of a balance is a posting that chains on the balance before it
\* and never overdraws a debit, or the zeroing of a wallet: the statement-level
\* service implements the atomic ledger.
ImplementsLedger == WalletSpec

\* What a transaction read under FOR UPDATE is still the balance when it writes:
\* no other transaction, reader or sweep comes in between.
LockedReadIsCurrent ==
    \A p \in Procs : pc[p] \in {"locked", "ready"} =>
        /\ rowLock[op[p].user] = p
        /\ seen[p] = balance[op[p].user]

\* As long as a user never lost the capability the newest ledger row explains
\* the balance: what statements show is what the wallet holds.
LedgerExplainsBalance ==
    \A u \in Users \ wasOff :
        balance[u] = IF ledger[u] = <<>> THEN OpeningBalance[u]
                     ELSE ledger[u][Len(ledger[u])].after

\* Every request ends, whatever the others hold.
EveryOperationEnds == \A p \in Procs : pc[p] # "idle" ~> pc[p] = "idle"

-----------------------------------------------------------------------------
(* What the documentation says and the code does not keep *)

\* commerce.md: without wallet.user.enabled the balance is always 0 and every
\* change is refused. Stated for the moments when no request is under way and
\* after a policy update has swept.
DisabledWalletIsEmpty ==
    (\A p \in Procs : pc[p] = "idle") =>
        \A u \in Users \ enabled : balance[u] = 0
=============================================================================
