-------------------------- MODULE SysWalletProofs ---------------------------
(***************************************************************************)
(* Theorems about SysWallet, for every set of users, handlers, operations  *)
(* and policies and every bound. The refinement to WalletLedger rests on   *)
(* LockedReadIsCurrent: a transaction computes the new balance from a copy *)
(* it read under FOR UPDATE, so the copy must still be the balance when it *)
(* commits. To keep that true the invariant needs what each step knows of  *)
(* its operation, and that a debit about to commit is covered.             *)
(***************************************************************************)
EXTENDS SysWallet, TLAPS

InTx == {"begin", "checked", "locked", "ready"}

\* What a handler's step says about the operation it works on.
OpFits ==
    \A p \in Procs :
        /\ pc[p] \in InTx => op[p] \in Op
        /\ pc[p] \in InTx \cup {"read", "zero", "sweepZero"} => op[p].user \in Users

\* A debit or deduction that is ready to commit is covered by what it read.
ReadyIsCovered ==
    \A p \in Procs : pc[p] = "ready" /\ MustCover(op[p]) => seen[p] >= op[p].amount

\* Only wallets of users who lost the capability are about to be zeroed.
OnlyOffIsZeroed ==
    /\ Users \ enabled \subseteq wasOff
    /\ \A p \in Procs : pc[p] \in {"zero", "sweepZero"} => op[p].user \in wasOff

WalletInv ==
    /\ TypeOK
    /\ OpFits
    /\ LockedReadIsCurrent
    /\ ReadyIsCovered
    /\ OnlyOffIsZeroed

-----------------------------------------------------------------------------
(* Types *)

LEMMA AmountTypes ==
    /\ \A n \in Int : AtLeastZero(n) \in Nat
    /\ \A o \in Op, old \in Nat : Delta(o, old) \in Int
BY DEF AtLeastZero, Delta, Op

LEMMA RowTypes ==
    ASSUME NEW o \in Op, NEW old \in Nat
    PROVE  [kind |-> IF MustCover(o) THEN "debit" ELSE "delta", amount |-> Delta(o, old),
            after |-> AtLeastZero(old + Delta(o, old))] \in LedgerRow
<1>1. Delta(o, old) \in Int /\ old + Delta(o, old) \in Int
  BY AmountTypes
<1> QED BY <1>1, AmountTypes DEF LedgerRow, RowKinds

LEMMA ReturnTypes ==
    ASSUME TypeOK, NEW p \in Procs, Return(p)
    PROVE  /\ pc' \in [Procs -> Steps] /\ op' \in [Procs -> AnyOp]
           /\ seen' \in [Procs -> Nat] /\ todo' \in [Procs -> SUBSET Users]
BY DEF Return, Goto, TypeOK, Steps, AnyOp

LEMMA ReleaseTypes ==
    ASSUME TypeOK, NEW u, Release(u)
    PROVE  rowLock' \in [Users -> Procs \cup {NoProc}]
BY DEF Release, TypeOK

LEMMA TypeInit == Init => TypeOK
BY OpeningBalanceAssumption
   DEF Init, WalletInit, TypeOK, Steps, AnyOp

LEMMA TypeTransact ==
    ASSUME TypeOK, OpFits, NEW p \in Procs, Transact(p)
    PROVE  TypeOK'
<1> USE DEF TypeOK
<1>1. CASE CheckCapability(p)
  BY <1>1 DEF CheckCapability, Goto, Steps, walletVars, boundVars
<1>2. CASE RefuseDisabled(p)
  BY <1>2, ReturnTypes DEF RefuseDisabled, walletVars, boundVars
<1>3. CASE LockWallet(p)
  <2>1. op[p].user \in Users
    BY <1>3 DEF LockWallet, OpFits, InTx
  <2> QED BY <1>3, <2>1 DEF LockWallet, Goto, Steps, walletVars, boundVars
<1>4. CASE Verify(p)
  BY <1>4 DEF Verify, Goto, Steps, walletVars, boundVars
<1>5. CASE Abort(p)
  BY <1>5, ReturnTypes, ReleaseTypes DEF Abort, walletVars, boundVars
<1>6. CASE Commit(p)
  <2> DEFINE u == op[p].user
             old == seen[p]
             row == [kind |-> IF MustCover(op[p]) THEN "debit" ELSE "delta",
                     amount |-> Delta(op[p], old), after |-> AtLeastZero(old + Delta(op[p], old))]
  <2>1. u \in Users /\ op[p] \in Op /\ old \in Nat
    BY <1>6 DEF Commit, OpFits, InTx
  <2>2. row \in LedgerRow /\ row.after \in Nat
    BY <2>1, RowTypes DEF LedgerRow
  <2>3. balance' = [balance EXCEPT ![u] = row.after]
        /\ ledger' = [ledger EXCEPT ![u] = Append(ledger[u], row)]
    BY <1>6 DEF Commit
  <2> HIDE DEF u, old, row
  <2>4. balance' \in [Users -> Nat]
    BY <2>1, <2>2, <2>3
  <2>5. ledger' \in [Users -> Seq(LedgerRow)]
    BY <2>1, <2>2, <2>3
  <2> QED BY <1>6, <2>4, <2>5, ReturnTypes, ReleaseTypes DEF Commit, boundVars
<1> QED BY <1>1, <1>2, <1>3, <1>4, <1>5, <1>6 DEF Transact

LEMMA TypeReadOrSweep ==
    ASSUME TypeOK, OpFits, NEW p \in Procs, ReadOrSweep(p)
    PROVE  TypeOK'
<1> USE DEF TypeOK
<1>1. CASE CheckOnRead(p)
  BY <1>1, ReturnTypes DEF CheckOnRead, Goto, Steps, walletVars, boundVars
<1>2. CASE ZeroOnRead(p)
  BY <1>2, ReturnTypes DEF ZeroOnRead, Zero, boundVars
<1>3. CASE ListPositive(p)
  BY <1>3 DEF ListPositive, Goto, Steps, walletVars, boundVars
<1>4. ASSUME NEW u \in Users, SweepUser(p, u)
      PROVE  TypeOK'
  <2>1. todo' \in [Procs -> SUBSET Users]
    BY <1>4 DEF SweepUser
  <2>2. pc' \in [Procs -> Steps] /\ op' \in [Procs -> AnyOp]
    <3>1. [kind |-> "policy", user |-> u] \in AnyOp
      BY DEF AnyOp
    <3>2. CASE u \in enabled
      BY <1>4, <3>2 DEF SweepUser
    <3>3. CASE u \notin enabled
      BY <1>4, <3>1, <3>3 DEF SweepUser, Goto, Steps
    <3> QED BY <3>2, <3>3
  <2> QED BY <1>4, <2>1, <2>2 DEF SweepUser, walletVars, boundVars
<1>5. CASE SweepZero(p)
  BY <1>5 DEF SweepZero, Zero, Goto, Steps, boundVars
<1>6. CASE SweepDone(p)
  BY <1>6, ReturnTypes DEF SweepDone, walletVars, boundVars
<1> QED BY <1>1, <1>2, <1>3, <1>4, <1>5, <1>6 DEF ReadOrSweep

LEMMA TypeOthers ==
    ASSUME TypeOK,
           \/ \E p \in Procs, o \in Ops : Start(p, o)
           \/ \E p \in Procs, policy \in Policies : UpdatePolicies(p, policy)
           \/ \E u \in Users : CorpChange(u)
           \/ Crash
           \/ UNCHANGED vars
    PROVE  TypeOK'
<1> USE SysWalletAssumption DEF TypeOK
<1>1. ASSUME NEW p \in Procs, NEW o \in Ops, Start(p, o)
      PROVE  TypeOK'
  <2>1. o \in AnyOp /\ o.user \in Users
    BY DEF AnyOp, Op
  <2>2. seen' \in [Procs -> Nat] /\ pc' \in [Procs -> Steps]
    BY <1>1, <2>1 DEF Start, Goto, Steps
  <2>3. op' \in [Procs -> AnyOp] /\ started' \in Nat
    BY <1>1, <2>1 DEF Start
  <2>4. UNCHANGED <<balance, ledger, enabled, wasOff, rowLock, todo, corpChanges, crashes>>
    BY <1>1 DEF Start, walletVars
  <2> QED BY <2>2, <2>3, <2>4
<1>2. ASSUME NEW p \in Procs, NEW policy \in Policies, UpdatePolicies(p, policy)
      PROVE  TypeOK'
  BY <1>2 DEF UpdatePolicies, Goto, Steps, walletVars
<1>3. ASSUME NEW u \in Users, CorpChange(u)
      PROVE  TypeOK'
  BY <1>3 DEF CorpChange, walletVars, procVars
<1>4. CASE Crash
  BY <1>4 DEF Crash, Steps, AnyOp, walletVars
<1>5. CASE UNCHANGED vars
  BY <1>5 DEF vars, walletVars, procVars, boundVars
<1> QED BY <1>1, <1>2, <1>3, <1>4, <1>5

LEMMA TypeStep == TypeOK /\ OpFits /\ [Next]_vars => TypeOK'
BY TypeTransact, TypeReadOrSweep, TypeOthers DEF Next, Continue

-----------------------------------------------------------------------------
(* What the steps know *)

LEMMA ReturnFits ==
    ASSUME TypeOK, NEW p \in Procs, Return(p)
    PROVE  /\ pc'[p] = "idle"
           /\ \A q \in Procs \ {p} : pc'[q] = pc[q] /\ op'[q] = op[q] /\ seen'[q] = seen[q]
BY DEF Return, Goto, TypeOK

\* What one step of a handler does to its own place and to those of the others.
LEMMA OthersKeep ==
    ASSUME TypeOK, NEW p \in Procs, Continue(p)
    PROVE  \A q \in Procs \ {p} : pc'[q] = pc[q] /\ op'[q] = op[q] /\ seen'[q] = seen[q]
BY ReturnFits
   DEF Continue, Transact, ReadOrSweep, CheckCapability, RefuseDisabled, LockWallet, Verify, Abort,
       Commit, CheckOnRead, ZeroOnRead, ListPositive, SweepUser, SweepZero, SweepDone, Goto, TypeOK

LEMMA FitsStep == TypeOK /\ OpFits /\ [Next]_vars => OpFits'
<1> SUFFICES ASSUME TypeOK, OpFits, [Next]_vars PROVE OpFits'
  OBVIOUS
<1> USE DEF OpFits, InTx
<1>1. ASSUME NEW p \in Procs, Continue(p)
      PROVE  OpFits'
  <2>1. \/ pc'[p] \in {"idle", "list", "sweep"}
        \/ /\ pc[p] \in InTx /\ pc'[p] \in InTx /\ op'[p] = op[p]
        \/ /\ pc[p] = "read" /\ pc'[p] = "zero" /\ op'[p] = op[p]
        \/ /\ pc'[p] = "sweepZero" /\ op'[p].user \in Users
    <3>1. CASE Transact(p)
      BY <3>1, ReturnFits
         DEF Transact, CheckCapability, RefuseDisabled, LockWallet, Verify, Abort, Commit, Goto, TypeOK
    <3>2. CASE ReadOrSweep(p)
      BY <3>2, ReturnFits
         DEF ReadOrSweep, CheckOnRead, ZeroOnRead, ListPositive, SweepUser, SweepZero, SweepDone,
             Goto, TypeOK
    <3> QED BY <1>1, <3>1, <3>2 DEF Continue
  <2> QED BY <1>1, <2>1, OthersKeep
<1>2. ASSUME NEW p \in Procs, NEW o \in Ops, Start(p, o)
      PROVE  OpFits'
  BY <1>2, SysWalletAssumption DEF Start, Goto, TypeOK, Op, TxKinds, OpKinds
<1>3. ASSUME NEW p \in Procs, NEW policy \in Policies, UpdatePolicies(p, policy)
      PROVE  OpFits'
  BY <1>3 DEF UpdatePolicies, Goto, TypeOK
<1>4. CASE (\E u \in Users : CorpChange(u)) \/ UNCHANGED vars
  BY <1>4 DEF CorpChange, vars, procVars
<1>5. CASE Crash
  BY <1>5 DEF Crash
<1> QED BY <1>1, <1>2, <1>3, <1>4, <1>5 DEF Next

-----------------------------------------------------------------------------
(* The row lock protects what was read *)

\* A wallet row is written, or its lock moved, only by the transaction that holds the
\* lock, or while nobody holds it.
LEMMA LockProtects ==
    ASSUME WalletInv, NEW p \in Procs, Continue(p), NEW u \in Users,
           rowLock[u] \in Procs \ {p}
    PROVE  balance'[u] = balance[u] /\ rowLock'[u] = rowLock[u]
<1> USE DEF WalletInv
<1>1. rowLock[u] # NoProc /\ rowLock[u] # p
  BY SysWalletAssumption
<1>2. CASE CheckCapability(p) \/ RefuseDisabled(p) \/ Verify(p) \/ CheckOnRead(p) \/ ListPositive(p)
           \/ SweepDone(p) \/ \E v \in Users : SweepUser(p, v)
  BY <1>2 DEF CheckCapability, RefuseDisabled, Verify, CheckOnRead, ListPositive, SweepDone, SweepUser,
              walletVars
<1>3. CASE LockWallet(p)
  <2>1. op[p].user # u
    BY <1>1, <1>3 DEF LockWallet
  <2> QED BY <1>3, <2>1 DEF LockWallet, walletVars, TypeOK
<1>4. CASE Abort(p)
  <2>1. op[p].user # u
    BY <1>1, <1>4 DEF Abort, LockedReadIsCurrent
  <2> QED BY <1>4, <2>1 DEF Abort, Release, walletVars, TypeOK
<1>5. CASE Commit(p)
  <2>1. op[p].user # u
    BY <1>1, <1>5 DEF Commit, LockedReadIsCurrent
  <2> QED BY <1>5, <2>1 DEF Commit, Release, TypeOK
<1>6. CASE ZeroOnRead(p) \/ SweepZero(p)
  <2>1. op[p].user # u
    BY <1>1, <1>6 DEF ZeroOnRead, SweepZero
  <2> QED BY <1>6, <2>1 DEF ZeroOnRead, SweepZero, Zero, TypeOK
<1> QED BY <1>2, <1>3, <1>4, <1>5, <1>6 DEF Continue, Transact, ReadOrSweep

LEMMA CurrentStep ==
    ASSUME WalletInv, [Next]_vars
    PROVE  LockedReadIsCurrent' /\ ReadyIsCovered'
<1> USE DEF WalletInv
<1>1. ASSUME NEW p \in Procs, Continue(p)
      PROVE  LockedReadIsCurrent' /\ ReadyIsCovered'
  <2>1. ASSUME NEW q \in Procs \ {p}, pc[q] \in {"locked", "ready"}
        PROVE  rowLock'[op[q].user] = q /\ seen[q] = balance'[op[q].user]
    <3>1. op[q].user \in Users /\ rowLock[op[q].user] = q /\ seen[q] = balance[op[q].user]
      BY <2>1 DEF OpFits, InTx, LockedReadIsCurrent
    <3> QED BY <1>1, <3>1, LockProtects
  <2>2. pc'[p] \in {"locked", "ready"} =>
          /\ rowLock'[op'[p].user] = p
          /\ seen'[p] = balance'[op'[p].user]
          /\ pc'[p] = "ready" /\ MustCover(op'[p]) => seen'[p] >= op'[p].amount
    <3>1. CASE LockWallet(p)
      <4>1. op[p].user \in Users
        BY <3>1 DEF LockWallet, OpFits, InTx
      <4> QED BY <3>1, <4>1 DEF LockWallet, Goto, walletVars, TypeOK
    <3>2. CASE Verify(p)
      BY <3>2 DEF Verify, Goto, walletVars, TypeOK, LockedReadIsCurrent
    <3>3. CASE CheckCapability(p) \/ RefuseDisabled(p) \/ Abort(p) \/ Commit(p)
      BY <3>3, ReturnFits DEF CheckCapability, RefuseDisabled, Abort, Commit, Goto, TypeOK
    <3>4. CASE ReadOrSweep(p)
      BY <3>4, ReturnFits DEF ReadOrSweep, CheckOnRead, ZeroOnRead, ListPositive, SweepUser, SweepZero,
                              SweepDone, Goto, TypeOK
    <3> QED BY <1>1, <3>1, <3>2, <3>3, <3>4 DEF Continue, Transact
  <2>3. \A q \in Procs \ {p} : pc'[q] = pc[q] /\ op'[q] = op[q] /\ seen'[q] = seen[q]
    BY <1>1, OthersKeep
  <2>4. LockedReadIsCurrent'
    BY <2>1, <2>2, <2>3 DEF LockedReadIsCurrent
  <2>5. ReadyIsCovered'
    BY <2>2, <2>3 DEF ReadyIsCovered, MustCover
  <2> QED BY <2>4, <2>5
<1>2. ASSUME NEW p \in Procs, NEW o \in Ops, Start(p, o)
      PROVE  LockedReadIsCurrent' /\ ReadyIsCovered'
  BY <1>2 DEF Start, Goto, walletVars, TypeOK, LockedReadIsCurrent, ReadyIsCovered, MustCover
<1>3. ASSUME NEW p \in Procs, NEW policy \in Policies, UpdatePolicies(p, policy)
      PROVE  LockedReadIsCurrent' /\ ReadyIsCovered'
  BY <1>3 DEF UpdatePolicies, Goto, walletVars, TypeOK, LockedReadIsCurrent, ReadyIsCovered, MustCover
<1>4. CASE (\E u \in Users : CorpChange(u)) \/ UNCHANGED vars
  BY <1>4 DEF CorpChange, vars, procVars, walletVars, LockedReadIsCurrent, ReadyIsCovered, MustCover
<1>5. CASE Crash
  BY <1>5 DEF Crash, LockedReadIsCurrent, ReadyIsCovered
<1> QED BY <1>1, <1>2, <1>3, <1>4, <1>5 DEF Next

LEMMA OffStep == WalletInv /\ [Next]_vars => OnlyOffIsZeroed'
<1> SUFFICES ASSUME WalletInv, [Next]_vars PROVE OnlyOffIsZeroed'
  OBVIOUS
<1> USE DEF WalletInv, OnlyOffIsZeroed
<1>1. ASSUME NEW p \in Procs, Continue(p)
      PROVE  OnlyOffIsZeroed'
  <2>1. UNCHANGED <<enabled, wasOff>>
    BY <1>1 DEF Continue, Transact, ReadOrSweep, CheckCapability, RefuseDisabled, LockWallet, Verify,
                Abort, Commit, CheckOnRead, ZeroOnRead, ListPositive, SweepUser, SweepZero, SweepDone
  <2>2. pc'[p] \in {"zero", "sweepZero"} => op'[p].user \in Users \ enabled
    <3>1. CASE Transact(p)
      BY <3>1, ReturnFits
         DEF Transact, CheckCapability, RefuseDisabled, LockWallet, Verify, Abort, Commit, Goto, TypeOK
    <3>2. CASE ReadOrSweep(p)
      BY <3>2, ReturnFits
         DEF ReadOrSweep, CheckOnRead, ZeroOnRead, ListPositive, SweepUser, SweepZero, SweepDone,
             Goto, TypeOK, OpFits
    <3> QED BY <1>1, <3>1, <3>2 DEF Continue
  <2> QED BY <1>1, <2>1, <2>2, OthersKeep
<1>2. ASSUME NEW p \in Procs, NEW o \in Ops, Start(p, o)
      PROVE  OnlyOffIsZeroed'
  BY <1>2 DEF Start, Goto, TypeOK
<1>3. ASSUME NEW p \in Procs, NEW policy \in Policies, UpdatePolicies(p, policy)
      PROVE  OnlyOffIsZeroed'
  BY <1>3 DEF UpdatePolicies, Goto, TypeOK
<1>4. CASE (\E u \in Users : CorpChange(u)) \/ UNCHANGED vars
  BY <1>4 DEF CorpChange, vars, procVars
<1>5. CASE Crash
  BY <1>5 DEF Crash
<1> QED BY <1>1, <1>2, <1>3, <1>4, <1>5 DEF Next

LEMMA WalletInvInit == Init => WalletInv
BY TypeInit DEF Init, WalletInv, OpFits, InTx, LockedReadIsCurrent, ReadyIsCovered, OnlyOffIsZeroed

LEMMA WalletInvStep == WalletInv /\ [Next]_vars => WalletInv'
BY TypeStep, FitsStep, CurrentStep, OffStep DEF WalletInv

THEOREM WalletInvariant == Spec => []WalletInv
BY WalletInvInit, WalletInvStep, PTL DEF Spec

\* Balances never become negative and every row keeps its type, however many requests,
\* sweeps, corporation changes and crashes interleave.
THEOREM TypeCorrect == Spec => []TypeOK
<1>1. WalletInv => TypeOK
  BY DEF WalletInv
<1> QED BY <1>1, WalletInvariant, PTL

\* What a transaction read under FOR UPDATE is still the balance when it writes.
THEOREM LockedReads == Spec => []LockedReadIsCurrent
<1>1. WalletInv => LockedReadIsCurrent
  BY DEF WalletInv
<1> QED BY <1>1, WalletInvariant, PTL

-----------------------------------------------------------------------------
(* The service implements the ledger *)

LEMMA NewestRow ==
    ASSUME NEW S, NEW s \in Seq(S), NEW e \in S
    PROVE  /\ Append(s, e) # <<>>
           /\ Append(s, e)[Len(Append(s, e))] = e
OBVIOUS

\* What a commit leaves: the balance its newest row shows.
LEMMA CommitPosts ==
    ASSUME WalletInv, NEW p \in Procs, Commit(p)
    PROVE  LET u == op[p].user
               row == ledger'[u][Len(ledger'[u])]
           IN  /\ u \in Users
               /\ ledger'[u] # <<>>
               /\ balance'[u] = row.after
               /\ \A v \in Users \ {u} : balance'[v] = balance[v] /\ ledger'[v] = ledger[v]
               /\ Post(u, row.kind, row.amount)
<1> USE DEF WalletInv
<1> DEFINE u == op[p].user
           old == seen[p]
           new == [kind |-> IF MustCover(op[p]) THEN "debit" ELSE "delta",
                   amount |-> Delta(op[p], old), after |-> AtLeastZero(old + Delta(op[p], old))]
<1>1. u \in Users /\ op[p] \in Op /\ old \in Nat /\ old = balance[u]
  BY DEF Commit, OpFits, InTx, TypeOK, LockedReadIsCurrent
<1>2. new \in LedgerRow
  BY <1>1, RowTypes
<1>3. /\ balance' = [balance EXCEPT ![u] = new.after]
      /\ ledger' = [ledger EXCEPT ![u] = Append(ledger[u], new)]
  BY DEF Commit
<1>4. new.kind = "debit" => old + new.amount >= 0
  <2>1. ASSUME MustCover(op[p])
        PROVE  old + Delta(op[p], old) >= 0
    <3>1. old >= op[p].amount /\ op[p].amount \in Nat
      BY <1>1, <2>1 DEF Commit, ReadyIsCovered, Op
    <3>2. Delta(op[p], old) = -op[p].amount
      BY <2>1 DEF MustCover, Delta
    <3> QED BY <1>1, <3>1, <3>2
  <2> QED BY <2>1
<1>5. new.after = AtLeastZero(old + new.amount)
  OBVIOUS
<1> HIDE DEF u, old, new
<1>6. /\ ledger'[u] = Append(ledger[u], new)
      /\ balance'[u] = new.after
      /\ \A v \in Users \ {u} : balance'[v] = balance[v] /\ ledger'[v] = ledger[v]
  BY <1>1, <1>3 DEF TypeOK
<1>7. ledger'[u] # <<>> /\ ledger'[u][Len(ledger'[u])] = new
  <2>1. ledger[u] \in Seq(LedgerRow)
    BY <1>1 DEF TypeOK
  <2>2. Append(ledger[u], new) # <<>> /\ Append(ledger[u], new)[Len(Append(ledger[u], new))] = new
    BY <1>2, <2>1, NewestRow
  <2> QED BY <1>6, <2>2
<1>8. [kind |-> new.kind, amount |-> new.amount, after |-> new.after] = new
  BY <1>2 DEF LedgerRow
<1>9. Post(u, new.kind, new.amount)
  BY <1>1, <1>3, <1>4, <1>5, <1>8 DEF Post
<1> QED BY <1>1, <1>6, <1>7, <1>9 DEF u

\* No other step writes a row, and all it can do to a balance is empty a wallet whose
\* owner lost the capability.
LEMMA OthersZero ==
    ASSUME WalletInv, [Next]_vars, \A p \in Procs : ~Commit(p)
    PROVE  UNCHANGED walletVars \/ \E u \in Users \cap wasOff : Zero(u)
<1> USE DEF WalletInv
<1>1. ASSUME NEW p \in Procs, ZeroOnRead(p) \/ SweepZero(p)
      PROVE  \E u \in Users \cap wasOff : Zero(u)
  <2>1. op[p].user \in Users \cap wasOff /\ Zero(op[p].user)
    BY <1>1 DEF ZeroOnRead, SweepZero, OpFits, OnlyOffIsZeroed
  <2> QED BY <2>1
<1>2. ASSUME NEW p \in Procs, Continue(p), ~(ZeroOnRead(p) \/ SweepZero(p))
      PROVE  UNCHANGED walletVars
  BY <1>2 DEF Continue, Transact, ReadOrSweep, CheckCapability, RefuseDisabled, LockWallet, Verify, Abort,
              CheckOnRead, ListPositive, SweepUser, SweepDone
<1>3. ASSUME NEW p \in Procs, NEW o \in Ops, Start(p, o)
      PROVE  UNCHANGED walletVars
  BY <1>3 DEF Start
<1>4. ASSUME NEW p \in Procs, NEW policy \in Policies, UpdatePolicies(p, policy)
      PROVE  UNCHANGED walletVars
  BY <1>4 DEF UpdatePolicies
<1>5. CASE (\E u \in Users : CorpChange(u)) \/ Crash \/ UNCHANGED vars
  BY <1>5 DEF CorpChange, Crash, vars
<1> QED BY <1>1, <1>2, <1>3, <1>4, <1>5 DEF Next

LEMMA StepRefines == WalletInv /\ [Next]_vars => [WalletNext]_walletVars
<1> SUFFICES ASSUME WalletInv, [Next]_vars PROVE [WalletNext]_walletVars
  OBVIOUS
<1>1. ASSUME NEW p \in Procs, Commit(p)
      PROVE  WalletNext
  BY <1>1, CommitPosts DEF WalletNext, PostNewest
<1>2. CASE \A p \in Procs : ~Commit(p)
  BY <1>2, OthersZero DEF WalletNext
<1> QED BY <1>1, <1>2

\* The statement-level service implements the atomic ledger: every change of a balance
\* is a posting that chains on the balance before it and never overdraws a debit, or the
\* zeroing of a wallet.
THEOREM Refinement == Spec => ImplementsLedger
<1>1. Init => WalletInit
  BY DEF Init
<1> QED BY <1>1, StepRefines, WalletInvariant, PTL DEF Spec, WalletSpec, ImplementsLedger

LEMMA ExplainStep ==
    ASSUME WalletInv, LedgerExplainsBalance, [Next]_vars
    PROVE  LedgerExplainsBalance'
<1>1. wasOff \subseteq wasOff'
  BY DEF Next, Continue, Transact, ReadOrSweep, Start, UpdatePolicies, CorpChange, Crash, vars, CheckCapability,
         RefuseDisabled, LockWallet, Verify, Abort, Commit, CheckOnRead, ZeroOnRead, ListPositive, SweepUser,
         SweepZero, SweepDone
<1>2. ASSUME NEW p \in Procs, Commit(p)
      PROVE  LedgerExplainsBalance'
  BY <1>1, <1>2, CommitPosts DEF LedgerExplainsBalance
<1>3. CASE UNCHANGED walletVars
  BY <1>1, <1>3 DEF LedgerExplainsBalance, walletVars
<1>4. ASSUME NEW u \in Users \cap wasOff, Zero(u)
      PROVE  LedgerExplainsBalance'
  BY <1>1, <1>4 DEF LedgerExplainsBalance, Zero, WalletInv, TypeOK
<1> QED BY <1>2, <1>3, <1>4, OthersZero

\* As long as a user never lost the capability the newest ledger row explains the
\* balance.
THEOREM LedgerExplains == Spec => []LedgerExplainsBalance
<1>1. Init => LedgerExplainsBalance
  BY DEF Init, WalletInit, LedgerExplainsBalance
<1> QED BY <1>1, ExplainStep, WalletInvariant, PTL DEF Spec

=============================================================================
