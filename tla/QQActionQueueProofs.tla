------------------------ MODULE QQActionQueueProofs ------------------------
(***************************************************************************)
(* Theorems about QQActionQueue, for every set of updates and workers,     *)
(* every number of retries and every bound. The invariant says what a      *)
(* worker's step tells about the row of its action: as long as the lease   *)
(* has not lapsed the row is its own, so an action that was sent is either *)
(* settled or in the hands of the one worker that sent it.                 *)
(***************************************************************************)
EXTENDS QQActionQueue, TLAPS

Busy(w, k) == step[w] # "idle" /\ job[w] = k

\* A busy worker has a real action, and attempts left for it.
JobsExist ==
    \A w \in Workers : step[w] # "idle" =>
        job[w] \in Keys /\ task[job[w]].status # "none"

AttemptsLeft ==
    /\ \A w \in Workers : tried[w] < MaxRetries
    /\ \A k \in Keys : task[k].status \in Queued \cup {"running"} => task[k].retries < MaxRetries

\* Without a lapse the worker owns the row.
BusyOwns ==
    /\ \A k \in Keys : task[k].lapsed => k \in disturbed
    /\ \A w \in Workers, k \in Keys : Busy(w, k) /\ k \notin disturbed =>
            task[k].status = "running" /\ task[k].holder = w

\* An action that was sent, and not disturbed, waits for nothing but its record.
SentIsRecorded ==
    \A k \in Keys \ disturbed :
        /\ sent[k] \in {0, 1}
        /\ sent[k] = 1 =>
            \/ task[k].status = "succeeded"
            \/ /\ task[k].status = "running"
               /\ \A w \in Workers : Busy(w, k) => step[w] \in {"mark", "complete"}

\* What a worker found valid still is, until the member or the policy changes.
FreshIsValid ==
    \A w \in fresh : step[w] = "send" => StillValid(job[w])

QueueInv ==
    /\ TypeOK
    /\ AttemptsLeft
    /\ JobsExist
    /\ BusyOwns
    /\ SentIsRecorded
    /\ FreshIsValid
-----------------------------------------------------------------------------
(* Types *)

LEMMA ConstantTypes ==
    /\ NoTask \in Task /\ Nothing \in [member : Member, policy : Policy]
    /\ NoMember \in Member /\ AllOn \in Policy
    /\ \A v \in Nat, u \in Updates : NewTask(v, u) \in Task
<1>1. NoTask \in Task
  BY QueueAssumption DEF NoTask, Task, TaskStatus, Queued, Settled
<1>2. NoMember \in Member /\ AllOn \in Policy
  BY DEF NoMember, Member, MemberStatus, AllOn, Policy
<1>3. Nothing \in [member : Member, policy : Policy]
  BY <1>2 DEF Nothing
<1>4. ASSUME NEW v \in Nat, NEW u \in Updates PROVE NewTask(v, u) \in Task
  BY <1>1 DEF NewTask, NoTask, Task, TaskStatus, Queued
<1> QED BY <1>1, <1>2, <1>3, <1>4

\* Statuses name their sets only here.
LEMMA StatusTypes ==
    {"none", "pending", "retry_wait", "running", "succeeded", "cancelled", "dead"} = TaskStatus
BY DEF TaskStatus, Queued, Settled

\* The writes the statements make to a row.
LEMMA RowTypes ==
    ASSUME NEW t \in Task, NEW status \in TaskStatus, NEW holder \in Workers \cup {NoWorker},
           NEW retries \in 0 .. MaxRetries, NEW blocked \in BOOLEAN
    PROVE  /\ [t EXCEPT !.status = status] \in Task
           /\ [t EXCEPT !.status = status, !.holder = holder, !.lapsed = FALSE] \in Task
           /\ [t EXCEPT !.status = status, !.retries = retries, !.blocked = blocked] \in Task
           /\ [t EXCEPT !.status = status, !.holder = holder, !.lapsed = FALSE,
                        !.retries = retries, !.blocked = blocked] \in Task
<1>1. [t EXCEPT !.status = status] \in Task
  BY DEF Task
<1>2. [t EXCEPT !.status = status, !.holder = holder, !.lapsed = FALSE] \in Task
  BY DEF Task
<1>3. [t EXCEPT !.status = status, !.retries = retries, !.blocked = blocked] \in Task
  BY DEF Task
<1>4. [t EXCEPT !.status = status, !.holder = holder, !.lapsed = FALSE,
                !.retries = retries, !.blocked = blocked] \in Task
  BY DEF Task
<1> QED BY <1>1, <1>2, <1>3, <1>4

\* The rows Enqueue makes are rows.
LEMMA EnqueueTypes ==
    ASSUME TypeOK, NEW keys, NEW v \in Nat, NEW u \in Updates, Enqueue(keys, v, u)
    PROVE  task' \in [Keys -> Task]
BY ConstantTypes DEF TypeOK, Enqueue

LEMMA ReturnTypes ==
    ASSUME TypeOK, NEW w \in Workers, Return(w)
    PROVE  /\ step' \in [Workers -> Steps] /\ job' \in [Workers -> Keys \cup {NoKey}]
           /\ tried' \in [Workers -> 0 .. MaxRetries] /\ fresh' \subseteq Workers
BY QueueAssumption DEF Return, Goto, TypeOK, Steps

LEMMA ReleaseTypes ==
    ASSUME TypeOK, NEW w \in Workers,
           NEW status \in TaskStatus, NEW retries \in 0 .. MaxRetries, NEW blocked \in BOOLEAN,
           Release(w, status, retries, blocked), boundVars' \in Nat \X Nat \X Nat
    PROVE  TypeOK'
<1>1. task' \in [Keys -> Task]
  <2>1. [task[job[w]] EXCEPT !.status = status, !.holder = NoWorker, !.lapsed = FALSE,
                             !.retries = retries, !.blocked = blocked] \in Task
        \/ job[w] \notin Keys
    BY RowTypes DEF TypeOK
  <2> QED BY <2>1 DEF Release, TypeOK
<1>2. faults' \in Nat /\ saves' \in Nat /\ acts' \in Nat
  BY DEF boundVars
<1> QED BY <1>1, <1>2, ReturnTypes DEF Release, TypeOK, updateVars, linkVars

LEMMA BoundTypes ==
    ASSUME TypeOK
    PROVE  /\ Fault => boundVars' \in Nat \X Nat \X Nat
           /\ Operator => boundVars' \in Nat \X Nat \X Nat
           /\ UNCHANGED boundVars => boundVars' \in Nat \X Nat \X Nat
BY DEF TypeOK, Fault, Operator, boundVars

LEMMA UpdateTypes ==
    ASSUME TypeOK, NEW u \in Updates, Update(u)
    PROVE  TypeOK'
<1> USE DEF updateVars, workerVars, linkVars, historyVars, boundVars
<1>1. CASE Open(u)
  BY <1>1 DEF Open, Done, TypeOK
<1>2. CASE Commit(u)
  <2> DEFINE v == seen[u].member.version + 1
  <2>1. v \in Nat
    BY DEF TypeOK, Member
  <2>2. PICK verdict \in Verdicts(u) :
          /\ member' = [version |-> v, by |-> u,
                        status |-> IF Kind[u] = "request" THEN "join_pending" ELSE verdict]
          /\ \E keys \in Actions(u, verdict, v) : Enqueue(keys, v, u)
    BY <1>2 DEF Commit
  <2>3. member' \in Member
    BY <2>1, <2>2 DEF Verdicts, Member, MemberStatus
  <2>4. task' \in [Keys -> Task]
    BY <2>1, <2>2, EnqueueTypes
  <2>5. ustep' \in [Updates -> {"idle", "open", "done"}]
        /\ seen' \in [Updates -> [member : Member, policy : Policy]]
    BY <1>2, ConstantTypes DEF Commit, Close, Done, TypeOK
  <2> QED BY <1>2, <2>3, <2>4, <2>5 DEF Commit, TypeOK
<1>3. CASE RollBack(u)
  <2>1. boundVars' \in Nat \X Nat \X Nat
    BY <1>3, BoundTypes DEF RollBack
  <2> QED BY <1>3, <2>1, ConstantTypes DEF RollBack, Close, Done, TypeOK
<1>4. CASE EnqueueGroupNotifications(u)
  <2>1. task' \in [Keys -> Task]
    BY <1>4, EnqueueTypes DEF EnqueueGroupNotifications
  <2> QED BY <1>4, <2>1 DEF EnqueueGroupNotifications, Done, TypeOK
<1>5. CASE Sweep(u)
  <2>1. member' \in Member
    BY <1>5 DEF Sweep, TypeOK, Member, MemberStatus
  <2> QED BY <1>5, <2>1 DEF Sweep, Done, TypeOK
<1> QED BY <1>1, <1>2, <1>3, <1>4, <1>5 DEF Update

LEMMA WorkTypes ==
    ASSUME TypeOK, AttemptsLeft, JobsExist, NEW w \in Workers, Work(w)
    PROVE  TypeOK'
<1> USE DEF updateVars, workerVars, linkVars, historyVars
<1>0. tried[w] \in 0 .. MaxRetries /\ tried[w] + 1 \in 0 .. MaxRetries
  BY QueueAssumption DEF TypeOK, AttemptsLeft
<1>1. step[w] # "idle" => job[w] \in Keys /\ task[job[w]] \in Task /\ task[job[w]].blocked \in BOOLEAN
  BY DEF TypeOK, JobsExist, Task
<1>2. CASE Check(w)
  BY <1>2 DEF Check, Goto, TypeOK, Steps, boundVars
<1>3. CASE Postpone(w)
  BY <1>3, <1>0, BoundTypes, ReleaseTypes DEF Postpone, TaskStatus, Queued
<1>4. CASE Cancel(w)
  BY <1>4, <1>0, <1>1, BoundTypes, ReleaseTypes DEF Cancel, TaskStatus, Settled
<1>5. CASE NotConnected(w)
  BY <1>5 DEF NotConnected, Goto, TypeOK, Steps, boundVars
<1>6. CASE CallOneBot(w)
  BY <1>6, <1>1 DEF CallOneBot, Goto, TypeOK, Steps, boundVars
<1>7. CASE CallTimesOut(w)
  BY <1>7, <1>1 DEF CallTimesOut, Fault, Goto, TypeOK, Steps, boundVars
<1>8. CASE CallFails(w)
  BY <1>8 DEF CallFails, Goto, TypeOK, Steps, boundVars
<1>9. CASE Mark(w)
  BY <1>9, ReturnTypes DEF Mark, Goto, TypeOK, Steps, boundVars
<1>10. CASE Complete(w)
  BY <1>10, <1>0, BoundTypes, ReleaseTypes DEF Complete, TaskStatus, Settled
<1>11. CASE FailTask(w)
  <2> DEFINE status == IF step[w] = "fail_final" \/ Exhausted(tried[w] + 1) THEN "dead" ELSE "retry_wait"
  <2>1. status \in TaskStatus
    BY DEF TaskStatus, Queued
  <2>2. Release(w, status, tried[w] + 1, step[w] = "fail_disconnected") /\ UNCHANGED boundVars
    BY <1>11 DEF FailTask
  <2> HIDE DEF status
  <2> QED BY <2>1, <2>2, <1>0, BoundTypes, ReleaseTypes
<1>12. CASE ReadFails(w)
  BY <1>12 DEF ReadFails, Fault, Goto, TypeOK, Steps
<1> QED BY <1>2, <1>3, <1>4, <1>5, <1>6, <1>7, <1>8, <1>9, <1>10, <1>11, <1>12 DEF Work

LEMMA RecoverTypes ==
    ASSUME TypeOK, NEW statuses, Recover(statuses)
    PROVE  task' \in [Keys -> Task]
<1>1. "pending" \in TaskStatus /\ 0 \in 0 .. MaxRetries
  BY QueueAssumption, StatusTypes
<1>2. ASSUME NEW k \in Keys
      PROVE  [task[k] EXCEPT !.status = "pending", !.retries = 0, !.blocked = FALSE] \in Task
  BY <1>1, RowTypes DEF TypeOK
<1> QED BY <1>2 DEF TypeOK, Recover

LEMMA TypeStep ==
    ASSUME TypeOK, AttemptsLeft, JobsExist, [Next]_vars
    PROVE  TypeOK'
<1> USE DEF updateVars, workerVars, linkVars, historyVars, boundVars
<1>1. ASSUME NEW u \in Updates, Update(u) PROVE TypeOK'
  BY <1>1, UpdateTypes
<1>2. ASSUME NEW w \in Workers, NEW k \in Keys, Claim(w, k) PROVE TypeOK'
  <2>1. task' \in [Keys -> Task]
    <3>0. 0 \in 0 .. MaxRetries /\ "running" \in TaskStatus /\ task[k] \in Task
      BY QueueAssumption, StatusTypes DEF TypeOK
    <3>1. [task[k] EXCEPT !.status = "running", !.holder = w, !.lapsed = FALSE] \in Task
      BY <3>0, RowTypes
    <3> QED BY <1>2, <3>1 DEF Claim, TypeOK
  <2>2. task[k].retries \in 0 .. MaxRetries
    BY DEF TypeOK, Task
  <2> QED BY <1>2, <2>1, <2>2 DEF Claim, Goto, TypeOK, Steps
<1>3. ASSUME NEW w \in Workers, Work(w) PROVE TypeOK'
  BY <1>3, WorkTypes
<1>4. ASSUME NEW w \in Workers, Drop(w) PROVE TypeOK'
  BY <1>4, ReturnTypes DEF Drop, Fault, TypeOK
<1>5. ASSUME NEW k \in Keys, Lapse(k) PROVE TypeOK'
  <2>1. task' \in [Keys -> Task]
    <3>1. task[k] \in Task
      BY DEF TypeOK
    <3>2. [task[k] EXCEPT !.lapsed = TRUE] \in Task
      BY <3>1 DEF Task
    <3>3. task' = [task EXCEPT ![k] = [task[k] EXCEPT !.lapsed = TRUE]]
      BY <1>5 DEF Lapse
    <3> QED BY <3>2, <3>3 DEF TypeOK
  <2>2. faults' \in Nat /\ saves' \in Nat /\ acts' \in Nat
    BY <1>5 DEF Lapse, Fault, TypeOK
  <2> QED BY <1>5, <2>1, <2>2 DEF Lapse, TypeOK
<1>6. ASSUME NEW k \in Keys, RetryTask(k) PROVE TypeOK'
  <2>1. task' \in [Keys -> Task]
    <3>0. 0 \in 0 .. MaxRetries /\ "retry_wait" \in TaskStatus /\ task[k] \in Task
      BY QueueAssumption, StatusTypes DEF TypeOK
    <3>1. [task[k] EXCEPT !.status = "retry_wait", !.retries = 0, !.blocked = FALSE] \in Task
      BY <3>0, RowTypes
    <3> QED BY <1>6, <3>1 DEF RetryTask, TypeOK
  <2> QED BY <1>6, <2>1 DEF RetryTask, Operator, TypeOK
<1>7. CASE Disconnect
  <2>1. faults' \in Nat /\ saves' \in Nat /\ acts' \in Nat
    BY <1>7 DEF Disconnect, Fault, TypeOK
  <2> QED BY <1>7, <2>1 DEF Disconnect, TypeOK
<1>8. CASE Reconnect
  BY <1>8 DEF Reconnect, TypeOK
<1>9. CASE RecoverDisconnectedTasks
  BY <1>9, RecoverTypes DEF RecoverDisconnectedTasks, Operator, TypeOK
<1>10. CASE SavePolicy
  BY <1>10 DEF SavePolicy, TypeOK, Policy
<1>11. CASE CancelPendingActionTasks
  <2>1. task' \in [Keys -> Task]
    <3>1. ASSUME NEW k \in Keys PROVE [task[k] EXCEPT !.status = "cancelled"] \in Task
      <4>1. task[k] \in Task /\ "cancelled" \in TaskStatus
        BY StatusTypes DEF TypeOK
      <4> QED BY <4>1 DEF Task
    <3> QED BY <1>11, <3>1 DEF CancelPendingActionTasks, TypeOK
  <2> QED BY <1>11, <2>1 DEF CancelPendingActionTasks, TypeOK
<1>12. CASE AbandonCancel
  <2>1. faults' \in Nat /\ saves' \in Nat /\ acts' \in Nat
    BY <1>12 DEF AbandonCancel, Fault, TypeOK
  <2> QED BY <1>12, <2>1 DEF AbandonCancel, TypeOK
<1>13. CASE OnOneBotConnected
  <2>1. recovering' \in Nat
    BY <1>13 DEF OnOneBotConnected, TypeOK
  <2>2. task' \in [Keys -> Task]
    BY <1>13, RecoverTypes DEF OnOneBotConnected, TypeOK
  <2> QED BY <1>13, <2>1, <2>2 DEF OnOneBotConnected, TypeOK
<1>14. CASE UNCHANGED vars
  BY <1>14 DEF vars, TypeOK
<1> QED BY <1>1, <1>2, <1>3, <1>4, <1>5, <1>6, <1>7, <1>8, <1>9, <1>10, <1>11, <1>12, <1>13,
           <1>14 DEF Next

-----------------------------------------------------------------------------
(* What the kinds of statement do to the invariant *)

RowInv == AttemptsLeft /\ JobsExist /\ BusyOwns /\ SentIsRecorded

\* A row that no worker has in hand is queued anew or cancelled.
Shelved(k) ==
    /\ task[k].status \in Queued \cup {"none", "dead"}
    /\ task'[k].status \in Queued \cup {"cancelled"}
    /\ task'[k].lapsed => task[k].lapsed
    /\ task'[k].retries < MaxRetries \/ task'[k].status = "cancelled"
    /\ task[k].status # "none" => task'[k].version = task[k].version

LEMMA ShelfStep ==
    ASSUME TypeOK, RowInv, UNCHANGED <<workerVars, sent, disturbed>>,
           \A k \in Keys : task'[k] = task[k] \/ Shelved(k)
    PROVE  /\ RowInv'
           /\ \A w \in Workers : step[w] # "idle" => task'[job[w]].version = task[job[w]].version
<1> USE DEF workerVars, RowInv, Shelved
<1>1. AttemptsLeft'
  BY DEF AttemptsLeft, Queued
<1>2. JobsExist'
  BY DEF JobsExist, Queued
<1>3. BusyOwns'
  BY DEF BusyOwns, Busy, Queued
<1>4. SentIsRecorded'
  BY DEF SentIsRecorded, Busy, Queued
<1> QED BY <1>1, <1>2, <1>3, <1>4 DEF JobsExist

LEMMA EnqueueShelves ==
    ASSUME TypeOK, NEW keys, NEW v \in Nat, NEW u \in Updates, Enqueue(keys, v, u)
    PROVE  \A k \in Keys : task'[k] = task[k] \/ Shelved(k)
BY QueueAssumption DEF Enqueue, Shelved, NewTask, NoTask, Queued

LEMMA RecoverShelves ==
    ASSUME TypeOK, NEW statuses \in SUBSET {"retry_wait", "dead"}, Recover(statuses)
    PROVE  \A k \in Keys : task'[k] = task[k] \/ Shelved(k)
<1> SUFFICES ASSUME NEW k \in Keys, task'[k] # task[k] PROVE Shelved(k)
  OBVIOUS
<1>1. task[k].status \in statuses
      /\ task'[k] = [task[k] EXCEPT !.status = "pending", !.retries = 0, !.blocked = FALSE]
  BY DEF Recover
<1>2. /\ task'[k].status = "pending" /\ task'[k].retries = 0
      /\ task'[k].lapsed = task[k].lapsed /\ task'[k].version = task[k].version
  BY <1>1 DEF TypeOK, Task
<1> QED BY <1>1, <1>2, QueueAssumption DEF Shelved, Queued

LEMMA RetryShelves ==
    ASSUME TypeOK, NEW t \in Keys, RetryTask(t)
    PROVE  \A k \in Keys : task'[k] = task[k] \/ Shelved(k)
<1>1. task' = [task EXCEPT ![t] = [task[t] EXCEPT !.status = "retry_wait", !.retries = 0,
                                                 !.blocked = FALSE]]
  BY DEF RetryTask, TypeOK
<1>2. \A k \in Keys \ {t} : task'[k] = task[k]
  BY <1>1 DEF TypeOK
<1>3. /\ task'[t].status = "retry_wait" /\ task'[t].retries = 0
      /\ task'[t].lapsed = task[t].lapsed /\ task'[t].version = task[t].version
  BY <1>1 DEF TypeOK, Task
<1>4. Shelved(t)
  BY <1>3, QueueAssumption DEF RetryTask, Shelved, Queued
<1> QED BY <1>2, <1>4

LEMMA CancelShelves ==
    ASSUME TypeOK, CancelPendingActionTasks
    PROVE  \A k \in Keys : task'[k] = task[k] \/ Shelved(k)
<1> SUFFICES ASSUME NEW k \in Keys, task'[k] # task[k] PROVE Shelved(k)
  OBVIOUS
<1>1. task[k].status \in Queued /\ task'[k] = [task[k] EXCEPT !.status = "cancelled"]
  BY DEF CancelPendingActionTasks
<1>2. /\ task'[k].status = "cancelled"
      /\ task'[k].lapsed = task[k].lapsed /\ task'[k].version = task[k].version
  BY <1>1 DEF TypeOK, Task
<1> QED BY <1>1, <1>2 DEF Shelved, Queued

\* Only the worker's step changes, and not back from having sent the action.
LEMMA MoveStep ==
    ASSUME TypeOK, RowInv, NEW w \in Workers, NEW s \in Steps \ {"idle"}, Goto(w, s),
           step[w] # "idle", UNCHANGED <<task, job, tried, sent, disturbed>>,
           step[w] \in {"mark", "complete"} => s \in {"mark", "complete"}
    PROVE  RowInv'
<1>1. step' = [step EXCEPT ![w] = s] /\ step' \in [Workers -> Steps]
  BY DEF Goto, TypeOK
<1>2. \A v \in Workers : step'[v] # "idle" => step[v] # "idle"
  BY <1>1 DEF TypeOK
<1>3. AttemptsLeft'
  BY DEF RowInv, AttemptsLeft
<1>4. JobsExist'
  BY <1>2 DEF RowInv, JobsExist
<1>5. BusyOwns'
  BY <1>2 DEF RowInv, BusyOwns, Busy
<1>6. SentIsRecorded'
  BY <1>1, <1>2 DEF RowInv, SentIsRecorded, Busy, TypeOK
<1> QED BY <1>3, <1>4, <1>5, <1>6 DEF RowInv

\* The worker gives up and the row stays as it is.
LEMMA ReturnStep ==
    ASSUME TypeOK, RowInv, NEW w \in Workers, Return(w), UNCHANGED <<task, sent, disturbed>>
    PROVE  RowInv'
<1>1. /\ step' = [step EXCEPT ![w] = "idle"] /\ job' = [job EXCEPT ![w] = NoKey]
      /\ tried' = [tried EXCEPT ![w] = 0]
  BY DEF Return, Goto
<1>2. \A v \in Workers : step'[v] # "idle" =>
          v # w /\ step'[v] = step[v] /\ job'[v] = job[v]
  BY <1>1 DEF TypeOK
<1>3. AttemptsLeft'
  BY <1>1, QueueAssumption DEF RowInv, AttemptsLeft, TypeOK
<1>4. JobsExist'
  BY <1>2 DEF RowInv, JobsExist
<1>5. BusyOwns'
  BY <1>2 DEF RowInv, BusyOwns, Busy
<1>6. SentIsRecorded'
  BY <1>2 DEF RowInv, SentIsRecorded, Busy
<1> QED BY <1>3, <1>4, <1>5, <1>6 DEF RowInv

\* The worker's last statement.
LEMMA ReleaseStep ==
    ASSUME TypeOK, RowInv, NEW w \in Workers, step[w] # "idle",
           NEW status \in Queued \cup Settled \cup {"dead"}, NEW retries, NEW blocked,
           Release(w, status, retries, blocked),
           status \in Queued => retries < MaxRetries,
           status = "succeeded" \/ step[w] \notin {"mark", "complete"}
    PROVE  /\ RowInv'
           /\ \A k \in Keys : task'[k].version = task[k].version
<1> DEFINE j == job[w]
<1>1. /\ step' = [step EXCEPT ![w] = "idle"] /\ job' = [job EXCEPT ![w] = NoKey]
      /\ tried' = [tried EXCEPT ![w] = 0] /\ UNCHANGED <<sent, disturbed>>
  BY DEF Release, Return, Goto
<1>2. \A v \in Workers : step'[v] # "idle" =>
          v # w /\ step'[v] = step[v] /\ job'[v] = job[v]
  BY <1>1 DEF TypeOK
<1>3. j \in Keys
  BY DEF RowInv, JobsExist
<1>4. \A k \in Keys \ {j} : task'[k] = task[k]
  BY DEF Release, TypeOK
<1>5. task'[j] = IF Owns(w)
                 THEN [task[j] EXCEPT !.status = status, !.holder = NoWorker, !.lapsed = FALSE,
                                      !.retries = retries, !.blocked = blocked]
                 ELSE task[j]
  BY <1>3 DEF Release, TypeOK
<1>6. Owns(w) => /\ task'[j].status = status /\ task'[j].retries = retries
                 /\ task'[j].lapsed = FALSE /\ task'[j].version = task[j].version
  BY <1>3, <1>5 DEF TypeOK, Task
<1>7. j \notin disturbed => Owns(w) /\ \A v \in Workers : Busy(v, j) => v = w
  BY <1>3 DEF RowInv, BusyOwns, Busy, Owns
<1>8. AttemptsLeft'
  <2>1. \A v \in Workers : tried'[v] < MaxRetries
    BY <1>1, QueueAssumption DEF RowInv, AttemptsLeft, TypeOK
  <2>2. \A k \in Keys : task'[k].status \in Queued \cup {"running"} => task'[k].retries < MaxRetries
    BY <1>4, <1>5, <1>6 DEF RowInv, AttemptsLeft, Settled
  <2> QED BY <2>1, <2>2 DEF AttemptsLeft
<1>9. JobsExist'
  BY <1>2, <1>4, <1>5, <1>6 DEF RowInv, JobsExist, Queued, Settled
<1>10. BusyOwns'
  <2>1. \A k \in Keys : task'[k].lapsed => k \in disturbed
    BY <1>4, <1>5, <1>6 DEF RowInv, BusyOwns
  <2>2. ASSUME NEW v \in Workers, NEW k \in Keys, Busy(v, k)', k \notin disturbed
        PROVE  task'[k].status = "running" /\ task'[k].holder = v
    BY <2>2, <1>2, <1>4, <1>7 DEF RowInv, BusyOwns, Busy
  <2> QED BY <1>1, <2>1, <2>2 DEF BusyOwns
<1>11. SentIsRecorded'
  <2>1. \A v \in Workers, k \in Keys : Busy(v, k)' => Busy(v, k) /\ step'[v] = step[v]
    BY <1>2 DEF Busy
  <2>2. ASSUME NEW k \in Keys \ disturbed, sent[k] = 1
        PROVE  \/ task'[k].status = "succeeded"
               \/ /\ task'[k].status = "running"
                  /\ \A v \in Workers : Busy(v, k)' => step'[v] \in {"mark", "complete"}
    <3>1. CASE k = j
      <4>1. step[w] \in {"mark", "complete"}
        BY <2>2, <3>1, <1>7 DEF RowInv, SentIsRecorded, Busy, Owns
      <4> QED BY <2>2, <3>1, <4>1, <1>6, <1>7
    <3>2. CASE k # j
      BY <2>1, <2>2, <3>2, <1>4 DEF RowInv, SentIsRecorded
    <3> QED BY <3>1, <3>2
  <2> QED BY <1>1, <2>2 DEF RowInv, SentIsRecorded
<1>12. \A k \in Keys : task'[k].version = task[k].version
  BY <1>4, <1>5, <1>6
<1> QED BY <1>8, <1>9, <1>10, <1>11, <1>12 DEF RowInv

LEMMA ClaimStep ==
    ASSUME TypeOK, RowInv, NEW w \in Workers, NEW k \in Keys, Claim(w, k)
    PROVE  /\ RowInv'
           /\ \A t \in Keys : task'[t].version = task[t].version
<1>1. /\ step[w] = "idle" /\ Claimable(k) /\ UNCHANGED <<sent, disturbed>>
      /\ step' = [step EXCEPT ![w] = "check"] /\ job' = [job EXCEPT ![w] = k]
      /\ tried' = [tried EXCEPT ![w] = task[k].retries]
  BY DEF Claim, Goto
<1>2. \A t \in Keys \ {k} : task'[t] = task[t]
  BY DEF Claim, TypeOK
<1>3. task'[k] = [task[k] EXCEPT !.status = "running", !.holder = w, !.lapsed = FALSE]
  BY DEF Claim, TypeOK
<1>4. /\ task'[k].status = "running" /\ task'[k].holder = w /\ task'[k].lapsed = FALSE
      /\ task'[k].retries = task[k].retries /\ task'[k].version = task[k].version
  BY <1>3 DEF TypeOK, Task
<1>5. /\ step'[w] = "check" /\ job'[w] = k /\ tried'[w] = task[k].retries
      /\ \A v \in Workers \ {w} : step'[v] = step[v] /\ job'[v] = job[v] /\ tried'[v] = tried[v]
  BY <1>1 DEF TypeOK
<1>6. k \notin disturbed => task[k].status \in Queued
  BY <1>1 DEF Claimable, RowInv, BusyOwns
<1>7. k \notin disturbed => sent[k] = 0 /\ \A v \in Workers : ~Busy(v, k)
  BY <1>6 DEF RowInv, SentIsRecorded, BusyOwns, Queued
<1>8. AttemptsLeft'
  BY <1>1, <1>2, <1>4, <1>5 DEF RowInv, AttemptsLeft, Claimable
<1>9. JobsExist'
  BY <1>2, <1>4, <1>5 DEF RowInv, JobsExist
<1>10. BusyOwns'
  <2>1. \A t \in Keys : task'[t].lapsed => t \in disturbed
    BY <1>2, <1>4 DEF RowInv, BusyOwns
  <2>2. ASSUME NEW v \in Workers, NEW t \in Keys, Busy(v, t)', t \notin disturbed
        PROVE  task'[t].status = "running" /\ task'[t].holder = v
    BY <2>2, <1>2, <1>4, <1>5, <1>7 DEF RowInv, BusyOwns, Busy
  <2> QED BY <1>1, <2>1, <2>2 DEF BusyOwns
<1>11. SentIsRecorded'
  BY <1>1, <1>2, <1>5, <1>7 DEF RowInv, SentIsRecorded, Busy
<1> QED BY <1>2, <1>4, <1>8, <1>9, <1>10, <1>11 DEF RowInv

LEMMA LapseStep ==
    ASSUME TypeOK, RowInv, NEW k \in Keys, Lapse(k)
    PROVE  /\ RowInv'
           /\ \A t \in Keys : task'[t].version = task[t].version
<1>1. /\ task[k].status = "running" /\ UNCHANGED <<sent, step, job, tried>>
      /\ disturbed' = disturbed \cup {k}
  BY DEF Lapse, workerVars
<1>2. \A t \in Keys \ {k} : task'[t] = task[t]
  BY DEF Lapse, TypeOK
<1>3. task'[k] = [task[k] EXCEPT !.lapsed = TRUE]
  BY DEF Lapse, TypeOK
<1>4. /\ task'[k].status = "running" /\ task'[k].retries = task[k].retries
      /\ task'[k].version = task[k].version
  BY <1>1, <1>3 DEF TypeOK, Task
<1>5. AttemptsLeft'
  BY <1>1, <1>2, <1>4 DEF RowInv, AttemptsLeft
<1>6. JobsExist'
  BY <1>1, <1>2, <1>4 DEF RowInv, JobsExist
<1>7. BusyOwns'
  BY <1>1, <1>2 DEF RowInv, BusyOwns, Busy
<1>8. SentIsRecorded'
  BY <1>1, <1>2 DEF RowInv, SentIsRecorded, Busy
<1> QED BY <1>2, <1>4, <1>5, <1>6, <1>7, <1>8 DEF RowInv

\* The robot executes the action, and the answer arrives or is lost.
LEMMA CallStep ==
    ASSUME TypeOK, RowInv, NEW w \in Workers, CallOneBot(w) \/ CallTimesOut(w)
    PROVE  RowInv'
<1> DEFINE j == job[w]
<1>1. /\ step[w] = "send" /\ j \in Keys /\ UNCHANGED <<task, job, tried>>
      /\ sent' = [sent EXCEPT ![j] = @ + 1]
      /\ \/ disturbed' = disturbed \cup {j}
         \/ disturbed' = disturbed /\ step'[w] \in {"mark", "complete"}
      /\ disturbed \subseteq disturbed'
      /\ \A v \in Workers \ {w} : step'[v] = step[v]
      /\ step'[w] # "idle"
  BY DEF CallOneBot, CallTimesOut, Goto, TypeOK, RowInv, JobsExist
<1>2. \A v \in Workers : step'[v] # "idle" => step[v] # "idle"
  BY <1>1
<1>3. j \notin disturbed => task[j].status = "running" /\ sent[j] = 0
                           /\ \A v \in Workers : Busy(v, j) => v = w
  BY <1>1 DEF RowInv, BusyOwns, SentIsRecorded, Busy
<1>4. AttemptsLeft'
  BY <1>1 DEF RowInv, AttemptsLeft
<1>5. JobsExist'
  BY <1>1, <1>2 DEF RowInv, JobsExist
<1>6. BusyOwns'
  BY <1>1, <1>2 DEF RowInv, BusyOwns, Busy
<1>7. SentIsRecorded'
  <2>1. ASSUME NEW k \in Keys \ disturbed', k # j
        PROVE  /\ sent'[k] \in {0, 1}
               /\ sent'[k] = 1 =>
                   \/ task'[k].status = "succeeded"
                   \/ /\ task'[k].status = "running"
                      /\ \A v \in Workers : Busy(v, k)' => step'[v] \in {"mark", "complete"}
    BY <2>1, <1>1, <1>2 DEF RowInv, SentIsRecorded, Busy, TypeOK
  <2>2. ASSUME j \notin disturbed'
        PROVE  /\ sent'[j] = 1 /\ task'[j].status = "running"
               /\ \A v \in Workers : Busy(v, j)' => step'[v] \in {"mark", "complete"}
    <3>1. sent'[j] = 1
      BY <2>2, <1>1, <1>3 DEF TypeOK
    <3>2. \A v \in Workers : Busy(v, j)' => step'[v] \in {"mark", "complete"}
      BY <2>2, <1>1, <1>2, <1>3 DEF Busy
    <3> QED BY <2>2, <3>1, <3>2, <1>1, <1>3
  <2>3. ASSUME NEW k \in Keys \ disturbed'
        PROVE  /\ sent'[k] \in {0, 1}
               /\ sent'[k] = 1 =>
                   \/ task'[k].status = "succeeded"
                   \/ /\ task'[k].status = "running"
                      /\ \A v \in Workers : Busy(v, k)' => step'[v] \in {"mark", "complete"}
    <3>1. CASE k = j
      <4>1. sent'[k] = 1 /\ task'[k].status = "running"
        BY <2>2, <3>1
      <4>2. \A v \in Workers : Busy(v, k)' => step'[v] \in {"mark", "complete"}
        BY <2>2, <3>1, <1>1 DEF Busy
      <4> QED BY <4>1, <4>2
    <3>2. CASE k # j
      BY <2>1, <3>2
    <3> QED BY <3>1, <3>2
  <2> QED BY <2>3 DEF SentIsRecorded
<1> QED BY <1>4, <1>5, <1>6, <1>7 DEF RowInv

LEMMA WorkStep ==
    ASSUME TypeOK, RowInv, NEW w \in Workers, Work(w)
    PROVE  RowInv' /\ \A k \in Keys : task'[k].version = task[k].version
<1>0. tried[w] < MaxRetries
  BY DEF RowInv, AttemptsLeft
<1>1. CASE Check(w) \/ ReadFails(w) \/ NotConnected(w) \/ CallFails(w)
  <2>1. PICK s \in Steps \ {"idle"} : Goto(w, s) /\ s \notin {"mark", "complete"}
    BY <1>1 DEF Check, ReadFails, NotConnected, CallFails, Steps
  <2>2. /\ step[w] \in {"check", "send"} /\ UNCHANGED <<task, job, tried, sent, disturbed>>
    BY <1>1 DEF Check, ReadFails, NotConnected, CallFails, historyVars
  <2> QED BY <2>1, <2>2, MoveStep
<1>2. CASE Postpone(w)
  BY <1>2, <1>0, ReleaseStep DEF Postpone, Queued
<1>3. CASE Cancel(w)
  BY <1>3, ReleaseStep DEF Cancel, Settled, Queued
<1>4. CASE CallOneBot(w) \/ CallTimesOut(w)
  BY <1>4, CallStep DEF CallOneBot, CallTimesOut
<1>5. CASE Mark(w)
  <2>1. CASE member.version = task[job[w]].version
    <3>1. Goto(w, "complete") /\ step[w] = "mark" /\ UNCHANGED <<task, job, tried, sent, disturbed>>
      BY <1>5, <2>1 DEF Mark
    <3> QED BY <3>1, MoveStep DEF Steps
  <2>2. CASE member.version # task[job[w]].version
    BY <1>5, <2>2, ReturnStep DEF Mark
  <2> QED BY <2>1, <2>2
<1>6. CASE Complete(w)
  BY <1>6, ReleaseStep DEF Complete, Settled, Queued
<1>7. CASE FailTask(w)
  <2> DEFINE count == tried[w] + 1
             status == IF step[w] = "fail_final" \/ Exhausted(count) THEN "dead" ELSE "retry_wait"
  <2>1. Release(w, status, count, step[w] = "fail_disconnected")
        /\ step[w] \in {"fail", "fail_disconnected", "fail_final"}
    BY <1>7 DEF FailTask
  <2>2. status \in Queued \cup Settled \cup {"dead"} /\ (status \in Queued => count < MaxRetries)
    BY QueueAssumption DEF Exhausted, Queued, TypeOK
  <2> HIDE DEF status, count
  <2> QED BY <2>1, <2>2, ReleaseStep
<1> QED BY <1>1, <1>2, <1>3, <1>4, <1>5, <1>6, <1>7 DEF Work

\* Versions of rows some worker has in hand do not change either.
LEMMA RowStep ==
    ASSUME TypeOK, RowInv, [Next]_vars
    PROVE  /\ RowInv'
           /\ \A w \in Workers : step[w] # "idle" => task'[job[w]].version = task[job[w]].version
<1> USE DEF historyVars
<1>0. ASSUME UNCHANGED <<workerVars, sent, disturbed, task>>
      PROVE  /\ RowInv'
             /\ \A w \in Workers : step[w] # "idle" => task'[job[w]].version = task[job[w]].version
  BY <1>0, ShelfStep
<1>1. ASSUME NEW u \in Updates, Open(u) \/ RollBack(u) \/ Sweep(u)
      PROVE  UNCHANGED <<workerVars, sent, disturbed, task>>
  BY <1>1 DEF Open, RollBack, Sweep
<1>2. ASSUME NEW u \in Updates, Commit(u)
      PROVE  /\ UNCHANGED <<workerVars, sent, disturbed>>
             /\ \A k \in Keys : task'[k] = task[k] \/ Shelved(k)
  <2>1. seen[u].member.version + 1 \in Nat
    BY DEF TypeOK, Member
  <2> QED BY <1>2, <2>1, EnqueueShelves DEF Commit
<1>3. ASSUME NEW u \in Updates, EnqueueGroupNotifications(u)
      PROVE  /\ UNCHANGED <<workerVars, sent, disturbed>>
             /\ \A k \in Keys : task'[k] = task[k] \/ Shelved(k)
  BY <1>3, EnqueueShelves DEF EnqueueGroupNotifications
<1>4. ASSUME NEW w \in Workers, NEW k \in Keys, Claim(w, k)
      PROVE  RowInv' /\ \A t \in Keys : task'[t].version = task[t].version
  BY <1>4, ClaimStep
<1>5. ASSUME NEW w \in Workers, Work(w)
      PROVE  RowInv' /\ \A t \in Keys : task'[t].version = task[t].version
  BY <1>5, WorkStep
<1>6. ASSUME NEW w \in Workers, Drop(w)
      PROVE  RowInv' /\ \A t \in Keys : task'[t].version = task[t].version
  BY <1>6, ReturnStep DEF Drop
<1>7. ASSUME NEW k \in Keys, Lapse(k)
      PROVE  RowInv' /\ \A t \in Keys : task'[t].version = task[t].version
  BY <1>7, LapseStep
<1>8. ASSUME NEW k \in Keys, RetryTask(k)
      PROVE  /\ UNCHANGED <<workerVars, sent, disturbed>>
             /\ \A t \in Keys : task'[t] = task[t] \/ Shelved(t)
  BY <1>8, RetryShelves DEF RetryTask
<1>9. CASE OnOneBotConnected \/ RecoverDisconnectedTasks
  <2>1. UNCHANGED <<workerVars, sent, disturbed>>
    BY <1>9 DEF OnOneBotConnected, RecoverDisconnectedTasks
  <2>2. \A k \in Keys : task'[k] = task[k] \/ Shelved(k)
    BY <1>9, RecoverShelves DEF OnOneBotConnected, RecoverDisconnectedTasks
  <2> QED BY <2>1, <2>2, ShelfStep
<1>10. CASE Disconnect \/ Reconnect \/ SavePolicy \/ AbandonCancel \/ UNCHANGED vars
  <2>1. UNCHANGED <<workerVars, sent, disturbed, task>>
    BY <1>10 DEF Disconnect, Reconnect, SavePolicy, AbandonCancel, vars
  <2> QED BY <1>0, <2>1
<1>11. CASE CancelPendingActionTasks
  <2>1. UNCHANGED <<workerVars, sent, disturbed>>
    BY <1>11 DEF CancelPendingActionTasks
  <2> QED BY <1>11, <2>1, CancelShelves, ShelfStep
<1>12. \A w \in Workers : step[w] # "idle" => job[w] \in Keys
  BY DEF RowInv, JobsExist
<1> QED BY <1>0, <1>1, <1>2, <1>3, <1>4, <1>5, <1>6, <1>7, <1>8, <1>9, <1>10, <1>11, <1>12,
           ShelfStep DEF Next, Update

-----------------------------------------------------------------------------
(* What was found valid *)

\* Nothing an action's validity rests on changes under a fresh worker.
LEMMA ValidityKept ==
    ASSUME NEW w \in Workers, UNCHANGED <<policy, member>>, StillValid(job[w]),
           job'[w] = job[w], task'[job[w]].version = task[job[w]].version
    PROVE  StillValid(job[w])'
BY DEF StillValid

LEMMA FreshStep ==
    ASSUME TypeOK, RowInv, FreshIsValid, [Next]_vars
    PROVE  FreshIsValid'
<1>1. \A v \in Workers : step[v] # "idle" => task'[job[v]].version = task[job[v]].version
  BY RowStep
<1> SUFFICES ASSUME NEW v \in fresh', step'[v] = "send" PROVE StillValid(job[v])'
  BY DEF FreshIsValid
\* A worker that was fresh at "send" before the step and has not moved.
<1>2. ASSUME v \in fresh, step[v] = "send", job'[v] = job[v], UNCHANGED <<policy, member>>
      PROVE  StillValid(job[v])'
  BY <1>1, <1>2, ValidityKept DEF FreshIsValid, TypeOK
<1>3. ASSUME UNCHANGED <<step, job, fresh, policy, member>> PROVE StillValid(job[v])'
  BY <1>2, <1>3
<1>4. CASE \E u \in Updates : Update(u)
  <2>1. PICK u \in Updates : Update(u)
    BY <1>4
  <2>2. CASE Commit(u) \/ Sweep(u)
    BY <2>2 DEF Commit, Sweep
  <2>3. CASE Open(u) \/ RollBack(u) \/ EnqueueGroupNotifications(u)
    BY <2>3, <1>3 DEF Open, RollBack, EnqueueGroupNotifications, workerVars, historyVars
  <2> QED BY <2>1, <2>2, <2>3 DEF Update
<1>5. ASSUME NEW w \in Workers, NEW k \in Keys, Claim(w, k) PROVE StillValid(job[v])'
  <2>1. v # w
    BY <1>5 DEF Claim, Goto, TypeOK
  <2>2. v \in fresh /\ step[v] = "send" /\ job'[v] = job[v]
    BY <1>5, <2>1 DEF Claim, Goto, TypeOK
  <2> QED BY <1>5, <2>2, <1>2 DEF Claim
<1>6. ASSUME NEW w \in Workers, Return(w), UNCHANGED <<policy, member>> PROVE StillValid(job[v])'
  <2>1. v # w
    BY <1>6 DEF Return
  <2>2. v \in fresh /\ step[v] = "send" /\ job'[v] = job[v]
    BY <1>6, <2>1 DEF Return, Goto, TypeOK
  <2> QED BY <1>6, <2>2, <1>2
<1>7. ASSUME NEW w \in Workers, Work(w) PROVE StillValid(job[v])'
  <2>1. CASE Check(w)
    <3>1. UNCHANGED <<policy, member, task, job, fresh>>
      BY <2>1 DEF Check, historyVars
    <3>2. CASE v = w
      <4>1. StillValid(job[v])
        BY <2>1, <3>2 DEF Check, Goto, TypeOK
      <4> QED BY <4>1, <3>1, ValidityKept DEF TypeOK
    <3>3. CASE v # w
      BY <2>1, <3>1, <3>3, <1>2 DEF Check, Goto, TypeOK
    <3> QED BY <3>2, <3>3
  <2>2. CASE Postpone(w) \/ Cancel(w) \/ Complete(w) \/ FailTask(w)
    BY <2>2, <1>6 DEF Postpone, Cancel, Complete, FailTask, Release
  <2>3. CASE NotConnected(w) \/ CallOneBot(w) \/ CallTimesOut(w) \/ CallFails(w) \/ ReadFails(w)
    <3>1. UNCHANGED <<policy, member, job, fresh>>
      BY <2>3 DEF ReadFails, NotConnected, CallOneBot, CallTimesOut, CallFails, historyVars
    <3>2. v # w
      BY <2>3 DEF ReadFails, NotConnected, CallOneBot, CallTimesOut, CallFails, Goto, TypeOK
    <3>3. step[v] = "send"
      <4>1. PICK s : Goto(w, s)
        BY <2>3 DEF ReadFails, NotConnected, CallOneBot, CallTimesOut, CallFails
      <4> QED BY <4>1, <3>2 DEF Goto, TypeOK
    <3> QED BY <3>1, <3>3, <1>2
  <2>4. CASE Mark(w)
    <3>1. CASE member.version = task[job[w]].version
      <4>1. v # w /\ step[v] = "send" /\ UNCHANGED <<policy, member, job, fresh>>
        BY <2>4, <3>1 DEF Mark, Goto, TypeOK
      <4> QED BY <4>1, <1>2
    <3>2. CASE member.version # task[job[w]].version
      BY <2>4, <3>2, <1>6 DEF Mark
    <3> QED BY <3>1, <3>2
  <2> QED BY <1>7, <2>1, <2>2, <2>3, <2>4 DEF Work
<1>8. ASSUME NEW w \in Workers, Drop(w) PROVE StillValid(job[v])'
  BY <1>8, <1>6 DEF Drop
<1>9. ASSUME NEW k \in Keys, Lapse(k) \/ RetryTask(k) PROVE StillValid(job[v])'
  BY <1>9, <1>3 DEF Lapse, RetryTask, workerVars, historyVars
<1>10. CASE SavePolicy
  BY <1>10 DEF SavePolicy
<1>11. CASE \/ Disconnect \/ Reconnect \/ OnOneBotConnected \/ RecoverDisconnectedTasks
            \/ CancelPendingActionTasks \/ AbandonCancel \/ UNCHANGED vars
  BY <1>11, <1>3 DEF Disconnect, Reconnect, OnOneBotConnected, RecoverDisconnectedTasks,
      CancelPendingActionTasks, AbandonCancel, vars, workerVars, historyVars
<1> QED BY <1>4, <1>5, <1>7, <1>8, <1>9, <1>10, <1>11 DEF Next

-----------------------------------------------------------------------------
(* Theorems *)

LEMMA InvInit == Init => QueueInv
<1> SUFFICES ASSUME Init PROVE QueueInv
  OBVIOUS
<1>1. TypeOK
  <2>1. /\ policy \in Policy /\ cancelling \in BOOLEAN /\ member \in Member
        /\ task \in [Keys -> Task] /\ seen \in [Updates -> [member : Member, policy : Policy]]
    BY ConstantTypes DEF Init
  <2>2. /\ step \in [Workers -> Steps] /\ job \in [Workers -> Keys \cup {NoKey}]
        /\ tried \in [Workers -> 0 .. MaxRetries]
        /\ ustep \in [Updates -> {"idle", "open", "done"}]
    BY QueueAssumption DEF Init, Steps
  <2>3. /\ connected \in BOOLEAN /\ recovering \in Nat /\ sent \in [Keys -> Nat]
        /\ disturbed \subseteq Keys /\ fresh \subseteq Workers
        /\ faults \in Nat /\ saves \in Nat /\ acts \in Nat
    BY DEF Init
  <2> QED BY <2>1, <2>2, <2>3 DEF TypeOK
<1>2. \A k \in Keys : task[k].status = "none" /\ task[k].lapsed = FALSE /\ sent[k] = 0
  BY DEF Init, NoTask
<1>3. \A w \in Workers : step[w] = "idle" /\ tried[w] = 0
  BY DEF Init
<1>4. AttemptsLeft /\ JobsExist
  BY <1>2, <1>3, QueueAssumption DEF AttemptsLeft, JobsExist, Queued
<1>5. BusyOwns /\ SentIsRecorded
  BY <1>2, <1>3 DEF BusyOwns, SentIsRecorded, Busy
<1>6. FreshIsValid
  BY DEF Init, FreshIsValid
<1> QED BY <1>1, <1>4, <1>5, <1>6 DEF QueueInv

LEMMA InvStep == QueueInv /\ [Next]_vars => QueueInv'
<1> SUFFICES ASSUME QueueInv, [Next]_vars PROVE QueueInv'
  OBVIOUS
<1>1. TypeOK /\ RowInv /\ FreshIsValid /\ AttemptsLeft /\ JobsExist
  BY DEF QueueInv, RowInv
<1>2. TypeOK'
  BY <1>1, TypeStep
<1>3. RowInv'
  BY <1>1, RowStep
<1>4. FreshIsValid'
  BY <1>1, FreshStep
<1> QED BY <1>2, <1>3, <1>4 DEF QueueInv, RowInv

\* The inductive invariant: what a busy worker knows about the row of its action.
THEOREM InvariantHolds == Spec => []QueueInv
BY InvInit, InvStep, PTL DEF Spec

\* Every state of the queue is well typed; retries stay within qqGovernanceMaxRetries.
THEOREM TypesHold == Spec => []TypeOK
<1>1. QueueInv => TypeOK
  BY DEF QueueInv
<1> QED BY <1>1, InvariantHolds, PTL

\* Claims, retries, recoveries and policy updates of any number of workers never
\* send an action twice, unless its lease lapsed or an answer was lost.
THEOREM NoNeedlessResend == Spec => []ResentOnlyAfterFault
<1>1. QueueInv => ResentOnlyAfterFault
  BY DEF QueueInv, SentIsRecorded, ResentOnlyAfterFault
<1> QED BY <1>1, InvariantHolds, PTL

\* Which statements write a row, by what the row was: the queued, running and
\* lapsed ones the workers', the dead one an operator's, the settled one nobody's.
LEMMA RowChange ==
    ASSUME QueueInv, [Next]_vars, NEW k \in Keys, task'[k] # task[k]
    PROVE  /\ task[k].status \notin Settled
           /\ task[k].status = "dead" => acts' # acts
           /\ task[k].status = "running" /\ ~task[k].lapsed =>
                \/ task'[k] = [task[k] EXCEPT !.lapsed = TRUE]
                \/ \E w \in Workers : w = task[k].holder /\ step'[w] # step[w]
<1> DEFINE Goal ==
        /\ task[k].status \notin Settled
        /\ task[k].status = "dead" => acts' # acts
        /\ task[k].status = "running" /\ ~task[k].lapsed =>
                \/ task'[k] = [task[k] EXCEPT !.lapsed = TRUE]
                \/ \E w \in Workers : w = task[k].holder /\ step'[w] # step[w]
<1>0. TypeOK
  BY DEF QueueInv
<1>1. ASSUME task[k].status \in Queued \cup {"none"} PROVE Goal
  BY <1>1 DEF Queued, Settled
<1>2. ASSUME NEW w \in Workers, NEW status, NEW retries, NEW blocked,
             Release(w, status, retries, blocked), step[w] # "idle"
      PROVE  Goal
  <2>1. Owns(w) /\ job[w] = k
    BY <1>0, <1>2 DEF Release, TypeOK
  <2>2. step'[w] # step[w]
    BY <1>0, <1>2 DEF Release, Return, Goto, TypeOK
  <2> QED BY <2>1, <2>2 DEF Owns, Settled
<1>3. ASSUME NEW u \in Updates, Update(u) PROVE Goal
  <2>1. task[k].status = "none"
    BY <1>3 DEF Update, Open, Commit, RollBack, Sweep, EnqueueGroupNotifications, Enqueue
  <2> QED BY <1>1, <2>1
<1>4. ASSUME NEW w \in Workers, NEW t \in Keys, Claim(w, t) PROVE Goal
  <2>1. Claimable(k)
    BY <1>0, <1>4 DEF Claim, TypeOK
  <2> QED BY <2>1 DEF Claimable, Queued, Settled
<1>5. ASSUME NEW w \in Workers, Work(w) PROVE Goal
  <2>1. CASE Postpone(w)
    BY <2>1, <1>2 DEF Postpone
  <2>2. CASE Cancel(w)
    BY <2>2, <1>2 DEF Cancel
  <2>3. CASE Complete(w)
    BY <2>3, <1>2 DEF Complete
  <2>4. CASE FailTask(w)
    BY <2>4, <1>2 DEF FailTask
  <2>5. CASE Check(w) \/ ReadFails(w) \/ NotConnected(w) \/ CallOneBot(w) \/ CallTimesOut(w) \/ CallFails(w) \/ Mark(w)
    BY <2>5 DEF Check, ReadFails, NotConnected, CallOneBot, CallTimesOut, CallFails, Mark
  <2> QED BY <1>5, <2>1, <2>2, <2>3, <2>4, <2>5 DEF Work
<1>6. ASSUME NEW w \in Workers, Drop(w) PROVE Goal
  BY <1>6 DEF Drop
<1>7. ASSUME NEW t \in Keys, Lapse(t) PROVE Goal
  <2>1. t = k /\ task'[k] = [task[k] EXCEPT !.lapsed = TRUE] /\ task[k].status = "running"
    BY <1>0, <1>7 DEF Lapse, TypeOK
  <2> QED BY <2>1 DEF Settled
<1>8. ASSUME NEW t \in Keys, RetryTask(t) PROVE Goal
  <2>1. t = k /\ task[k].status = "dead" /\ acts' = acts + 1
    BY <1>0, <1>8 DEF RetryTask, Operator, TypeOK
  <2> QED BY <1>0, <2>1 DEF Settled, TypeOK
<1>9. CASE RecoverDisconnectedTasks
  <2>1. task[k].status \in {"retry_wait", "dead"} /\ acts' = acts + 1
    BY <1>9 DEF RecoverDisconnectedTasks, Recover, Operator
  <2> QED BY <1>0, <2>1 DEF Settled, TypeOK
<1>10. CASE OnOneBotConnected
  <2>1. task[k].status = "retry_wait"
    BY <1>10 DEF OnOneBotConnected, Recover
  <2> QED BY <1>1, <2>1 DEF Queued
<1>11. CASE CancelPendingActionTasks
  <2>1. task[k].status \in Queued
    BY <1>11 DEF CancelPendingActionTasks
  <2> QED BY <1>1, <2>1
<1>12. CASE Disconnect \/ Reconnect \/ SavePolicy \/ AbandonCancel \/ UNCHANGED vars
  BY <1>12 DEF Disconnect, Reconnect, SavePolicy, AbandonCancel, vars
<1> QED BY <1>3, <1>4, <1>5, <1>6, <1>7, <1>8, <1>9, <1>10, <1>11, <1>12 DEF Next

\* No step, of a worker with a lost lease either, revives a settled action; a
\* dead one comes back by an operator's call.
THEOREM SettledStaysSettled == Spec => SettledStays
<1>1. QueueInv /\ [Next]_vars =>
        [\A k \in Keys :
            /\ task[k].status \in Settled => task'[k] = task[k]
            /\ task[k].status = "dead" /\ task'[k] # task[k] => acts' # acts]_vars
  BY RowChange
<1> QED BY <1>1, InvariantHolds, PTL DEF Spec, SettledStays

\* While a lease runs, only its holder changes the action.
THEOREM LeaseIsExclusive == Spec => LeaseProtects
<1>1. QueueInv /\ [Next]_vars =>
        [\A k \in Keys : task[k].status = "running" /\ ~task[k].lapsed /\ task'[k] # task[k] =>
            \/ task'[k] = [task[k] EXCEPT !.lapsed = TRUE]
            \/ \E w \in Workers : w = task[k].holder /\ step'[w] # step[w]]_vars
  BY RowChange
<1> QED BY <1>1, InvariantHolds, PTL DEF Spec, LeaseProtects

\* What is sent applies to the member and policy of that moment, unless one of
\* them changed after the claim.
THEOREM OnlyValidIsSent == Spec => SentIsValid
<1>1. QueueInv /\ [Next]_vars =>
        [\A w \in Workers :
            step[w] = "send" /\ sent' # sent /\ step'[w] # step[w] /\ w \in fresh =>
                StillValid(job[w])]_vars
  BY DEF QueueInv, FreshIsValid
<1> QED BY <1>1, InvariantHolds, PTL DEF Spec, SentIsValid

=============================================================================
