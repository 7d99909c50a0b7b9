--------------------------- MODULE QQActionQueue ---------------------------
(***************************************************************************)
(* QQ group governance: the action queue (server/internal/service/         *)
(* qq_governance.go, qq_governance_worker.go, repository/qq_governance.go) *)
(* of one group and one member.                                            *)
(*                                                                         *)
(* Updates (events pushed by the OneBot robot, the checks and the sweep of  *)
(* a reconcile run, notifications) decide about the member, advance the    *)
(* version of its row and queue actions. Workers, of one or several server processes, *)
(* claim an action under a lease, check that it still applies, send it     *)
(* over the robot's connection and write the outcome back by the token of  *)
(* the lease. Every statement sent to the database is one step.            *)
(***************************************************************************)
EXTENDS Integers, FiniteSets

CONSTANTS Updates,                  \* calls that decide about the member
          Kind, EventKey,           \* what each is, and the key of its event
          Workers, NoWorker, NoUpdate,
          MaxRetries,               \* qqGovernanceMaxRetries
          MaxFaults, MaxSaves, MaxOperatorActs      \* bounds

EventKinds == {"request", "increase", "decrease"}

ASSUME QueueAssumption ==
    /\ Kind \in [Updates -> EventKinds \cup {"reconcile", "sweep", "notify"}]
    /\ EventKey \in [Updates -> Updates]       \* named by the first push of the event
    /\ NoWorker \notin Workers /\ NoUpdate \notin Updates
    /\ MaxRetries \in Nat \ {0}
    /\ MaxFaults \in Nat /\ MaxSaves \in Nat /\ MaxOperatorActs \in Nat

VARIABLES policy,                   \* the policy row: enabled, card sync
          cancelling,               \* SavePolicy has yet to cancel queued cards
          member,                   \* the member row: version, status, deciding update
          recorded,                 \* keys of the events stored
          ustep, seen,              \* each update's step and what it read
          task,                     \* the action rows by idempotency key
          step, job, tried,         \* each worker's step, action and its retry count
          connected, recovering,    \* the robot's reverse WebSocket is up; its recoveries to come
          sent, disturbed, fresh,   \* history
          faults, saves, acts       \* bounds

updateVars == <<recorded, ustep, seen>>
workerVars == <<step, job, tried>>
linkVars == <<connected, recovering>>
historyVars == <<sent, disturbed, fresh>>
boundVars == <<faults, saves, acts>>
vars == <<policy, cancelling, member, updateVars, task, workerVars, linkVars,
          historyVars, boundVars>>

Versions == 1 .. Cardinality(Updates)
\* Idempotency keys: of the version for cards and kicks, which each update
\* advances at most by one, of the event for the answer to a join request; a
\* notification has a key of its own.
Keys == {"card", "kick"} \X Versions \cup {"decide", "notify"} \X Updates
NoKey == <<"no", 0>>

MemberStatus == {"absent", "join_pending", "valid", "invalid_candidate",
                 "invalid_confirmed", "left"}
Member == [version : Nat, status : MemberStatus, by : Updates \cup {NoUpdate}]
Policy == [enabled : BOOLEAN, cardSync : BOOLEAN]
Queued == {"pending", "retry_wait"}
Settled == {"succeeded", "cancelled"}
TaskStatus == {"none", "running", "dead"} \cup Queued \cup Settled
Task == [status : TaskStatus, holder : Workers \cup {NoWorker}, lapsed : BOOLEAN,
         retries : 0 .. MaxRetries, blocked : BOOLEAN,
         version : Nat, by : Updates \cup {NoUpdate}]
Steps == {"idle", "check", "cancel", "send", "mark", "complete",
          "fail", "fail_disconnected", "fail_final"}

TypeOK ==
    /\ policy \in Policy /\ cancelling \in BOOLEAN
    /\ member \in Member
    /\ ustep \in [Updates -> {"idle", "open", "done"}]
    /\ seen \in [Updates -> [member : Member, policy : Policy]]
    /\ task \in [Keys -> Task]
    /\ step \in [Workers -> Steps]
    /\ job \in [Workers -> Keys \cup {NoKey}]
    /\ tried \in [Workers -> 0 .. MaxRetries]
    /\ connected \in BOOLEAN /\ recovering \in Nat
    /\ sent \in [Keys -> Nat] /\ disturbed \subseteq Keys /\ fresh \subseteq Workers
    /\ faults \in Nat /\ saves \in Nat /\ acts \in Nat

NoTask == [status |-> "none", holder |-> NoWorker, lapsed |-> FALSE, retries |-> 0,
           blocked |-> FALSE, version |-> 0, by |-> NoUpdate]
NoMember == [version |-> 0, status |-> "absent", by |-> NoUpdate]
AllOn == [enabled |-> TRUE, cardSync |-> TRUE]
Nothing == [member |-> NoMember, policy |-> AllOn]

Init ==
    /\ policy = AllOn /\ cancelling = FALSE
    /\ member = NoMember
    /\ recorded = {}
    /\ ustep = [u \in Updates |-> "idle"]
    /\ seen = [u \in Updates |-> Nothing]
    /\ task = [k \in Keys |-> NoTask]
    /\ step = [w \in Workers |-> "idle"]
    /\ job = [w \in Workers |-> NoKey]
    /\ tried = [w \in Workers |-> 0]
    /\ connected = TRUE /\ recovering = 0
    /\ sent = [k \in Keys |-> 0] /\ disturbed = {} /\ fresh = {}
    /\ faults = 0 /\ saves = 0 /\ acts = 0

Fault == faults < MaxFaults /\ faults' = faults + 1 /\ UNCHANGED <<saves, acts>>
Operator == acts < MaxOperatorActs /\ acts' = acts + 1 /\ UNCHANGED <<faults, saves>>

-----------------------------------------------------------------------------
(* Updates *)

\* The row a new action starts with.
NewTask(v, u) == [NoTask EXCEPT !.status = "pending", !.version = v, !.by = u]

\* CreateActionTaskIfAbsentTx: an action with the key of an earlier one is dropped.
Enqueue(keys, v, u) ==
    task' = [k \in Keys |-> IF k \in keys /\ task[k].status = "none"
                            THEN NewTask(v, u) ELSE task[k]]

Done(u) == ustep' = [ustep EXCEPT ![u] = "done"]
Close(u) == Done(u) /\ seen' = [seen EXCEPT ![u] = Nothing]

Stored(u) == Kind[u] \in EventKinds /\ EventKey[u] \in recorded
Store(u) == recorded' = IF Kind[u] \in EventKinds THEN recorded \cup {EventKey[u]} ELSE recorded

\* A transaction opens: it stores the event (an equal key waits for the
\* transaction that holds it, and ends the call once that one is committed), and
\* reads the policy and, without a lock, the member, here in one step.
Open(u) ==
    /\ ustep[u] = "idle" /\ Kind[u] \notin {"notify", "sweep"}
    /\ Kind[u] \in EventKinds =>
        \A v \in Updates : EventKey[v] = EventKey[u] => ustep[v] # "open"
    /\ IF Stored(u) \/ ~policy.enabled
       THEN Done(u) /\ Store(u) /\ UNCHANGED seen
       ELSE /\ ustep' = [ustep EXCEPT ![u] = "open"]
            /\ seen' = [seen EXCEPT ![u] = [member |-> member, policy |-> policy]]
            /\ UNCHANGED recorded
    /\ UNCHANGED <<policy, cancelling, member, task, workerVars, linkVars, historyVars, boundVars>>

\* Two first rows for the member collide on the unique index.
Collides(u) == seen[u].member.version = 0 /\ member.version > 0

Verdicts(u) == CASE Kind[u] = "decrease" -> {"left"}
                 [] Kind[u] = "reconcile" -> {"valid", "invalid_candidate", "invalid_confirmed"}
                 [] OTHER -> {"valid", "invalid_candidate"}

\* The sets of actions a verdict may call for. Applicants who do not match are
\* refused only if the policy says so; a card is left alone when it is already
\* right or cannot be rendered.
Actions(u, verdict, v) ==
    CASE Kind[u] = "request" -> {{<<"decide", EventKey[u]>>}, {}}
      [] Kind[u] \in {"increase", "reconcile"} /\ verdict = "valid" /\ seen[u].policy.cardSync ->
            {{<<"card", v>>}, {}}
      [] verdict = "invalid_confirmed" -> {{<<"kick", v>>}}
      [] OTHER -> {{}}

\* It saves the whole member row with the version it read plus one, queues the
\* action and commits.
Commit(u) ==
    LET v == seen[u].member.version + 1
    IN  /\ ustep[u] = "open" /\ ~Collides(u)
        /\ \E verdict \in Verdicts(u) :
            /\ member' = [version |-> v, by |-> u,
                          status |-> IF Kind[u] = "request" THEN "join_pending" ELSE verdict]
            /\ \E keys \in Actions(u, verdict, v) : Enqueue(keys, v, u)
        /\ Store(u)
        /\ Close(u)
        /\ fresh' = {}
        /\ UNCHANGED <<policy, cancelling, workerVars, linkVars, sent, disturbed, boundVars>>

\* The transaction fails and leaves nothing behind: the rows collide, or the
\* database or the server fails.
RollBack(u) ==
    /\ ustep[u] = "open"
    /\ IF Collides(u) THEN UNCHANGED boundVars ELSE Fault
    /\ Close(u)
    /\ UNCHANGED <<policy, cancelling, member, recorded, task, workerVars, linkVars,
                   historyVars>>

\* MarkMissingMembersLeft: the snapshot of a completed run lacks the member. The
\* version stays.
Sweep(u) ==
    /\ ustep[u] = "idle" /\ Kind[u] = "sweep"
    /\ Done(u)
    /\ member' = IF member.version = 0 THEN member ELSE [member EXCEPT !.status = "left"]
    /\ fresh' = {}
    /\ UNCHANGED <<policy, cancelling, recorded, seen, task, workerVars, linkVars, sent,
                   disturbed, boundVars>>

\* A webhook or structure alert queues a message.
EnqueueGroupNotifications(u) ==
    /\ ustep[u] = "idle" /\ Kind[u] = "notify"
    /\ Enqueue({<<"notify", u>>}, 0, u)
    /\ Done(u)
    /\ UNCHANGED <<policy, cancelling, member, recorded, seen, workerVars, linkVars,
                   historyVars, boundVars>>

-----------------------------------------------------------------------------
(* Workers *)

Goto(w, s) == step' = [step EXCEPT ![w] = s]

\* The worker returns to its ticker.
Return(w) ==
    /\ Goto(w, "idle")
    /\ job' = [job EXCEPT ![w] = NoKey]
    /\ tried' = [tried EXCEPT ![w] = 0]
    /\ fresh' = fresh \ {w}

\* Mutant of Claimable: a lapsed lease is never taken over.
ClaimableOnce(k) == task[k].status \in Queued

\* Waiting times are abstracted: a queued action may be due at any moment.
Claimable(k) ==
    \/ task[k].status \in Queued
    \/ task[k].status = "running" /\ task[k].lapsed

\* ClaimNextActionTask: the conditional update repeats the test of the listing
\* with the same clock reading, so both are one step.
Claim(w, k) ==
    /\ step[w] = "idle"
    /\ Claimable(k)
    /\ task' = [task EXCEPT ![k].status = "running", ![k].holder = w, ![k].lapsed = FALSE]
    /\ Goto(w, "check")
    /\ job' = [job EXCEPT ![w] = k]
    /\ tried' = [tried EXCEPT ![w] = task[k].retries]
    /\ fresh' = fresh \cup {w}
    /\ UNCHANGED <<policy, cancelling, member, updateVars, linkVars, sent, disturbed, boundVars>>

\* Thirty seconds have passed since the claim. That a worker is still at it takes a stall.
Lapse(k) ==
    /\ task[k].status = "running" /\ ~task[k].lapsed
    /\ IF \E w \in Workers : step[w] # "idle" /\ job[w] = k THEN Fault ELSE UNCHANGED boundVars
    /\ task' = [task EXCEPT ![k].lapsed = TRUE]
    /\ disturbed' = disturbed \cup {k}
    /\ UNCHANGED <<policy, cancelling, member, updateVars, workerVars, linkVars, sent, fresh>>

\* updateClaimedTask finds the row by id, status and token of the lease.
Owns(w) == task[job[w]].status = "running" /\ task[job[w]].holder = w

\* The worker's last statement; without the lease it changes no row.
Release(w, status, retries, blocked) ==
    /\ task' = IF Owns(w)
               THEN [task EXCEPT ![job[w]].status = status, ![job[w]].holder = NoWorker,
                                 ![job[w]].lapsed = FALSE, ![job[w]].retries = retries,
                                 ![job[w]].blocked = blocked]
               ELSE task
    /\ Return(w)
    /\ UNCHANGED <<policy, cancelling, member, updateVars, linkVars, sent, disturbed>>

\* actionStillValid
StillValid(k) ==
    k[1] # "notify" =>
        /\ policy.enabled
        /\ task[k].version = member.version
        /\ k[1] = "card" => policy.cardSync /\ member.status = "valid"
        /\ k[1] = "kick" => member.status = "invalid_confirmed"

\* Mutant of Check: a retried action is not checked again.
CheckOnce(w) ==
    /\ step[w] = "check"
    /\ Goto(w, IF tried[w] > 0 \/ StillValid(job[w]) THEN "send" ELSE "cancel")
    /\ UNCHANGED <<policy, cancelling, member, updateVars, task, job, tried, linkVars,
                   historyVars, boundVars>>

Check(w) ==
    /\ step[w] = "check"
    /\ Goto(w, IF StillValid(job[w]) THEN "send" ELSE "cancel")
    /\ UNCHANGED <<policy, cancelling, member, updateVars, task, job, tried, linkVars,
                   historyVars, boundVars>>

\* Risk control or the check cannot read what they need.
ReadFails(w) ==
    /\ step[w] = "check"
    /\ Fault
    /\ Goto(w, "fail")
    /\ UNCHANGED <<policy, cancelling, member, updateVars, task, job, tried, linkVars,
                   historyVars>>

\* The risk control before the check, or the rate limiter after it, puts the
\* action off without counting an attempt.
Postpone(w) ==
    /\ step[w] \in {"check", "send"}
    /\ Fault
    /\ Release(w, "retry_wait", tried[w], FALSE)

Cancel(w) ==
    /\ step[w] = "cancel"
    /\ Release(w, "cancelled", tried[w], task[job[w]].blocked)
    /\ UNCHANGED boundVars

NotConnected(w) ==
    /\ step[w] = "send" /\ ~connected
    /\ Goto(w, "fail_disconnected")
    /\ UNCHANGED <<policy, cancelling, member, updateVars, task, job, tried, linkVars,
                   historyVars, boundVars>>

\* Mutant of CallOneBot: the answer is taken for a failure.
CallUnanswered(w) ==
    /\ step[w] = "send" /\ connected
    /\ sent' = [sent EXCEPT ![job[w]] = @ + 1]
    /\ Goto(w, "fail")
    /\ UNCHANGED <<policy, cancelling, member, updateVars, task, job, tried, linkVars,
                   disturbed, fresh, boundVars>>

\* The robot executes the action and its answer arrives.
CallOneBot(w) ==
    /\ step[w] = "send" /\ connected
    /\ sent' = [sent EXCEPT ![job[w]] = @ + 1]
    /\ Goto(w, IF job[w][1] = "card" THEN "mark" ELSE "complete")
    /\ UNCHANGED <<policy, cancelling, member, updateVars, task, job, tried, linkVars,
                   disturbed, fresh, boundVars>>

\* The robot executes it and the answer does not arrive within ten seconds.
CallTimesOut(w) ==
    /\ step[w] = "send" /\ connected
    /\ Fault
    /\ sent' = [sent EXCEPT ![job[w]] = @ + 1]
    /\ disturbed' = disturbed \cup {job[w]}
    /\ Goto(w, "fail")
    /\ UNCHANGED <<policy, cancelling, member, updateVars, task, job, tried, linkVars, fresh>>

\* The robot refuses, for a reason worth a retry or not, or the request never got to it.
CallFails(w) ==
    /\ step[w] = "send" /\ connected
    /\ Goto(w, "fail") \/ Goto(w, "fail_final")
    /\ UNCHANGED <<policy, cancelling, member, updateVars, task, job, tried, linkVars,
                   historyVars, boundVars>>

\* MarkMemberCardUpdated: when the version has moved on the worker returns with
\* the error and the action stays running until its lease lapses.
Mark(w) ==
    /\ step[w] = "mark"
    /\ IF member.version = task[job[w]].version
       THEN Goto(w, "complete") /\ UNCHANGED <<job, tried, fresh>>
       ELSE Return(w)
    /\ UNCHANGED <<policy, cancelling, member, updateVars, task, linkVars, sent, disturbed,
                   boundVars>>

Complete(w) ==
    /\ step[w] = "complete"
    /\ Release(w, "succeeded", tried[w], FALSE)
    /\ UNCHANGED boundVars

Exhausted(n) == n >= MaxRetries

\* failTask counts from the retries the worker read when it claimed the action.
FailTask(w) ==
    LET count == tried[w] + 1
    IN  /\ step[w] \in {"fail", "fail_disconnected", "fail_final"}
        /\ Release(w, IF step[w] = "fail_final" \/ Exhausted(count) THEN "dead" ELSE "retry_wait",
                   count, step[w] = "fail_disconnected")
        /\ UNCHANGED boundVars

\* The server dies, or a statement of the worker or its action log entry fails:
\* the worker gives up and the action stays as it is.
Drop(w) ==
    /\ step[w] # "idle"
    /\ Fault
    /\ Return(w)
    /\ UNCHANGED <<policy, cancelling, member, updateVars, task, linkVars, sent, disturbed>>

-----------------------------------------------------------------------------
(* The connection and the administrators *)

\* RecoverDisconnectedActionTasks
Recover(statuses) ==
    task' = [k \in Keys |->
                IF task[k].status \in statuses /\ task[k].blocked
                THEN [task[k] EXCEPT !.status = "pending", !.retries = 0, !.blocked = FALSE]
                ELSE task[k]]

Disconnect ==
    /\ connected /\ Fault
    /\ connected' = FALSE
    /\ UNCHANGED <<policy, cancelling, member, updateVars, task, workerVars, recovering, historyVars>>

\* Serve installs a connection where there was none.
Reconnect ==
    /\ ~connected
    /\ connected' = TRUE /\ recovering' = recovering + 1
    /\ UNCHANGED <<policy, cancelling, member, updateVars, task, workerVars, historyVars, boundVars>>

\* Mutant of OnOneBotConnected: dead actions come back too.
OnOneBotConnectedAll ==
    /\ recovering > 0 /\ recovering' = recovering - 1
    /\ Recover({"retry_wait", "dead"}) \/ UNCHANGED task
    /\ UNCHANGED <<policy, cancelling, member, updateVars, workerVars, connected, historyVars,
                   boundVars>>

\* Workers may use the connection already. A failure of the statement is logged.
OnOneBotConnected ==
    /\ recovering > 0 /\ recovering' = recovering - 1
    /\ Recover({"retry_wait"}) \/ UNCHANGED task
    /\ UNCHANGED <<policy, cancelling, member, updateVars, workerVars, connected, historyVars,
                   boundVars>>

RecoverDisconnectedTasks ==
    /\ connected /\ Operator
    /\ Recover({"retry_wait", "dead"})
    /\ UNCHANGED <<policy, cancelling, member, updateVars, workerVars, linkVars, historyVars>>

RetryTask(k) ==
    /\ task[k].status = "dead" /\ Operator
    /\ task' = [task EXCEPT ![k].status = "retry_wait", ![k].retries = 0, ![k].blocked = FALSE]
    /\ UNCHANGED <<policy, cancelling, member, updateVars, workerVars, linkVars, historyVars>>

\* SavePolicy writes the row, then cancels the queued cards in a second statement.
\* A deleted policy is one that is not enabled.
SavePolicy ==
    /\ ~cancelling
    /\ saves < MaxSaves /\ saves' = saves + 1
    /\ \E p \in Policy \ {policy} : policy' = p /\ cancelling' = ~p.cardSync
    /\ fresh' = {}
    /\ UNCHANGED <<member, updateVars, task, workerVars, linkVars, sent, disturbed, faults, acts>>

\* Mutant of CancelPendingActionTasks: running actions are cancelled as well.
CancelAllActionTasks ==
    /\ cancelling /\ cancelling' = FALSE
    /\ task' = [k \in Keys |-> IF k[1] = "card" /\ task[k].status \in Queued \cup {"running"}
                               THEN [task[k] EXCEPT !.status = "cancelled"] ELSE task[k]]
    /\ UNCHANGED <<policy, member, updateVars, workerVars, linkVars, historyVars, boundVars>>

CancelPendingActionTasks ==
    /\ cancelling /\ cancelling' = FALSE
    /\ task' = [k \in Keys |-> IF k[1] = "card" /\ task[k].status \in Queued
                               THEN [task[k] EXCEPT !.status = "cancelled"] ELSE task[k]]
    /\ UNCHANGED <<policy, member, updateVars, workerVars, linkVars, historyVars, boundVars>>

\* The request dies between the two statements.
AbandonCancel ==
    /\ cancelling /\ cancelling' = FALSE
    /\ Fault
    /\ UNCHANGED <<policy, member, updateVars, task, workerVars, linkVars, historyVars>>

-----------------------------------------------------------------------------
Update(u) ==
    Open(u) \/ Commit(u) \/ RollBack(u) \/ Sweep(u) \/ EnqueueGroupNotifications(u)

\* What RunActionWorkerOnce does after the claim, short of dying.
Work(w) ==
    \/ Check(w) \/ ReadFails(w) \/ Postpone(w) \/ Cancel(w) \/ NotConnected(w)
    \/ CallOneBot(w) \/ CallTimesOut(w) \/ CallFails(w) \/ Mark(w) \/ Complete(w) \/ FailTask(w)

Next ==
    \/ \E u \in Updates : Update(u)
    \/ \E w \in Workers : (\E k \in Keys : Claim(w, k)) \/ Work(w) \/ Drop(w)
    \/ \E k \in Keys : Lapse(k) \/ RetryTask(k)
    \/ Disconnect \/ Reconnect \/ OnOneBotConnected \/ RecoverDisconnectedTasks
    \/ SavePolicy \/ CancelPendingActionTasks \/ AbandonCancel

Spec == Init /\ [][Next]_vars

\* The ticker polls the queue for ever, a call is cut off after ten seconds and
\* leases run out by themselves.
FairSpec ==
    /\ Spec
    /\ \A w \in Workers : WF_vars(Work(w))
    /\ \A k \in Keys : WF_vars(\E w \in Workers : Claim(w, k)) /\ WF_vars(Lapse(k))

-----------------------------------------------------------------------------
(* Properties *)

\* The robot gets an action a second time only when its lease lapsed or an
\* answer was lost: two workers, retries and recoveries alone never repeat one.
ResentOnlyAfterFault == \A k \in Keys : sent[k] > 1 => k \in disturbed

\* As long as its lease runs, an action is changed by its holder and nobody
\* else: not by another worker, a policy update, an operator or a reconnection.
LeaseProtects ==
    [][\A k \in Keys : task[k].status = "running" /\ ~task[k].lapsed /\ task'[k] # task[k] =>
            \/ task'[k] = [task[k] EXCEPT !.lapsed = TRUE]
            \/ \E w \in Workers : w = task[k].holder /\ step'[w] # step[w]]_vars

\* A succeeded or cancelled action never comes back, not even through a worker
\* that lost its lease long ago, and a dead one only by an operator.
SettledStays ==
    [][\A k \in Keys :
        /\ task[k].status \in Settled => task'[k] = task[k]
        /\ task[k].status = "dead" /\ task'[k] # task[k] => acts' # acts]_vars

\* What reaches the robot applies to the member and the policy of that moment,
\* unless one of them changed after the worker had claimed the action.
SentIsValid ==
    [][\A w \in Workers :
            step[w] = "send" /\ sent' # sent /\ step'[w] # step[w] /\ w \in fresh =>
                StillValid(job[w])]_vars

\* The queue drains: once updates and operators have stopped, every action has
\* succeeded, was cancelled or is dead, with the robot connected or not.
QueueDrains == <>[](\A k \in Keys : task[k].status \in {"none", "dead"} \cup Settled)

-----------------------------------------------------------------------------
(* What the documentation says and the code does not keep *)

\* When the member changes, older card actions no longer pass the version check:
\* one that passes it was queued by the update that wrote the row.
SupersededCardIsStale ==
    \A k \in Keys : k[1] = "card" /\ task[k].status \in Queued /\ task[k].version = member.version =>
        task[k].by = member.by
=============================================================================
