----------------------------- MODULE TaskRunner -----------------------------
(***************************************************************************)
(* How a scheduled task runs and how the process stops:                    *)
(*   - taskregistry.Registry hands out one lock per task, with a token     *)
(*     that the holder's handle must match to claim or release it;         *)
(*   - TaskService runs a task under its lock and keeps a row of its       *)
(*     execution history;                                                  *)
(*   - background.Manager tracks the goroutines that outlive a request;    *)
(*   - main.shutdownServer stops cron, drains HTTP, waits for cron jobs,   *)
(*     then for the manager, all within one deadline.                      *)
(* A call is one attempt to run a task: an administrator's request, a cron *)
(* trigger or the one-shot run at start-up.                                *)
(***************************************************************************)
EXTENDS Integers, FiniteSets

CONSTANTS Tasks,            \* registered tasks that have a RunFunc
          Calls,            \* goroutines that may try to run one
          MaxTokens,        \* bound: locks taken in the life of a process
          MaxDbFailures,    \* bound: failed writes of an execution row
          MaxBoots          \* bound: restarts of the process

ASSUME TaskRunnerAssumption ==
    /\ Tasks # {}
    /\ MaxTokens \in Nat /\ MaxDbFailures \in Nat /\ MaxBoots \in Nat

VARIABLES held,             \* Registry: the token that holds each task's lock, 0 if free
          nextToken,        \* Registry: the last token handed out
          call,             \* each call: how it was triggered, its task, its handle
          pc,               \* each call's step
          row,              \* the execution row of the run under way
          shuttingDown,     \* Manager: refuses new goroutines, context cancelled
          tracked,          \* Manager: the wait group
          phase,            \* the process: how far the shutdown is
          deadlinePassed,   \* the shutdown budget is used up
          drained, waited,  \* history: every wait of the shutdown saw its end, the manager's did
          orphans,          \* tasks with an execution row nobody will close
          dbFailures, boots

registryVars == <<held, nextToken>>
callVars == <<call, pc, row>>
managerVars == <<shuttingDown, tracked>>
shutdownVars == <<phase, deadlinePassed, drained, waited>>
boundVars == <<dbFailures, boots>>
vars == <<registryVars, callVars, managerVars, shutdownVars, orphans, boundVars>>

Kinds == {"manual", "cron", "startup"}
Steps == {"idle", "locked", "spawned", "starting", "running", "ended", "closed"}
Phases == {"up", "cronStopped", "draining", "waitCron", "waitManager", "managerDone",
           "exited"}
RowStatus == {"none", "running", "success", "failed"}
Tokens == 0..MaxTokens
CallRecord == [kind : Kinds, task : Tasks, token : Tokens, claimed : BOOLEAN]
RowRecord == [status : RowStatus, result : RowStatus]

TypeOK ==
    /\ held \in [Tasks -> Tokens]
    /\ nextToken \in Tokens
    /\ call \in [Calls -> CallRecord]
    /\ pc \in [Calls -> Steps]
    /\ row \in [Calls -> RowRecord]
    /\ shuttingDown \in BOOLEAN
    /\ tracked \subseteq Calls
    /\ phase \in Phases
    /\ deadlinePassed \in BOOLEAN /\ drained \in BOOLEAN /\ waited \in BOOLEAN
    /\ orphans \subseteq Tasks
    /\ dbFailures \in Nat /\ boots \in Nat

NoCall == [kind |-> "cron", task |-> CHOOSE t \in Tasks : TRUE, token |-> 0, claimed |-> FALSE]
NoRow == [status |-> "none", result |-> "none"]

\* The memory of a fresh process: a new registry, a new manager.
Init ==
    /\ held = [t \in Tasks |-> 0]
    /\ nextToken = 0
    /\ call = [c \in Calls |-> NoCall]
    /\ pc = [c \in Calls |-> "idle"]
    /\ row = [c \in Calls |-> NoRow]
    /\ shuttingDown = FALSE
    /\ tracked = {}
    /\ phase = "up"
    /\ deadlinePassed = FALSE
    /\ drained = TRUE /\ waited = FALSE
    /\ orphans = {}
    /\ dbFailures = 0
    /\ boots = 0

-----------------------------------------------------------------------------
(* Helpers *)

Goto(c, step) == pc' = [pc EXCEPT ![c] = step]

\* Mutant of TryLock: the mutex of the task is not tried.
TryLockUnchecked(c, t, kind) ==
    /\ nextToken < MaxTokens
    /\ nextToken' = nextToken + 1
    /\ held' = [held EXCEPT ![t] = nextToken + 1]
    /\ call' = [call EXCEPT ![c] = [kind |-> kind, task |-> t,
                                    token |-> nextToken + 1, claimed |-> FALSE]]

\* Registry.TryLock, under the registry's mutex.
TryLock(c, t, kind) ==
    /\ held[t] = 0
    /\ nextToken < MaxTokens
    /\ nextToken' = nextToken + 1
    /\ held' = [held EXCEPT ![t] = nextToken + 1]
    /\ call' = [call EXCEPT ![c] = [kind |-> kind, task |-> t,
                                    token |-> nextToken + 1, claimed |-> FALSE]]

\* Registry.release: a stale handle releases nothing.
Release(c) ==
    held' = IF held[call[c].task] = call[c].token
            THEN [held EXCEPT ![call[c].task] = 0] ELSE held

\* Calls that own a task's lock, and those of them that execute it.
Holding(c) == \/ pc[c] \in {"locked", "starting", "running", "ended", "closed"}
              \/ pc[c] = "spawned" /\ call[c].kind = "manual"
Executing(c) == pc[c] \in {"starting", "running", "ended", "closed"}

\* Work the process waits for: HTTP handlers, cron jobs, the wait group.
InRequest == {c \in Calls : pc[c] = "locked"}
InCron == {c \in Calls : pc[c] # "idle" /\ call[c].kind = "cron"}

-----------------------------------------------------------------------------
(* Triggers *)

\* TaskHandler.RunTask: the lock first; 409 when it is taken.
ManualTrigger(c, t) ==
    /\ phase \in {"up", "cronStopped"}
    /\ pc[c] = "idle"
    /\ TryLock(c, t, "manual")
    /\ Goto(c, "locked")
    /\ UNCHANGED <<row, managerVars, shutdownVars, orphans, boundVars>>

\* Mutant of ManagerGo: whether the manager is closed is not asked.
ManagerGoWhenClosed(c) ==
    /\ phase # "exited" /\ pc[c] = "locked"
    /\ tracked' = tracked \cup {c}
    /\ Goto(c, "spawned")
    /\ UNCHANGED <<registryVars, call, row, shuttingDown, shutdownVars, orphans, boundVars>>

\* Manager.Go accepts: the goroutine is counted before the request returns.
ManagerGo(c) ==
    /\ phase # "exited"
    /\ pc[c] = "locked"
    /\ ~shuttingDown
    /\ tracked' = tracked \cup {c}
    /\ Goto(c, "spawned")
    /\ UNCHANGED <<registryVars, call, row, shuttingDown, shutdownVars, orphans, boundVars>>

\* Mutant of ManagerRefuses: the request fails and keeps the lock.
ManagerRefusesLocked(c) ==
    /\ phase # "exited" /\ pc[c] = "locked" /\ shuttingDown
    /\ Goto(c, "idle")
    /\ UNCHANGED <<registryVars, call, row, managerVars, shutdownVars, orphans, boundVars>>

\* Manager.Go refuses: the handler gives the lock back and fails the request.
ManagerRefuses(c) ==
    /\ phase # "exited"
    /\ pc[c] = "locked"
    /\ shuttingDown
    /\ Release(c)
    /\ Goto(c, "idle")
    /\ UNCHANGED <<nextToken, call, row, managerVars, shutdownVars, orphans, boundVars>>

\* The goroutine of an accepted request: RunTaskLocked claims the handle.
ClaimLock(c) ==
    /\ phase # "exited"
    /\ pc[c] = "spawned" /\ call[c].kind = "manual"
    /\ IF held[call[c].task] = call[c].token /\ ~call[c].claimed
       THEN /\ call' = [call EXCEPT ![c].claimed = TRUE]
            /\ Goto(c, "starting")
            /\ UNCHANGED tracked
       ELSE /\ Goto(c, "idle")
            /\ tracked' = tracked \ {c}
            /\ UNCHANGED call
    /\ UNCHANGED <<registryVars, row, shuttingDown, shutdownVars, orphans, boundVars>>

\* RunTaskFromCron: in cron's own goroutine, skipped when the lock is taken.
CronTrigger(c, t) ==
    /\ phase = "up"
    /\ pc[c] = "idle"
    /\ TryLock(c, t, "cron")
    /\ Goto(c, "starting")
    /\ UNCHANGED <<row, managerVars, shutdownVars, orphans, boundVars>>

\* triggerStartupOneShotTasks: RunOrSchedule hands RunTask to the manager, or
\* runs it inline when the manager refuses (it cannot while we start).
StartupTrigger(c, t) ==
    /\ phase = "up"
    /\ pc[c] = "idle"
    /\ ~shuttingDown
    /\ tracked' = tracked \cup {c}
    /\ call' = [call EXCEPT ![c] = [kind |-> "startup", task |-> t, token |-> 0, claimed |-> FALSE]]
    /\ Goto(c, "spawned")
    /\ UNCHANGED <<registryVars, row, shuttingDown, shutdownVars, orphans, boundVars>>

StartupLock(c) ==
    /\ phase # "exited"
    /\ pc[c] = "spawned" /\ call[c].kind = "startup"
    /\ IF held[call[c].task] = 0
       THEN /\ TryLock(c, call[c].task, "startup")
            /\ Goto(c, "starting")
            /\ UNCHANGED tracked
       ELSE /\ Goto(c, "idle")
            /\ tracked' = tracked \ {c}
            /\ UNCHANGED <<registryVars, call>>
    /\ UNCHANGED <<row, shuttingDown, shutdownVars, orphans, boundVars>>

-----------------------------------------------------------------------------
(* executeAndLog *)

\* A row that cannot be created is logged and the task runs all the same.
OpenRow(c) ==
    /\ phase # "exited"
    /\ pc[c] = "starting"
    /\ \/ /\ row' = [row EXCEPT ![c].status = "running"]
          /\ UNCHANGED dbFailures
       \/ /\ dbFailures < MaxDbFailures
          /\ dbFailures' = dbFailures + 1
          /\ UNCHANGED row
    /\ Goto(c, "running")
    /\ UNCHANGED <<registryVars, call, managerVars, shutdownVars, orphans, boots>>

\* Mutant of TaskReturns: the lock is released as soon as the task has returned.
TaskReturnsUnlocked(c) ==
    /\ phase # "exited" /\ pc[c] = "running"
    /\ \E result \in {"success", "failed"} : row' = [row EXCEPT ![c].result = result]
    /\ Release(c)
    /\ Goto(c, "ended")
    /\ UNCHANGED <<nextToken, call, managerVars, shutdownVars, orphans, boundVars>>

\* The task returns, returns an error, or panics and is recovered as an error.
TaskReturns(c) ==
    /\ phase # "exited"
    /\ pc[c] = "running"
    /\ \E result \in {"success", "failed"} : row' = [row EXCEPT ![c].result = result]
    /\ Goto(c, "ended")
    /\ UNCHANGED <<registryVars, call, managerVars, shutdownVars, orphans, boundVars>>

\* UpdateExecution needs the id of a row that was created; its failure is logged.
CloseRow(c) ==
    /\ phase # "exited"
    /\ pc[c] = "ended"
    /\ \/ /\ row' = [row EXCEPT ![c].status = IF @ = "none" THEN "none" ELSE row[c].result]
          /\ UNCHANGED <<dbFailures, orphans>>
       \/ /\ dbFailures < MaxDbFailures
          /\ dbFailures' = dbFailures + 1
          /\ orphans' = IF row[c].status = "running" THEN orphans \cup {call[c].task} ELSE orphans
          /\ UNCHANGED row
    /\ Goto(c, "closed")
    /\ UNCHANGED <<registryVars, call, managerVars, shutdownVars, boots>>

\* The deferred Release, then the goroutine leaves the wait group if it is in it.
Finish(c) ==
    /\ phase # "exited"
    /\ pc[c] = "closed"
    /\ Release(c)
    /\ Goto(c, "idle")
    /\ row' = [row EXCEPT ![c] = NoRow]
    /\ tracked' = tracked \ {c}
    /\ UNCHANGED <<nextToken, call, shuttingDown, shutdownVars, orphans, boundVars>>

-----------------------------------------------------------------------------
(* Shutdown *)

Signal ==
    /\ phase = "up"
    /\ phase' = "cronStopped"
    /\ UNCHANGED <<registryVars, callVars, managerVars, deadlinePassed, drained, waited, orphans,
                   boundVars>>

DeadlinePasses ==
    /\ phase \in {"draining", "waitCron", "waitManager"}
    /\ ~deadlinePassed
    /\ deadlinePassed' = TRUE
    /\ UNCHANGED <<registryVars, callVars, managerVars, phase, drained, waited, orphans, boundVars>>

StopHttp ==
    /\ phase = "cronStopped"
    /\ phase' = "draining"
    /\ UNCHANGED <<registryVars, callVars, managerVars, deadlinePassed, drained, waited, orphans,
                   boundVars>>

\* http.Server.Shutdown returns when no handler is left or at the deadline.
HttpDone ==
    /\ phase = "draining"
    /\ InRequest = {} \/ deadlinePassed
    /\ drained' = (drained /\ InRequest = {})
    /\ phase' = "waitCron"
    /\ UNCHANGED <<registryVars, callVars, managerVars, deadlinePassed, waited, orphans, boundVars>>

\* Mutant of CronDone: the context of Cron.Stop is not waited for.
CronDoneAtOnce ==
    /\ phase = "waitCron"
    /\ shuttingDown' = TRUE
    /\ phase' = "waitManager"
    /\ UNCHANGED <<registryVars, callVars, tracked, deadlinePassed, drained, waited, orphans,
                   boundVars>>

\* waitForContext(cronStopCtx), then Manager.Shutdown: only now is the manager
\* closed to new work and its context cancelled.
CronDone ==
    /\ phase = "waitCron"
    /\ InCron = {} \/ deadlinePassed
    /\ drained' = (drained /\ InCron = {})
    /\ shuttingDown' = TRUE
    /\ phase' = "waitManager"
    /\ UNCHANGED <<registryVars, callVars, tracked, deadlinePassed, waited, orphans, boundVars>>

RunningRows == {c \in Calls : row[c].status = "running"}
TasksOf(S) == {call[c].task : c \in S}

\* Mutant of ManagerDone: no nanosecond, and a timeout of 0 waits without a limit.
ManagerDoneWhenIdle ==
    /\ phase = "waitManager" /\ tracked = {}
    /\ waited' = TRUE
    /\ phase' = "managerDone"
    /\ UNCHANGED <<registryVars, callVars, managerVars, deadlinePassed, drained, orphans, boundVars>>

\* Manager.Shutdown returns. With the budget used up it still gets a nanosecond, so
\* it never waits without a limit.
ManagerDone ==
    /\ phase = "waitManager"
    /\ tracked = {} \/ deadlinePassed
    /\ waited' = (tracked = {}) /\ drained' = (drained /\ tracked = {})
    /\ phase' = "managerDone"
    /\ UNCHANGED <<registryVars, callVars, managerVars, deadlinePassed, orphans, boundVars>>

\* main returns, and what still runs is cut off.
Exit ==
    /\ phase = "managerDone"
    /\ phase' = "exited"
    /\ orphans' = orphans \cup TasksOf(RunningRows)
    /\ UNCHANGED <<registryVars, callVars, managerVars, deadlinePassed, drained, waited, boundVars>>

\* The process is killed: nothing is waited for.
Kill ==
    /\ phase # "exited"
    /\ phase' = "exited"
    /\ drained' = FALSE
    /\ orphans' = orphans \cup TasksOf(RunningRows)
    /\ UNCHANGED <<registryVars, callVars, managerVars, deadlinePassed, waited, boundVars>>

\* A new process: nothing closes the rows the old one left open.
Boot ==
    /\ phase = "exited"
    /\ boots < MaxBoots
    /\ boots' = boots + 1
    /\ held' = [t \in Tasks |-> 0]
    /\ nextToken' = 0
    /\ call' = [c \in Calls |-> NoCall]
    /\ pc' = [c \in Calls |-> "idle"]
    /\ row' = [c \in Calls |-> NoRow]
    /\ shuttingDown' = FALSE
    /\ tracked' = {}
    /\ phase' = "up"
    /\ deadlinePassed' = FALSE /\ waited' = FALSE
    /\ UNCHANGED <<drained, orphans, dbFailures>>

-----------------------------------------------------------------------------
\* Steps a goroutine takes by itself; how long a task runs is its own affair.
Handle(c) ==
    \/ ManagerGo(c) \/ ManagerRefuses(c) \/ ClaimLock(c) \/ StartupLock(c)
    \/ OpenRow(c) \/ CloseRow(c) \/ Finish(c)

Shutdown == DeadlinePasses \/ StopHttp \/ HttpDone \/ CronDone \/ ManagerDone \/ Exit

Next ==
    \/ \E c \in Calls, t \in Tasks :
        ManualTrigger(c, t) \/ CronTrigger(c, t) \/ StartupTrigger(c, t)
    \/ \E c \in Calls : Handle(c) \/ TaskReturns(c)
    \/ Signal \/ Shutdown \/ Kill \/ Boot

Spec == Init /\ [][Next]_vars

\* Goroutines are scheduled and timers fire; tasks may hang forever.
FairSpec == Spec /\ (\A c \in Calls : WF_vars(Handle(c))) /\ WF_vars(Shutdown)

-----------------------------------------------------------------------------
(* Properties *)

\* A task never runs twice at once in a process, whoever triggers it.
NoConcurrentRuns ==
    \A c, d \in Calls :
        Executing(c) /\ Executing(d) /\ call[c].task = call[d].task => c = d

\* The lock of a task that a call runs or was promised is that call's: nobody
\* else's release frees it, so the claim of an accepted request cannot fail.
HolderOwnsLock == \A c \in Calls : Holding(c) => held[call[c].task] = call[c].token

\* Once the wait for the manager has seen its end, no run that was accepted for the
\* background is under way any more, or starts: its request was told "task triggered".
AcceptedRunsAreWaitedFor ==
    phase \in {"managerDone", "exited"} /\ waited =>
        \A c \in Calls : pc[c] \notin {"idle", "locked"} => call[c].kind = "cron"

\* As long as no write of a row fails, the history of a process shows a task as
\* "running" only while the task's lock is held.
ShownRunning == orphans \cup TasksOf(RunningRows)
OpenRowHasLock ==
    dbFailures = 0 /\ boots = 0 /\ phase # "exited" => \A t \in ShownRunning : held[t] # 0

\* A shutdown whose waits all ended in time leaves no row "running" behind.
CleanShutdownClosesRows == drained /\ dbFailures = 0 => orphans = {}

\* Once the manager shuts down it starts nothing any more.
ManagerStaysClosed == [][shuttingDown /\ shuttingDown' => tracked' \subseteq tracked]_vars

\* However long tasks take, a signalled process exits.
ShutdownTerminates == phase = "cronStopped" ~> phase = "exited"

\* A lock that was handed out is given back, whichever way its request or its run
\* ends, also when the manager refuses the run; only the code of the task can keep it,
\* or the exit of the process, which cuts off the call that holds it.
LocksAreReleased ==
    \A t \in Tasks, token \in Tokens \ {0} :
        held[t] = token ~>
            \/ held[t] # token
            \/ \E c \in Calls : /\ Holding(c) /\ call[c].token = token
                                /\ pc[c] = "running" \/ phase = "exited"

=============================================================================
