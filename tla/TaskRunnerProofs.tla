-------------------------- MODULE TaskRunnerProofs --------------------------
(***************************************************************************)
(* Theorems about TaskRunner, for every set of tasks and calls and every   *)
(* bound. HolderOwnsLock is not inductive: a release must not free what    *)
(* another call holds, so the invariant also says that two calls never own *)
(* the same token and that no token was handed out beyond nextToken. For   *)
(* the shutdown it says where a row "running" can be in its run.           *)
(***************************************************************************)
EXTENDS TaskRunner, TLAPS

\* Tokens identify their owners.
TokensAreOwned ==
    /\ \A t \in Tasks : held[t] <= nextToken
    /\ \A c \in Calls : Holding(c) =>
          /\ call[c].token # 0
          /\ held[call[c].task] = call[c].token
    /\ \A c, d \in Calls : Holding(c) /\ Holding(d) /\ c # d => call[c].token # call[d].token

LockInv == TypeOK /\ TokensAreOwned

-----------------------------------------------------------------------------
(* Types *)

LEMMA NullTypes == NoCall \in CallRecord /\ NoRow \in RowRecord
BY TaskRunnerAssumption DEF NoCall, NoRow, CallRecord, RowRecord, RowStatus, Kinds, Tokens

\* The flags apart from the rest: the two halves go to different provers.
FlagsOK ==
    /\ shuttingDown \in BOOLEAN /\ deadlinePassed \in BOOLEAN
    /\ drained \in BOOLEAN /\ waited \in BOOLEAN

StateOK ==
    /\ held \in [Tasks -> Tokens] /\ nextToken \in Tokens
    /\ call \in [Calls -> CallRecord]
    /\ pc \in [Calls -> Steps]
    /\ row \in [Calls -> RowRecord]
    /\ tracked \subseteq Calls
    /\ phase \in Phases
    /\ orphans \subseteq Tasks
    /\ dbFailures \in Nat /\ boots \in Nat

LEMMA TypeHalves == /\ FlagsOK /\ StateOK => TypeOK
                    /\ TypeOK => FlagsOK /\ StateOK
                    /\ (FlagsOK /\ StateOK => TypeOK)'
BY Zenon DEF TypeOK, FlagsOK, StateOK

LEMMA TypeInit == Init => TypeOK
<1> SUFFICES ASSUME Init PROVE TypeOK
  OBVIOUS
<1>1. FlagsOK
  BY Zenon DEF Init, FlagsOK
<1>2. StateOK
  BY NullTypes, TaskRunnerAssumption DEF Init, StateOK, Steps, Phases, Tokens
<1> QED BY <1>1, <1>2, TypeHalves

LEMMA FlagsStep == FlagsOK /\ [Next]_vars => FlagsOK'
<1> SUFFICES ASSUME FlagsOK, [Next]_vars PROVE FlagsOK'
  OBVIOUS
<1> USE DEF FlagsOK
<1>1. ASSUME NEW c \in Calls, NEW t \in Tasks,
             ManualTrigger(c, t) \/ CronTrigger(c, t) \/ StartupTrigger(c, t)
      PROVE  FlagsOK'
  BY <1>1, Zenon DEF ManualTrigger, CronTrigger, StartupTrigger, managerVars, shutdownVars
<1>2. ASSUME NEW c \in Calls, Handle(c) \/ TaskReturns(c)
      PROVE  FlagsOK'
  BY <1>2, Zenon DEF Handle, TaskReturns, ManagerGo, ManagerRefuses, ClaimLock, StartupLock,
                     OpenRow, CloseRow, Finish, managerVars, shutdownVars
<1>3. ASSUME Signal \/ Shutdown \/ Kill \/ Boot
      PROVE  FlagsOK'
  BY <1>3, Zenon DEF Signal, Shutdown, Kill, Boot, DeadlinePasses, StopHttp, HttpDone, CronDone,
                     ManagerDone, Exit, managerVars
<1>4. CASE UNCHANGED vars
  BY <1>4, Zenon DEF vars, managerVars, shutdownVars
<1> QED BY <1>1, <1>2, <1>3, <1>4 DEF Next

LEMMA ReleaseType ==
    ASSUME StateOK, NEW c \in Calls, Release(c)
    PROVE  held' \in [Tasks -> Tokens]
<1>1. 0 \in Tokens /\ held \in [Tasks -> Tokens]
  BY TaskRunnerAssumption DEF StateOK, Tokens
<1>2. [held EXCEPT ![call[c].task] = 0] \in [Tasks -> Tokens]
  BY <1>1
<1> QED BY <1>1, <1>2 DEF Release

LEMMA StateHandle ==
    ASSUME StateOK, NEW c \in Calls, Handle(c) \/ TaskReturns(c)
    PROVE  StateOK'
<1> USE TaskRunnerAssumption DEF StateOK, Goto, Steps
<1>1. CASE ManagerGo(c)
  BY <1>1 DEF ManagerGo, registryVars, shutdownVars, boundVars
<1>2. CASE ManagerRefuses(c)
  BY <1>2, ReleaseType DEF ManagerRefuses, managerVars, shutdownVars, boundVars
<1>3. CASE ClaimLock(c)
  <2>1. [call[c] EXCEPT !.claimed = TRUE] \in CallRecord
    BY DEF CallRecord
  <2>2. call' \in [Calls -> CallRecord]
    BY <1>3, <2>1 DEF ClaimLock
  <2> QED BY <1>3, <2>2 DEF ClaimLock, registryVars, shutdownVars, boundVars
<1>4. CASE StartupLock(c)
  <2>1. CASE held[call[c].task] = 0
    <3>1. nextToken' \in Tokens /\ nextToken' = nextToken + 1
      BY <1>4, <2>1 DEF StartupLock, TryLock, Tokens
    <3>2. [kind |-> "startup", task |-> call[c].task, token |-> nextToken + 1,
           claimed |-> FALSE] \in CallRecord
      BY <3>1 DEF CallRecord, Kinds
    <3> QED BY <1>4, <2>1, <3>1, <3>2 DEF StartupLock, TryLock, shutdownVars, boundVars
  <2>2. CASE held[call[c].task] # 0
    BY <1>4, <2>2 DEF StartupLock, registryVars, shutdownVars, boundVars
  <2> QED BY <2>1, <2>2
<1>5. CASE OpenRow(c)
  <2>1. row' \in [Calls -> RowRecord]
    BY <1>5 DEF OpenRow, RowRecord, RowStatus
  <2>2. dbFailures' \in Nat
    BY <1>5 DEF OpenRow
  <2> QED BY <1>5, <2>1, <2>2 DEF OpenRow, registryVars, managerVars, shutdownVars
<1>6. CASE CloseRow(c)
  <2>1. row' \in [Calls -> RowRecord]
    BY <1>6 DEF CloseRow, RowRecord, RowStatus
  <2>2. orphans' \subseteq Tasks
    BY <1>6 DEF CloseRow, CallRecord
  <2>3. dbFailures' \in Nat
    BY <1>6 DEF CloseRow
  <2> QED BY <1>6, <2>1, <2>2, <2>3 DEF CloseRow, registryVars, managerVars, shutdownVars
<1>7. CASE Finish(c)
  BY <1>7, NullTypes, ReleaseType DEF Finish, shutdownVars, boundVars
<1>8. CASE TaskReturns(c)
  <2>1. row' \in [Calls -> RowRecord]
    BY <1>8 DEF TaskReturns, RowRecord, RowStatus
  <2> QED BY <1>8, <2>1 DEF TaskReturns, registryVars, managerVars, shutdownVars, boundVars
<1> QED BY <1>1, <1>2, <1>3, <1>4, <1>5, <1>6, <1>7, <1>8 DEF Handle

LEMMA StateTrigger ==
    ASSUME StateOK, NEW c \in Calls, NEW t \in Tasks,
           ManualTrigger(c, t) \/ CronTrigger(c, t) \/ StartupTrigger(c, t)
    PROVE  StateOK'
<1> USE TaskRunnerAssumption DEF StateOK, Goto, Steps, Tokens
<1>1. CASE ManualTrigger(c, t)
  BY <1>1 DEF ManualTrigger, TryLock, CallRecord, Kinds, managerVars, shutdownVars, boundVars
<1>2. CASE CronTrigger(c, t)
  BY <1>2 DEF CronTrigger, TryLock, CallRecord, Kinds, managerVars, shutdownVars, boundVars
<1>3. CASE StartupTrigger(c, t)
  BY <1>3 DEF StartupTrigger, CallRecord, Kinds, registryVars, shutdownVars, boundVars
<1> QED BY <1>1, <1>2, <1>3

LEMMA StateShutdown ==
    ASSUME StateOK, Signal \/ Shutdown \/ Kill \/ Boot
    PROVE  StateOK'
<1> USE TaskRunnerAssumption DEF StateOK, Phases
<1>0. TasksOf(RunningRows) \subseteq Tasks
  BY DEF TasksOf, RunningRows, CallRecord
<1>1. CASE Signal
  BY <1>1 DEF Signal, registryVars, callVars, managerVars, boundVars
<1>2. CASE DeadlinePasses
  BY <1>2 DEF DeadlinePasses, registryVars, callVars, managerVars, boundVars
<1>3. CASE StopHttp
  BY <1>3 DEF StopHttp, registryVars, callVars, managerVars, boundVars
<1>4. CASE HttpDone
  BY <1>4 DEF HttpDone, registryVars, callVars, managerVars, boundVars
<1>5. CASE CronDone
  BY <1>5 DEF CronDone, registryVars, callVars, boundVars
<1>6. CASE Exit
  BY <1>0, <1>6 DEF Exit, registryVars, callVars, managerVars, boundVars
<1>9. CASE ManagerDone
  BY <1>9 DEF ManagerDone, registryVars, callVars, managerVars, boundVars
<1>7. CASE Kill
  BY <1>0, <1>7 DEF Kill, registryVars, callVars, managerVars, boundVars
<1>8. CASE Boot
  BY <1>8, NullTypes DEF Boot, Steps, Tokens
<1> QED BY <1>1, <1>2, <1>3, <1>4, <1>5, <1>6, <1>7, <1>8, <1>9 DEF Shutdown

LEMMA TypeStep == TypeOK /\ [Next]_vars => TypeOK'
<1> SUFFICES ASSUME TypeOK, [Next]_vars PROVE TypeOK'
  OBVIOUS
<1>1. FlagsOK /\ StateOK
  BY TypeHalves
<1>2. FlagsOK'
  BY <1>1, FlagsStep
<1>3. CASE UNCHANGED vars
  BY <1>3, Zenon DEF TypeOK, vars, registryVars, callVars, managerVars, shutdownVars, boundVars
<1>4. CASE Next
  BY <1>1, <1>2, <1>4, StateHandle, StateTrigger, StateShutdown, TypeHalves DEF Next
<1> QED BY <1>3, <1>4

\* Every variable keeps its type: in particular no token is handed out beyond the
\* bound and a lock is only ever given to a call for a registered task.
THEOREM TypeCorrect == Spec => []TypeOK
BY TypeInit, TypeStep, PTL DEF Spec

-----------------------------------------------------------------------------
(* The lock *)

LEMMA TokenTypes ==
    ASSUME TypeOK
    PROVE  /\ nextToken \in Nat
           /\ \A t \in Tasks : held[t] \in Nat
           /\ \A c \in Calls : call[c].task \in Tasks /\ call[c].token \in Nat
BY TaskRunnerAssumption DEF TypeOK, Tokens, CallRecord

\* A step that moves no lock and makes nobody an owner.
LEMMA LockFrame ==
    ASSUME TokensAreOwned, UNCHANGED registryVars,
           \A c \in Calls : /\ call'[c].task = call[c].task
                            /\ call'[c].token = call[c].token
                            /\ Holding(c)' => Holding(c)
    PROVE  TokensAreOwned'
<1>1. held' = held /\ nextToken' = nextToken
  BY DEF registryVars
<1> QED BY <1>1 DEF TokensAreOwned

\* An owner gives its lock back.
LEMMA LockReleased ==
    ASSUME LockInv, NEW c \in Calls, Holding(c), Release(c),
           nextToken' = nextToken, call' = call, pc' = [pc EXCEPT ![c] = "idle"]
    PROVE  TokensAreOwned'
<1> USE DEF LockInv
<1>1. /\ held' = [held EXCEPT ![call[c].task] = 0]
      /\ call[c].task \in Tasks
  BY TokenTypes DEF Release, TokensAreOwned
<1>2. ~Holding(c)' /\ \A d \in Calls \ {c} : Holding(d)' <=> Holding(d)
  BY DEF Holding, TypeOK
<1>3. \A t \in Tasks : held'[t] <= nextToken'
  BY <1>1, TokenTypes DEF TypeOK, TokensAreOwned
<1>4. ASSUME NEW d \in Calls \ {c}, Holding(d)
      PROVE  held'[call[d].task] = call[d].token
  <2>1. call[d].task # call[c].task
    BY <1>4 DEF TokensAreOwned
  <2> QED BY <1>1, <1>4, <2>1, TokenTypes DEF TypeOK, TokensAreOwned
<1> QED BY <1>2, <1>3, <1>4 DEF TokensAreOwned

\* A call that owns nothing takes a free lock.
LEMMA LockTaken ==
    ASSUME LockInv, NEW c \in Calls, ~Holding(c), NEW t \in Tasks, NEW kind, TryLock(c, t, kind),
           NEW step, pc' = [pc EXCEPT ![c] = step], step \in {"locked", "starting"}
    PROVE  TokensAreOwned'
<1> USE DEF LockInv
<1> DEFINE new == nextToken + 1
<1>1. /\ nextToken' = new
      /\ held' = [held EXCEPT ![t] = new]
      /\ call'[c].task = t /\ call'[c].token = new
      /\ \A d \in Calls \ {c} : call'[d] = call[d]
  BY DEF TryLock, TypeOK
<1>2. \A d \in Calls \ {c} : Holding(d)' <=> Holding(d)
  BY <1>1 DEF Holding, TypeOK
<1>3. \A u \in Tasks : held'[u] <= nextToken'
  BY <1>1, TokenTypes DEF TypeOK, TokensAreOwned
<1>4. ASSUME NEW d \in Calls \ {c}, Holding(d)
      PROVE  /\ call'[d].token # 0
             /\ call'[d].token # new
             /\ held'[call'[d].task] = call'[d].token
  <2>1. held[call[d].task] = call[d].token /\ call[d].token # 0
    BY <1>4 DEF TokensAreOwned
  <2>2. call[d].task # t
    BY <2>1 DEF TryLock
  <2>3. call[d].token < new
    BY <2>1, TokenTypes DEF TokensAreOwned
  <2> QED BY <1>1, <2>1, <2>2, <2>3, TokenTypes DEF TypeOK
<1>5. call'[c].token # 0 /\ held'[call'[c].task] = call'[c].token
  BY <1>1, TokenTypes DEF TypeOK
<1>6. \A d, e \in Calls : Holding(d)' /\ Holding(e)' /\ d # e => call'[d].token # call'[e].token
  BY <1>1, <1>2, <1>4 DEF TokensAreOwned
<1> HIDE DEF new
<1> QED BY <1>2, <1>3, <1>4, <1>5, <1>6 DEF TokensAreOwned

LEMMA LockInit == Init => TokensAreOwned
BY DEF Init, TokensAreOwned, Holding

LEMMA LockHandle ==
    ASSUME LockInv, NEW c \in Calls, Handle(c) \/ TaskReturns(c)
    PROVE  TokensAreOwned'
<1> USE DEF LockInv, Goto
<1>1. CASE ManagerGo(c)
  BY <1>1, LockFrame DEF ManagerGo, Holding, TypeOK
<1>2. CASE ManagerRefuses(c)
  BY <1>2, LockReleased DEF ManagerRefuses, Holding
<1>3. CASE ClaimLock(c)
  <2>1. \A d \in Calls : call'[d].task = call[d].task /\ call'[d].token = call[d].token
                       /\ call'[d].kind = call[d].kind
    BY <1>3 DEF ClaimLock, TypeOK, CallRecord
  <2> QED BY <1>3, <2>1, LockFrame DEF ClaimLock, Holding, TypeOK
<1>4. CASE StartupLock(c)
  <2>1. CASE held[call[c].task] = 0
    BY <1>4, <2>1, LockTaken, TokenTypes DEF StartupLock, Holding
  <2>2. CASE held[call[c].task] # 0
    BY <1>4, <2>2, LockFrame DEF StartupLock, Holding, TypeOK
  <2> QED BY <2>1, <2>2
<1>5. CASE OpenRow(c)
  BY <1>5, LockFrame DEF OpenRow, Holding, TypeOK
<1>6. CASE CloseRow(c)
  BY <1>6, LockFrame DEF CloseRow, Holding, TypeOK
<1>7. CASE Finish(c)
  BY <1>7, LockReleased DEF Finish, Holding
<1>8. CASE TaskReturns(c)
  BY <1>8, LockFrame DEF TaskReturns, Holding, TypeOK
<1> QED BY <1>1, <1>2, <1>3, <1>4, <1>5, <1>6, <1>7, <1>8 DEF Handle

LEMMA LockTrigger ==
    ASSUME LockInv, NEW c \in Calls, NEW t \in Tasks,
           ManualTrigger(c, t) \/ CronTrigger(c, t) \/ StartupTrigger(c, t)
    PROVE  TokensAreOwned'
<1> USE DEF LockInv, Goto
<1>1. CASE ManualTrigger(c, t)
  BY <1>1, LockTaken DEF ManualTrigger, Holding
<1>2. CASE CronTrigger(c, t)
  BY <1>2, LockTaken DEF CronTrigger, Holding
<1>3. CASE StartupTrigger(c, t)
  <2>1. held' = held /\ nextToken' = nextToken
    BY <1>3 DEF StartupTrigger, registryVars
  <2>2. ~Holding(c)'
    BY <1>3 DEF StartupTrigger, Holding, TypeOK
  <2>3. \A d \in Calls \ {c} : call'[d] = call[d] /\ (Holding(d)' <=> Holding(d))
    BY <1>3 DEF StartupTrigger, Holding, TypeOK
  <2> QED BY <2>1, <2>2, <2>3 DEF TokensAreOwned
<1> QED BY <1>1, <1>2, <1>3

LEMMA LockShutdown ==
    ASSUME LockInv, Signal \/ Shutdown \/ Kill \/ Boot
    PROVE  TokensAreOwned'
<1>1. CASE Boot
  BY <1>1 DEF Boot, TokensAreOwned, Holding
<1>2. CASE Signal \/ Shutdown \/ Kill
  BY <1>2, LockFrame DEF LockInv, Signal, Shutdown, Kill, DeadlinePasses, StopHttp, HttpDone,
                         CronDone, ManagerDone, Exit, callVars, Holding
<1> QED BY <1>1, <1>2

LEMMA LockStep == LockInv /\ [Next]_vars => LockInv'
<1>1. CASE UNCHANGED vars
  BY <1>1, LockFrame, TypeStep DEF LockInv, vars, callVars, Holding
<1> QED BY <1>1, LockHandle, LockTrigger, LockShutdown, TypeStep DEF Next, LockInv

THEOREM LockInvariant == Spec => []LockInv
<1>1. Init => LockInv
  BY TypeInit, LockInit DEF LockInv
<1> QED BY <1>1, LockStep, PTL DEF Spec

\* The lock of a task stays with the call it was given to until that call gives it
\* back (Registry.release compares tokens), for any number of triggers.
THEOREM OwnersKeepTheirLock == Spec => []HolderOwnsLock
<1>1. LockInv => HolderOwnsLock
  BY DEF LockInv, TokensAreOwned, HolderOwnsLock
<1> QED BY <1>1, LockInvariant, PTL

\* A task never runs twice at once in one process.
THEOREM MutualExclusion == Spec => []NoConcurrentRuns
<1>1. LockInv => NoConcurrentRuns
  BY DEF LockInv, TokensAreOwned, NoConcurrentRuns, Executing, Holding
<1> QED BY <1>1, LockInvariant, PTL

-----------------------------------------------------------------------------
(* The background manager *)

\* Once Manager.Shutdown has set shuttingDown no goroutine joins the wait group.
THEOREM ClosedManagerStaysClosed == Spec => ManagerStaysClosed
<1> DEFINE Quiet == shuttingDown /\ shuttingDown' => tracked' \subseteq tracked
<1>1. ASSUME NEW c \in Calls, NEW t \in Tasks,
             ManualTrigger(c, t) \/ CronTrigger(c, t) \/ StartupTrigger(c, t)
      PROVE  Quiet
  BY <1>1 DEF ManualTrigger, CronTrigger, StartupTrigger, managerVars
<1>2. ASSUME NEW c \in Calls, Handle(c) \/ TaskReturns(c)
      PROVE  Quiet
  BY <1>2 DEF Handle, TaskReturns, ManagerGo, ManagerRefuses, ClaimLock, StartupLock,
              OpenRow, CloseRow, Finish, managerVars
<1>3. ASSUME Signal \/ Shutdown \/ Kill \/ Boot
      PROVE  Quiet
  BY <1>3 DEF Signal, Shutdown, Kill, Boot, DeadlinePasses, StopHttp, HttpDone, CronDone,
              ManagerDone, Exit, managerVars
<1>4. [Next]_vars => [Quiet]_vars
  BY <1>1, <1>2, <1>3 DEF Next, vars
<1> QED BY <1>4, PTL DEF Spec, ManagerStaysClosed

-----------------------------------------------------------------------------
(* Tracked goroutines and rows of the execution history *)

\* A run accepted for the background is in the wait group until its lock is released.
AcceptedRunIsTracked ==
    \A c \in Calls : phase # "exited" /\ call[c].kind # "cron"
                     /\ pc[c] \in {"spawned", "starting", "running", "ended", "closed"} => c \in tracked

TrackedInv == TypeOK /\ AcceptedRunIsTracked

LEMMA TrackedHandle ==
    ASSUME TrackedInv, NEW c \in Calls, Handle(c) \/ TaskReturns(c)
    PROVE  AcceptedRunIsTracked'
<1> USE DEF TrackedInv, AcceptedRunIsTracked, Goto, TypeOK
<1>1. CASE ManagerGo(c)
  BY <1>1 DEF ManagerGo, shutdownVars
<1>2. CASE ManagerRefuses(c)
  BY <1>2 DEF ManagerRefuses, managerVars, shutdownVars
<1>3. CASE ClaimLock(c)
  <2>1. \A d \in Calls : call'[d].kind = call[d].kind
    BY <1>3 DEF ClaimLock, CallRecord
  <2> QED BY <1>3, <2>1 DEF ClaimLock, shutdownVars
<1>4. CASE StartupLock(c)
  <2>1. \A d \in Calls \ {c} : call'[d] = call[d] /\ pc'[d] = pc[d] /\ (d \in tracked <=> d \in tracked')
    BY <1>4 DEF StartupLock, TryLock, registryVars
  <2>2. phase' = phase /\ (pc'[c] = "idle" \/ c \in tracked')
    BY <1>4 DEF StartupLock, shutdownVars
  <2> QED BY <2>1, <2>2
<1>5. CASE OpenRow(c)
  BY <1>5 DEF OpenRow, managerVars, shutdownVars
<1>6. CASE CloseRow(c)
  BY <1>6 DEF CloseRow, managerVars, shutdownVars
<1>7. CASE Finish(c)
  BY <1>7 DEF Finish, shutdownVars
<1>8. CASE TaskReturns(c)
  BY <1>8 DEF TaskReturns, managerVars, shutdownVars
<1> QED BY <1>1, <1>2, <1>3, <1>4, <1>5, <1>6, <1>7, <1>8 DEF Handle

LEMMA TrackedStep == TrackedInv /\ [Next]_vars => TrackedInv'
<1> SUFFICES ASSUME TrackedInv, [Next]_vars PROVE AcceptedRunIsTracked'
  BY TypeStep DEF TrackedInv
<1>1. ASSUME NEW c \in Calls, NEW t \in Tasks,
             ManualTrigger(c, t) \/ CronTrigger(c, t) \/ StartupTrigger(c, t)
      PROVE  AcceptedRunIsTracked'
  BY <1>1 DEF ManualTrigger, CronTrigger, StartupTrigger, TryLock, Goto, managerVars, shutdownVars,
              TrackedInv, AcceptedRunIsTracked, TypeOK
<1>2. ASSUME Signal \/ Shutdown \/ Kill \/ Boot
      PROVE  AcceptedRunIsTracked'
  BY <1>2 DEF Signal, Shutdown, Kill, Boot, DeadlinePasses, StopHttp, HttpDone, CronDone,
              ManagerDone, Exit, callVars, managerVars, TrackedInv, AcceptedRunIsTracked
<1>3. CASE UNCHANGED vars
  BY <1>3 DEF vars, callVars, managerVars, shutdownVars, TrackedInv, AcceptedRunIsTracked
<1> QED BY <1>1, <1>2, <1>3, TrackedHandle DEF Next

LEMMA TrackedInit == Init => TrackedInv
BY TypeInit DEF TrackedInv, Init, AcceptedRunIsTracked

\* The manager is closed before it is waited for, and once the wait group was seen
\* empty it stays empty, so that the process exits with no accepted run under way.
ManagerWaits ==
    /\ phase \in {"waitManager", "managerDone"} => shuttingDown
    /\ phase \notin {"managerDone", "exited"} => ~waited
    /\ phase = "managerDone" /\ waited => tracked = {}
    /\ AcceptedRunsAreWaitedFor

WaitInv == TrackedInv /\ ManagerWaits

LEMMA WaitHandle ==
    ASSUME WaitInv, NEW c \in Calls, Handle(c) \/ TaskReturns(c)
    PROVE  ManagerWaits'
<1> USE DEF WaitInv, ManagerWaits
<1>1. /\ phase' = phase /\ waited' = waited /\ shuttingDown' = shuttingDown
      /\ phase # "exited"
  BY DEF Handle, TaskReturns, ManagerGo, ManagerRefuses, ClaimLock, StartupLock, OpenRow,
         CloseRow, Finish, shutdownVars, managerVars
<1>2. shuttingDown => tracked' \subseteq tracked
  BY DEF Handle, TaskReturns, ManagerGo, ManagerRefuses, ClaimLock, StartupLock, OpenRow,
         CloseRow, Finish, managerVars
<1>3. phase' = "managerDone" /\ waited' => tracked' = {}
  BY <1>1, <1>2
<1>4. AcceptedRunIsTracked' /\ pc' \in [Calls -> Steps]
  BY TrackedHandle, TypeStep DEF TrackedInv, Next, TypeOK
<1>5. AcceptedRunsAreWaitedFor'
  BY <1>1, <1>3, <1>4 DEF AcceptedRunsAreWaitedFor, AcceptedRunIsTracked, Steps
<1> QED BY <1>1, <1>3, <1>5

LEMMA WaitStep == WaitInv /\ [Next]_vars => WaitInv'
<1> SUFFICES ASSUME WaitInv, [Next]_vars PROVE ManagerWaits'
  BY TrackedStep DEF WaitInv
<1> USE DEF WaitInv, ManagerWaits, AcceptedRunsAreWaitedFor
<1>1. ASSUME NEW c \in Calls, NEW t \in Tasks,
             ManualTrigger(c, t) \/ CronTrigger(c, t) \/ StartupTrigger(c, t)
      PROVE  ManagerWaits'
  BY <1>1 DEF ManualTrigger, CronTrigger, StartupTrigger, shutdownVars
<1>2. CASE Signal \/ StopHttp \/ HttpDone \/ CronDone
  BY <1>2 DEF Signal, StopHttp, HttpDone, CronDone
<1>3. CASE DeadlinePasses
  BY <1>3 DEF DeadlinePasses, callVars, managerVars
<1>4. CASE ManagerDone
  <2>1. /\ phase' = "managerDone" /\ phase = "waitManager" /\ tracked' = tracked
        /\ shuttingDown' = shuttingDown /\ call' = call /\ pc' = pc
    BY <1>4 DEF ManagerDone, callVars, managerVars
  <2>2. waited' => tracked = {}
    BY <1>4, Zenon DEF ManagerDone
  <2>3. tracked = {} => \A c \in Calls : pc[c] \notin {"idle", "locked"} => call[c].kind = "cron"
    BY <2>1 DEF TrackedInv, AcceptedRunIsTracked, TypeOK, Steps
  <2> QED BY <2>1, <2>2, <2>3
<1>5. CASE Exit \/ Kill
  BY <1>5 DEF Exit, Kill, callVars
<1>6. CASE Boot
  BY <1>6 DEF Boot
<1>7. CASE UNCHANGED vars
  BY <1>7 DEF vars, callVars, managerVars, shutdownVars
<1> QED BY <1>1, <1>2, <1>3, <1>4, <1>5, <1>6, <1>7, WaitHandle DEF Next, Shutdown

\* When the wait for the manager has seen its end, nothing that was answered "task
\* triggered" is under way, or starts: Manager.Go counts the goroutine before the
\* handler answers, and refuses it once the manager is closed.
THEOREM AcceptedRunsEnd == Spec => []AcceptedRunsAreWaitedFor
<1>1. Init => WaitInv
  BY TrackedInit DEF WaitInv, ManagerWaits, AcceptedRunsAreWaitedFor, Init
<1>2. WaitInv => AcceptedRunsAreWaitedFor
  BY DEF WaitInv, ManagerWaits
<1> QED BY <1>1, <1>2, WaitStep, PTL DEF Spec

\* Where a row "running" can be in the run that opened it.
RowsFollowRuns ==
    /\ \A c \in Calls : row[c].status = "running" =>
          \/ pc[c] \in {"running", "ended"}
          \/ pc[c] = "closed" /\ dbFailures # 0
    /\ \A c \in Calls : pc[c] = "ended" => row[c].result \in {"success", "failed"}
    /\ dbFailures = 0 /\ boots = 0 /\ phase # "exited" => orphans = {}

RowInv == TypeOK /\ RowsFollowRuns

LEMMA RowHandle ==
    ASSUME RowInv, NEW c \in Calls, Handle(c) \/ TaskReturns(c)
    PROVE  RowsFollowRuns'
<1> USE DEF RowInv, RowsFollowRuns, Goto, TypeOK
<1>1. CASE ManagerGo(c)
  BY <1>1 DEF ManagerGo, shutdownVars, boundVars
<1>2. CASE ManagerRefuses(c)
  BY <1>2 DEF ManagerRefuses, shutdownVars, boundVars
<1>3. CASE ClaimLock(c)
  BY <1>3 DEF ClaimLock, shutdownVars, boundVars
<1>4. CASE StartupLock(c)
  BY <1>4 DEF StartupLock, shutdownVars, boundVars
<1>5. CASE OpenRow(c)
  <2>1. /\ dbFailures' # 0 \/ dbFailures' = dbFailures
        /\ dbFailures # 0 => dbFailures' # 0
        /\ phase' = phase /\ orphans' = orphans /\ boots' = boots
        /\ pc' = [pc EXCEPT ![c] = "running"]
        /\ \A d \in Calls \ {c} : row'[d] = row[d]
    BY <1>5 DEF OpenRow, shutdownVars
  <2>2. pc'[c] = "running" /\ \A d \in Calls \ {c} : pc'[d] = pc[d]
    BY <2>1
  <2> QED BY <2>1, <2>2
<1>6. CASE CloseRow(c)
  <2>1. /\ phase' = phase /\ boots' = boots
        /\ pc' = [pc EXCEPT ![c] = "closed"]
        /\ \A d \in Calls \ {c} : row'[d] = row[d]
        /\ dbFailures # 0 => dbFailures' # 0
    BY <1>6 DEF CloseRow, shutdownVars
  <2>2. \/ dbFailures' # 0
        \/ dbFailures' = dbFailures /\ orphans' = orphans /\ row'[c].status # "running"
    <3>1. CASE dbFailures' = dbFailures + 1
      BY <3>1
    <3>2. CASE UNCHANGED <<dbFailures, orphans>>
               /\ row' = [row EXCEPT ![c].status = IF @ = "none" THEN "none" ELSE row[c].result]
      <4>1. row[c].result # "running"
        BY <1>6 DEF CloseRow
      <4>2. row'[c].status = IF row[c].status = "none" THEN "none" ELSE row[c].result
        BY <3>2 DEF RowRecord
      <4> QED BY <3>2, <4>1, <4>2
    <3> QED BY <1>6, <3>1, <3>2 DEF CloseRow
  <2>3. pc'[c] = "closed" /\ \A d \in Calls \ {c} : pc'[d] = pc[d]
    BY <2>1
  <2> QED BY <2>1, <2>2, <2>3
<1>7. CASE Finish(c)
  <2>1. row'[c].status # "running"
    BY <1>7 DEF Finish, NoRow
  <2> QED BY <1>7, <2>1 DEF Finish, shutdownVars, boundVars
<1>8. CASE TaskReturns(c)
  <2>1. /\ row'[c].result \in {"success", "failed"}
        /\ row'[c].status = row[c].status
        /\ \A d \in Calls \ {c} : row'[d] = row[d]
    BY <1>8 DEF TaskReturns, RowRecord
  <2> QED BY <1>8, <2>1 DEF TaskReturns, shutdownVars, boundVars
<1> QED BY <1>1, <1>2, <1>3, <1>4, <1>5, <1>6, <1>7, <1>8 DEF Handle

LEMMA RowStep == RowInv /\ [Next]_vars => RowInv'
<1> SUFFICES ASSUME RowInv, [Next]_vars PROVE RowsFollowRuns'
  BY TypeStep DEF RowInv
<1> USE DEF RowInv, RowsFollowRuns
<1>1. ASSUME NEW c \in Calls, NEW t \in Tasks,
             ManualTrigger(c, t) \/ CronTrigger(c, t) \/ StartupTrigger(c, t)
      PROVE  RowsFollowRuns'
  BY <1>1 DEF ManualTrigger, CronTrigger, StartupTrigger, Goto, shutdownVars, boundVars, TypeOK
<1>2. ASSUME Signal \/ Shutdown \/ Kill
      PROVE  RowsFollowRuns'
  BY <1>2 DEF Signal, Shutdown, Kill, DeadlinePasses, StopHttp, HttpDone, CronDone,
              ManagerDone, Exit, callVars, boundVars
<1>3. CASE Boot
  BY <1>3 DEF Boot, NoRow, TypeOK
<1>4. CASE UNCHANGED vars
  BY <1>4 DEF vars, callVars, shutdownVars, boundVars
<1> QED BY <1>1, <1>2, <1>3, <1>4, RowHandle DEF Next

THEOREM RowInvariant == Spec => []RowInv
<1>1. Init => RowInv
  BY TypeInit DEF RowInv, RowsFollowRuns, Init, NoRow
<1> QED BY <1>1, RowStep, PTL DEF Spec

\* As long as no write of a row fails, the history of a process shows a task as
\* "running" only while its lock is held (executeAndLog inside the lock).
THEOREM OpenRowsHaveLocks == Spec => []OpenRowHasLock
<1>1. LockInv /\ RowInv => OpenRowHasLock
  BY DEF LockInv, TokensAreOwned, RowInv, RowsFollowRuns, OpenRowHasLock, ShownRunning, TasksOf,
         RunningRows, Holding
<1> QED BY <1>1, LockInvariant, RowInvariant, PTL

-----------------------------------------------------------------------------
(* A shutdown in time *)

\* What the waits of the shutdown have seen so far.
WaitsSeen ==
    /\ drained /\ phase \in {"waitManager", "managerDone"} => InCron = {}
    /\ drained /\ phase = "managerDone" => waited
    /\ drained /\ dbFailures = 0 => orphans = {}

ShutdownInv == WaitInv /\ RowInv /\ WaitsSeen

LEMMA NothingRunsUndrained ==
    ASSUME TrackedInv, RowInv, dbFailures = 0, phase # "exited", InCron = {}, tracked = {}
    PROVE  TasksOf(RunningRows) = {}
BY DEF TrackedInv, AcceptedRunIsTracked, RowInv, RowsFollowRuns, TasksOf, RunningRows, InCron

LEMMA WaitsHandle ==
    ASSUME ShutdownInv, NEW c \in Calls, Handle(c) \/ TaskReturns(c)
    PROVE  WaitsSeen'
<1> USE DEF ShutdownInv, WaitsSeen, RowInv, Goto, TypeOK
<1>1. phase' = phase /\ drained' = drained /\ waited' = waited
  BY DEF Handle, TaskReturns, ManagerGo, ManagerRefuses, ClaimLock, StartupLock, OpenRow,
         CloseRow, Finish, shutdownVars
<1>2. dbFailures' = 0 => dbFailures = 0 /\ orphans' = orphans
  BY DEF Handle, TaskReturns, ManagerGo, ManagerRefuses, ClaimLock, StartupLock, OpenRow,
         CloseRow, Finish, boundVars
<1>3. \A d \in Calls : d \in InCron' => d \in InCron
  <2>1. CASE ClaimLock(c) \/ StartupLock(c)
    BY <2>1 DEF ClaimLock, StartupLock, TryLock, InCron, CallRecord
  <2>2. CASE ~(ClaimLock(c) \/ StartupLock(c))
    BY <2>2 DEF Handle, TaskReturns, ManagerGo, ManagerRefuses, OpenRow, CloseRow, Finish, InCron
  <2> QED BY <2>1, <2>2
<1>4. InCron' \subseteq Calls
  BY DEF InCron
<1> QED BY <1>1, <1>2, <1>3, <1>4

LEMMA ShutdownStep == ShutdownInv /\ [Next]_vars => ShutdownInv'
<1> SUFFICES ASSUME ShutdownInv, [Next]_vars PROVE WaitsSeen'
  BY WaitStep, RowStep DEF ShutdownInv
<1> USE DEF ShutdownInv, WaitsSeen
<1>1. ASSUME NEW c \in Calls, NEW t \in Tasks,
             ManualTrigger(c, t) \/ CronTrigger(c, t) \/ StartupTrigger(c, t)
      PROVE  WaitsSeen'
  BY <1>1 DEF ManualTrigger, CronTrigger, StartupTrigger, shutdownVars, boundVars
<1>2. CASE Signal \/ StopHttp \/ HttpDone \/ DeadlinePasses
  <2>1. drained' => drained
    BY <1>2, Zenon DEF Signal, StopHttp, HttpDone, DeadlinePasses
  <2>2. (phase' = phase /\ waited' = waited) \/ phase' \notin {"waitManager", "managerDone"}
    BY <1>2 DEF Signal, StopHttp, HttpDone, DeadlinePasses
  <2>3. InCron' = InCron /\ orphans' = orphans /\ dbFailures' = dbFailures
    BY <1>2 DEF Signal, StopHttp, HttpDone, DeadlinePasses, callVars, boundVars, InCron
  <2> QED BY <2>1, <2>2, <2>3
<1>3. CASE CronDone
  BY <1>3 DEF CronDone, callVars, boundVars, InCron
<1>4. CASE Exit
  <2>1. /\ phase' = "exited" /\ dbFailures' = dbFailures /\ drained' = drained
        /\ phase = "managerDone" /\ orphans' = orphans \cup TasksOf(RunningRows)
    BY <1>4 DEF Exit, boundVars
  <2>2. ASSUME drained, dbFailures = 0
        PROVE  orphans' = {}
    <3>1. waited /\ tracked = {} /\ InCron = {} /\ orphans = {}
      BY <2>1, <2>2 DEF WaitInv, ManagerWaits
    <3>2. TasksOf(RunningRows) = {}
      BY <2>1, <2>2, <3>1, NothingRunsUndrained DEF WaitInv
    <3> QED BY <2>1, <3>1, <3>2
  <2> QED BY <2>1, <2>2
<1>8. CASE ManagerDone
  <2>1. /\ phase = "waitManager" /\ phase' = "managerDone"
        /\ InCron' = InCron /\ orphans' = orphans /\ dbFailures' = dbFailures
    BY <1>8 DEF ManagerDone, callVars, boundVars, InCron
  <2>2. drained' => drained /\ waited'
    BY <1>8, Zenon DEF ManagerDone
  <2> QED BY <2>1, <2>2
<1>5. CASE Kill
  BY <1>5 DEF Kill
<1>6. CASE Boot
  BY <1>6 DEF Boot
<1>7. CASE UNCHANGED vars
  BY <1>7 DEF vars, callVars, shutdownVars, boundVars, InCron
<1> QED BY <1>1, <1>2, <1>3, <1>4, <1>5, <1>6, <1>7, <1>8, WaitsHandle DEF Next, Shutdown

\* When every wait of shutdownServer saw its end and no write of a row failed, no row
\* "running" is left behind for the next process.
THEOREM CleanShutdowns == Spec => []CleanShutdownClosesRows
<1>1. Init => ShutdownInv
  BY TrackedInit DEF ShutdownInv, WaitInv, ManagerWaits, AcceptedRunsAreWaitedFor, TrackedInv,
                     RowInv, RowsFollowRuns, WaitsSeen, Init, NoRow
<1>2. ShutdownInv => CleanShutdownClosesRows
  BY DEF ShutdownInv, WaitsSeen, CleanShutdownClosesRows
<1> QED BY <1>1, <1>2, ShutdownStep, PTL DEF Spec

=============================================================================
