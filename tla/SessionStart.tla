---------------------------- MODULE SessionStart ----------------------------
(***************************************************************************)
(* The start-worker lifecycle of the session bridge                        *)
(* (src/netplay/bridge/session_bridge.cpp) over SessionStartLifecycle      *)
(* (include/netplay/bridge/session_start_state.h).                         *)
(*                                                                         *)
(* Callers of the bridge (the menu on the game thread, companion mods      *)
(* through the exported netbridge_* functions, DLL detach) take g_mutex    *)
(* for the whole of each operation; a start request runs on a worker       *)
(* thread which takes g_mutex twice, once to publish its result and once   *)
(* to retire its ownership, and takeover's own mutex in between.  Each     *)
(* critical section is one action.  The takeover layer is kept to what     *)
(* the bridge can tell apart: which request's helper process is alive,     *)
(* and whether Revival's init has been applied to the local game for it.   *)
(***************************************************************************)
EXTENDS Naturals

CONSTANT MaxGeneration      \* bound on g_start.generation

ASSUME MaxGenerationAssumption == MaxGeneration \in Nat \ {0}

Requests == 1..MaxGeneration
None == 0
Phases == {"Idle", "Connecting", "DelaySetup", "Connected", "Failed", "SessionEnded"}
ActivePhases == {"Connecting", "DelaySetup", "Connected"}
StartStates == {"Idle", "Rejected", "Running", "CancelRequested"}
WorkerSteps == {"none", "takeover", "started", "failed", "cleanup", "finish", "done"}

VARIABLES
  initialized,       \* g_initialized
  phase,             \* g_status.phase
  statusPid,         \* g_status.processId: the request whose helper it names
  configValid,       \* g_activeHostNetworkConfigValid
  startState,        \* g_start.state
  generation,        \* g_start.generation
  workerGeneration,  \* g_start.workerGeneration
  handle,            \* g_startWorker: the request of the joinable thread
  wpc,               \* where each request's worker thread is
  detached,          \* requests whose worker EmergencyShutdown let go
  helper,            \* g_revivalProcess: the request whose helper is alive
  localInit,         \* g_localInitAppliedForSession
  exitPending,       \* g_revivalExitIntercepted
  menuPending,       \* a gameplay-exit recovery waits for its menu entry
  tickPc,            \* Tick: outside the lock for the training handoff?
  tickSerial,        \* Tick: requestSerial read before that
  tickHelper,        \* the helper whose init event Tick saw (history)
  shutPc,            \* Shutdown: where it is
  shutTarget         \* Shutdown: workerToJoin

bridge == <<initialized, phase, statusPid, configValid>>
start == <<startState, generation, workerGeneration>>
workers == <<wpc, detached>>
native == <<helper, localInit, exitPending, menuPending>>
tick == <<tickPc, tickSerial, tickHelper>>
shut == <<shutPc, shutTarget>>
vars == <<bridge, start, handle, workers, native, tick, shut>>

Init ==
  /\ initialized = FALSE
  /\ phase = "Idle"
  /\ statusPid = None
  /\ configValid = FALSE
  /\ startState = "Idle"
  /\ generation = 0
  /\ workerGeneration = 0
  /\ handle = None
  /\ wpc = [r \in Requests |-> "none"]
  /\ detached = {}
  /\ helper = None
  /\ localInit = FALSE
  /\ exitPending = FALSE
  /\ menuPending = FALSE
  /\ tickPc = "idle"
  /\ tickSerial = 0
  /\ tickHelper = None
  /\ shutPc = "none"
  /\ shutTarget = None

-----------------------------------------------------------------------------
(* SessionStartLifecycle *)

IsRunning == startState \in {"Running", "CancelRequested"}

\* Mutant: the publication and Tick's recheck forget the generation.
IsCurrentForgotten(r) == r \in 0..MaxGeneration

IsCurrent(r) == r = generation

\* Mutants: any running worker owns the start; a cancelled one never does.
OwnsWorkerAnyRequest(r) == IsRunning /\ r \in Requests
OwnsWorkerUnlessCancelled(r) == startState = "Running" /\ r = workerGeneration

OwnsWorker(r) == IsRunning /\ r = workerGeneration

\* Mutants: cancelling retires the worker at once; the counter is stepped twice.
InvalidateRetires ==
  /\ generation < MaxGeneration
  /\ generation' = generation + 1
  /\ startState' = IF IsRunning THEN "Idle" ELSE startState
  /\ UNCHANGED workerGeneration
InvalidateTwice ==
  /\ generation < MaxGeneration
  /\ generation' = generation + 2
  /\ startState' = IF IsRunning THEN "CancelRequested" ELSE startState
  /\ UNCHANGED workerGeneration

Invalidate ==
  /\ generation < MaxGeneration
  /\ generation' = generation + 1
  /\ startState' = IF IsRunning THEN "CancelRequested" ELSE startState
  /\ UNCHANGED workerGeneration

\* JoinFinishedWorkerUnlocked: joins while holding g_mutex.
JoinFinishedWorker == handle' = IF IsRunning THEN handle ELSE None

-----------------------------------------------------------------------------
(* What the takeover layer does to the state this module keeps *)

\* takeover::CancelSession(reason, &g_status)
TakeoverCancel(toIdle) ==
  /\ helper' = None
  /\ localInit' = FALSE
  /\ statusPid' = None
  /\ phase' = IF toIdle \/ helper = None THEN "Idle" ELSE "SessionEnded"

\* takeover::Tick when the helper process is gone.
TickHelperGone ==
  /\ phase \in ActivePhases
  /\ helper = None
  /\ statusPid' \in {None, statusPid}
  /\ \/ /\ phase = "Connected"
        /\ phase' = "SessionEnded"
        /\ UNCHANGED localInit
     \/ /\ phase # "Connected"
        /\ ~localInit
        /\ phase' = "Failed"
        /\ UNCHANGED localInit
     \/ /\ phase # "Connected"
        /\ localInit
        /\ \/ phase' = "Failed" /\ localInit' = FALSE
           \/ phase' \in ActivePhases /\ UNCHANGED localInit

\* takeover::Tick when the helper is alive; applied says whether Revival's
\* init has been applied by the time the promotions are looked at.
TickHelperAlive(applied) ==
  /\ phase \in ActivePhases
  /\ helper # None
  /\ UNCHANGED statusPid
  /\ \/ phase' = phase /\ localInit' = applied
     \/ /\ phase' = IF phase = "Connected" THEN "SessionEnded" ELSE "Failed"
        /\ localInit' = applied
     \/ /\ applied
        /\ phase' = "Failed"
        /\ localInit' = FALSE
     \/ /\ applied
        /\ phase # "Connected"
        /\ phase' \in {"DelaySetup", "Connected"}
        /\ localInit' = TRUE

TickTerminal ==
  /\ phase \notin ActivePhases
  /\ UNCHANGED <<phase, statusPid, localInit>>

-----------------------------------------------------------------------------
(* Operations of the bridge *)

\* Initialize, with InitializeHostUnlocked for a game the mod itself hosts.
\* takeover::InitializeHost may decline, which leaves g_initialized unset.
Initialize ==
  /\ ~initialized
  /\ initialized' \in BOOLEAN
  /\ phase' = "Idle"
  /\ statusPid' = None
  /\ configValid' = FALSE
  /\ startState' = IF startState = "Rejected" THEN "Idle" ELSE startState
  /\ UNCHANGED <<generation, workerGeneration, handle, workers, native, tick, shut>>

\* StartSessionInternal while a worker still owns the start.  Every start
\* initializes an uninitialized bridge first, which clears g_status.
StartAlreadyInProgress ==
  /\ IsRunning
  /\ initialized' = TRUE
  /\ phase' = "Failed"
  /\ statusPid' = IF initialized THEN statusPid ELSE None
  /\ configValid' = (configValid /\ initialized)
  /\ UNCHANGED <<start, handle, workers, native, tick, shut>>

\* StartSessionInternal refusing its arguments on the calling thread.
StartRejected(host) ==
  /\ ~IsRunning
  /\ initialized' = TRUE
  /\ JoinFinishedWorker
  /\ phase' = "Failed"
  /\ startState' = "Rejected"
  /\ statusPid' = IF initialized THEN statusPid ELSE None
  /\ configValid' = (configValid /\ initialized /\ ~host)
  /\ UNCHANGED <<generation, workerGeneration, workers, native, tick, shut>>

\* StartSessionInternal handing the request to a new worker.
StartSession(host) ==
  /\ ~IsRunning
  /\ generation < MaxGeneration
  /\ initialized' = TRUE
  /\ phase' = "Connecting"
  /\ statusPid' = None
  /\ configValid' = host
  /\ startState' = "Running"
  /\ generation' = generation + 1
  /\ workerGeneration' = generation + 1
  /\ handle' = generation + 1
  /\ wpc' = [wpc EXCEPT ![generation + 1] = "takeover"]
  /\ UNCHANGED <<detached, native, tick, shut>>

\* StartSessionInternal when the thread cannot be created.
StartLaunchFailure ==
  /\ ~IsRunning
  /\ generation < MaxGeneration
  /\ initialized' = TRUE
  /\ JoinFinishedWorker
  /\ phase' = "Failed"
  /\ statusPid' = None
  /\ configValid' = FALSE
  /\ startState' = "Rejected"
  /\ generation' = generation + 1
  /\ workerGeneration' = generation + 1
  /\ UNCHANGED <<workers, native, tick, shut>>

\* takeover::StartSession on the worker, under takeover's mutex.
WorkerTakeover(r) ==
  /\ wpc[r] = "takeover"
  /\ \/ /\ helper = None
        /\ helper' = r
        /\ localInit' = FALSE
        /\ exitPending' = FALSE
        /\ wpc' = [wpc EXCEPT ![r] = "started"]
     \/ /\ UNCHANGED helper
        /\ UNCHANGED localInit \/ localInit' = FALSE
        /\ UNCHANGED exitPending \/ exitPending' = FALSE
        /\ wpc' = [wpc EXCEPT ![r] = "failed"]
  /\ UNCHANGED <<bridge, start, handle, detached, menuPending, tick, shut>>

\* The worker publishes its result, or finds that it is stale.
WorkerResolve(r) ==
  /\ wpc[r] \in {"started", "failed"}
  /\ IF IsCurrent(r)
     THEN /\ phase' = IF wpc[r] = "started" THEN "Connecting" ELSE "Failed"
          /\ statusPid' = IF wpc[r] = "started" THEN r ELSE None
          /\ wpc' = [wpc EXCEPT ![r] = "finish"]
     ELSE /\ wpc' = [wpc EXCEPT ![r] =
                       IF wpc[r] = "started" /\ OwnsWorker(r) THEN "cleanup" ELSE "finish"]
          /\ UNCHANGED <<phase, statusPid>>
  /\ UNCHANGED <<initialized, configValid, start, handle, detached, native, tick, shut>>

\* takeover::CancelSession("stale_worker_result", nullptr) on the worker.
WorkerCleanup(r) ==
  /\ wpc[r] = "cleanup"
  /\ helper' = None
  /\ localInit' = FALSE
  /\ wpc' = [wpc EXCEPT ![r] = "finish"]
  /\ UNCHANGED <<bridge, start, handle, detached, exitPending, menuPending, tick, shut>>

\* g_start.Finish(requestSerial), the worker's last critical section.
WorkerFinish(r) ==
  /\ wpc[r] = "finish"
  /\ startState' = IF OwnsWorker(r) THEN "Idle" ELSE startState
  /\ wpc' = [wpc EXCEPT ![r] = "done"]
  /\ UNCHANGED <<bridge, generation, workerGeneration, handle, detached, native, tick, shut>>

\* CancelSession(reason); toIdle is the bridge's ShouldCancelToIdle(reason).
\* takeover's own list of such reasons is shorter by one.
CancelSession(toIdle) ==
  /\ initialized
  /\ generation < MaxGeneration
  /\ generation' = generation + 1
  /\ configValid' = FALSE
  /\ \/ /\ startState = "Rejected"
        /\ startState' = "Idle"
        /\ phase' = "Idle"
        /\ UNCHANGED <<statusPid, handle, helper, localInit>>
     \/ /\ IsRunning
        /\ startState' = "CancelRequested"
        /\ phase' = IF toIdle THEN "Idle" ELSE "Failed"
        /\ UNCHANGED <<statusPid, handle, helper, localInit>>
     \/ /\ startState = "Idle"
        /\ JoinFinishedWorker
        /\ TakeoverCancel(toIdle) \/ TakeoverCancel(FALSE)
        /\ UNCHANGED startState
  /\ UNCHANGED <<initialized, workerGeneration, workers, exitPending, menuPending, tick, shut>>

\* ConsumeRevivalExitInterception: polled by every title-screen frame.
ConsumeRevivalExitInterception ==
  /\ initialized
  /\ Invalidate
  /\ JoinFinishedWorker
  /\ IF exitPending
     THEN TakeoverCancel(FALSE) /\ exitPending' = FALSE
     ELSE UNCHANGED <<phase, statusPid, helper, localInit, exitPending>>
  /\ UNCHANGED <<initialized, configValid, workers, menuPending, tick, shut>>

\* CompleteGameplayExitRecovery(mode); online covers online and spectate.
CompleteGameplayExitRecovery(online) ==
  /\ menuPending
  /\ initialized
  /\ Invalidate
  /\ JoinFinishedWorker
  /\ phase' = IF online THEN "SessionEnded" ELSE "Idle"
  /\ menuPending' = FALSE
  /\ UNCHANGED <<initialized, statusPid, configValid, workers, helper, localInit,
                 exitPending, tick, shut>>

\* The locked part of Tick.
Tick ==
  /\ tickPc = "idle"
  /\ initialized
  /\ ~IsRunning
  /\ JoinFinishedWorker
  /\ \/ /\ TickTerminal \/ TickHelperGone \/ TickHelperAlive(localInit)
        /\ UNCHANGED tick
     \/ /\ phase \in {"Connecting", "DelaySetup"}
        /\ helper # None
        /\ ~localInit
        /\ tickPc' = "retire"
        /\ tickSerial' = generation
        /\ tickHelper' = helper
        /\ UNCHANGED <<phase, statusPid, localInit>>
  /\ UNCHANGED <<initialized, configValid, start, workers, helper, exitPending, menuPending, shut>>

\* Tick after TrainingHandoff, which ran outside the lock: not ready, a
\* changed bridge, or takeover::Tick with trainingRetired.
TickAfterTrainingHandoff ==
  /\ tickPc = "retire"
  /\ tickPc' = "idle"
  /\ \/ UNCHANGED <<phase, statusPid, localInit>>
     \/ /\ initialized
        /\ ~IsRunning
        /\ IsCurrent(tickSerial)
        /\ phase \in {"Connecting", "DelaySetup"}
        /\ TickHelperGone \/ TickHelperAlive(TRUE)
  /\ UNCHANGED <<initialized, configValid, start, handle, workers, helper, exitPending,
                 menuPending, tickSerial, tickHelper, shut>>

\* Shutdown: the first locked part, the join outside the lock, the second.
ShutdownBegin ==
  /\ shutPc = "none"
  /\ initialized
  /\ Invalidate
  /\ handle' = None
  /\ shutPc' = "join"
  /\ shutTarget' = IF IsRunning THEN handle ELSE None
  /\ UNCHANGED <<bridge, workers, native, tick>>

ShutdownJoin ==
  /\ shutPc = "join"
  /\ shutTarget # None => wpc[shutTarget] = "done"
  /\ shutPc' = "cleanup"
  /\ shutTarget' = None
  /\ UNCHANGED <<bridge, start, handle, workers, native, tick>>

ShutdownFinish ==
  /\ shutPc = "cleanup"
  /\ shutPc' = "none"
  /\ helper' = None
  /\ localInit' = FALSE
  /\ initialized' = FALSE
  /\ phase' = "Idle"
  /\ statusPid' = None
  /\ configValid' = FALSE
  /\ startState' = IF startState = "Rejected" THEN "Idle" ELSE startState
  /\ UNCHANGED <<generation, workerGeneration, handle, workers, exitPending, menuPending,
                 tick, shutTarget>>

\* EmergencyShutdown when try_lock succeeds: the worker is detached.
EmergencyShutdown ==
  /\ shutPc = "none"
  /\ generation < MaxGeneration
  /\ detached' = IF IsRunning THEN detached \union {workerGeneration} ELSE detached
  /\ handle' = None
  /\ startState' = "Idle"
  /\ generation' = generation + 1
  /\ helper' = None
  /\ localInit' = FALSE
  /\ initialized' = FALSE
  /\ phase' = "Idle"
  /\ statusPid' = None
  /\ configValid' = FALSE
  /\ UNCHANGED <<workerGeneration, wpc, exitPending, menuPending, tick, shut>>

\* EmergencyShutdown when another thread holds g_mutex.
EmergencyShutdownContended ==
  /\ initialized
  /\ helper # None
  /\ helper' = None
  /\ localInit' = FALSE
  /\ UNCHANGED <<bridge, start, handle, workers, exitPending, menuPending, tick, shut>>

-----------------------------------------------------------------------------
(* The helper process and the native exit paths (takeover, recovery) *)

HelperExit ==
  /\ helper # None
  /\ helper' = None
  /\ UNCHANGED <<bridge, start, handle, workers, localInit, exitPending, menuPending, tick, shut>>

\* An intercepted ExitProcess of a local online session.
RevivalExitIntercepted ==
  /\ localInit
  /\ exitPending' = TRUE
  /\ helper' \in {None, helper}
  /\ localInit' = FALSE
  /\ UNCHANGED <<bridge, start, handle, workers, menuPending, tick, shut>>

\* A gameplay-exit recovery, up to scheduling its menu entry.
GameplayExitRecovery ==
  /\ localInit
  /\ ~menuPending
  /\ menuPending' = TRUE
  /\ helper' = None
  /\ localInit' = FALSE
  /\ UNCHANGED <<bridge, start, handle, workers, exitPending, tick, shut>>

-----------------------------------------------------------------------------
\* Mutant: Shutdown joins without leaving g_mutex.
WorkerWithoutLock(r) ==
  WorkerTakeover(r) \/ WorkerCleanup(r)
    \/ (shutPc # "join" /\ (WorkerResolve(r) \/ WorkerFinish(r)))

Worker(r) == WorkerTakeover(r) \/ WorkerResolve(r) \/ WorkerCleanup(r) \/ WorkerFinish(r)

Next ==
  \/ Initialize
  \/ StartAlreadyInProgress
  \/ StartLaunchFailure
  \/ \E host \in BOOLEAN : StartRejected(host) \/ StartSession(host)
  \/ \E r \in Requests : Worker(r)
  \/ \E toIdle \in BOOLEAN : CancelSession(toIdle)
  \/ ConsumeRevivalExitInterception
  \/ \E online \in BOOLEAN : CompleteGameplayExitRecovery(online)
  \/ Tick
  \/ TickAfterTrainingHandoff
  \/ ShutdownBegin \/ ShutdownJoin \/ ShutdownFinish
  \/ EmergencyShutdown \/ EmergencyShutdownContended
  \/ HelperExit \/ RevivalExitIntercepted \/ GameplayExitRecovery

Spec == Init /\ [][Next]_vars

\* A created thread runs, and takeover::StartSession is bounded by its own
\* time limits; Shutdown runs on a thread that only waits for the worker.
Fairness ==
  /\ \A r \in Requests : WF_vars(Worker(r))
  /\ WF_vars(ShutdownJoin)
  /\ WF_vars(ShutdownFinish)

FairSpec == Spec /\ Fairness

-----------------------------------------------------------------------------
(* Properties *)

FlagTypes ==
  /\ initialized \in BOOLEAN
  /\ configValid \in BOOLEAN
  /\ localInit \in BOOLEAN
  /\ exitPending \in BOOLEAN
  /\ menuPending \in BOOLEAN

StateTypes ==
  /\ phase \in Phases
  /\ statusPid \in 0..MaxGeneration
  /\ startState \in StartStates
  /\ generation \in 0..MaxGeneration
  /\ workerGeneration \in 0..MaxGeneration
  /\ handle \in 0..MaxGeneration
  /\ wpc \in [Requests -> WorkerSteps]
  /\ detached \in SUBSET Requests
  /\ helper \in 0..MaxGeneration
  /\ tickPc \in {"idle", "retire"}
  /\ tickSerial \in 0..MaxGeneration
  /\ tickHelper \in 0..MaxGeneration
  /\ shutPc \in {"none", "join", "cleanup"}
  /\ shutTarget \in 0..MaxGeneration

\* Every variable has its type.
TypeOK == FlagTypes /\ StateTypes

Live(r) == wpc[r] \notin {"none", "done"}

\* Ownership of the start is held exactly as long as the request's own worker
\* is alive: whenever g_start says a start is running, the thread that will
\* retire it exists and was not let go, and every thread that was not let go
\* is that one.  So two takeovers never start side by side, and the bridge is
\* never left refusing every start with nobody to clear it.
OwnershipFollowsWorker ==
  /\ IsRunning => workerGeneration \in Requests \ detached /\ Live(workerGeneration)
  /\ \A r \in Requests \ detached : Live(r) => OwnsWorker(r)

\* JoinFinishedWorkerUnlocked joins while holding g_mutex, which the worker
\* needs to retire.  It never waits: the thread it joins has left its last
\* critical section.
JoinNeverBlocks ==
  ~IsRunning /\ handle # None => wpc[handle] = "done"

\* The process id the bridge publishes never names another process than the
\* helper that is alive, unless a worker let go at process exit started it:
\* IsPeerProcessAlive and the listener acknowledgement compare against it.
PublishedPidIsLiveHelper ==
  statusPid # None /\ helper # None => helper = statusPid \/ helper \in detached

\* A request that was superseded or cancelled before it published never
\* publishes its helper later, whatever the worker finds when it returns.
StaleNeverPublished ==
  [][\A r \in Requests : r < generation /\ statusPid # r => statusPid' # r]_vars

\* Revival's init is applied only to the helper whose init event Tick saw
\* before it left the lock for the training handoff, however the bridge was
\* used meanwhile (again up to a worker let go at process exit).
InitOnlyForObservedHelper ==
  [][~localInit /\ localInit' => helper = tickHelper \/ helper \in detached]_vars

\* Every start gives up its ownership.
StartRetires == IsRunning ~> ~IsRunning

\* Shutdown ends, although it waits for a worker that needs the bridge's lock.
ShutdownCompletes == shutPc = "join" ~> shutPc = "none"

\* docs/HOW_IT_WORKS.md: "A cancelled startup keeps its worker ownership
\* through stale-result cleanup": when a start that CancelSession cancelled
\* gives up its ownership, its helper is gone.  The code does not keep this:
\* a cancel between the worker's publication and its Finish only marks the
\* start, and the worker no longer looks.
CancelledStartCleanedUp ==
  [][startState = "CancelRequested" /\ startState' = "Idle" /\ phase \in {"Idle", "Failed"}
       => helper' # workerGeneration]_vars

(* The bridge keeps its types, ownership of the start follows its worker,   *)
(* and the join under the lock never blocks.                                *)
StartSafe == TypeOK /\ OwnershipFollowsWorker /\ JoinNeverBlocks
=============================================================================
