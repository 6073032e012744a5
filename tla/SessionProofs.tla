--------------------------- MODULE SessionProofs ---------------------------
(***************************************************************************)
(* Proofs about four of the components a session runs through, each about  *)
(* its own specification: SessionStart, for every MaxGeneration,           *)
(* LauncherGuard, for any number of terminations and operations,           *)
(* HelperBoot, for any number of sessions, and Adoption, for any number of *)
(* session objects, rounds of the probe and failures of the cleanup.       *)
(*                                                                         *)
(* SessionStart: the ownership invariants are not inductive alone.  A new  *)
(* request must be known not to have a worker yet, and the joinable thread *)
(* to be the owner's.                                                      *)
(*                                                                         *)
(* LauncherGuard: a thread that holds the marker's pointer has counted     *)
(* itself (CountIsExact), and the view is only unmapped at a count of      *)
(* zero; what is not unmapped is owned by the guard, its cleanup or the    *)
(* deferred bundle (ViewIsOwned).  A role is given up only after the       *)
(* guard was taken back (OffWhenTaken), and the launcher's thread          *)
(* redirects before it activates (ActiveIsPatched).                        *)
(*                                                                         *)
(* HelperBoot: the main thread is released on a readiness that is this     *)
(* helper's own, after the initialization that forgets everything          *)
(* (ReadyIsOver), and from then on every step of the launch knows what the *)
(* ones before handed out (Known, CallsCounted).  A stray readiness of     *)
(* another copy of the game is the exception throughout.                   *)
(*                                                                         *)
(* Adoption: an attachment is pending exactly from its staging to its      *)
(* decision (StagedIsPending), and a game that parks under it runs no      *)
(* native tick before (FrameInv), so what the last look saw is what is     *)
(* committed (Untouched).  Before the hooks everything taken is known      *)
(* (Begun), and is given back (LeftClean).                                 *)
(***************************************************************************)
EXTENDS SessionStart, LauncherGuard, HelperBoot, Adoption, TLAPS

\* Requests beyond the counter have not been made.
FreshRequests ==
  /\ workerGeneration <= generation
  /\ \A r \in Requests : r > generation => wpc[r] = "none" /\ r \notin detached

\* The joinable thread of a running start is the owner's.
HandleIsOwner == IsRunning /\ handle # None => handle = workerGeneration

IInv ==
  /\ TypeOK
  /\ OwnershipFollowsWorker
  /\ JoinNeverBlocks
  /\ FreshRequests
  /\ HandleIsOwner

USE MaxGenerationAssumption DEF None

\* The initial state satisfies the inductive invariant.
LEMMA InitIInv == Init => IInv
<1> SUFFICES ASSUME Init PROVE IInv
  OBVIOUS
<1>1. FlagTypes
  BY DEF Init, FlagTypes
<1>2. StateTypes
  BY DEF Init, StateTypes, Requests, Phases, StartStates, WorkerSteps
<1>3. OwnershipFollowsWorker /\ JoinNeverBlocks /\ HandleIsOwner
  BY DEF Init, OwnershipFollowsWorker, JoinNeverBlocks, HandleIsOwner, IsRunning, Live,
         OwnsWorker, Requests
<1>4. FreshRequests
  BY DEF Init, FreshRequests, Requests
<1> QED
  BY <1>1, <1>2, <1>3, <1>4 DEF IInv, TypeOK

\* Type correctness is preserved by every step.
LEMMA StateTypesStep == StateTypes /\ OwnershipFollowsWorker /\ [Next]_vars => StateTypes'
<1> SUFFICES ASSUME StateTypes, OwnershipFollowsWorker, [Next]_vars PROVE StateTypes'
  OBVIOUS
<1> USE DEF StateTypes, Requests, Phases, StartStates, WorkerSteps, ActivePhases, IsRunning,
            OwnsWorker, bridge, start, workers, native, tick, shut, vars
<1>1. CASE UNCHANGED vars
  BY <1>1
<1>2. CASE Initialize
  BY <1>2 DEF Initialize
<1>3. CASE StartAlreadyInProgress
  BY <1>3 DEF StartAlreadyInProgress
<1>4. CASE StartLaunchFailure
  BY <1>4 DEF StartLaunchFailure, JoinFinishedWorker
<1>5. ASSUME NEW host \in BOOLEAN, StartRejected(host) PROVE StateTypes'
  BY <1>5 DEF StartRejected, JoinFinishedWorker
<1>6. ASSUME NEW host \in BOOLEAN, StartSession(host) PROVE StateTypes'
  BY <1>6 DEF StartSession
<1>7. ASSUME NEW r \in Requests, WorkerTakeover(r) PROVE StateTypes'
  BY <1>7 DEF WorkerTakeover
<1>8. ASSUME NEW r \in Requests, WorkerResolve(r) PROVE StateTypes'
  BY <1>8 DEF WorkerResolve, IsCurrent
<1>9. ASSUME NEW r \in Requests, WorkerCleanup(r) PROVE StateTypes'
  BY <1>9 DEF WorkerCleanup
<1>10. ASSUME NEW r \in Requests, WorkerFinish(r) PROVE StateTypes'
  BY <1>10 DEF WorkerFinish
<1>11. ASSUME NEW toIdle \in BOOLEAN, CancelSession(toIdle) PROVE StateTypes'
  BY <1>11 DEF CancelSession, JoinFinishedWorker, TakeoverCancel
<1>12. CASE ConsumeRevivalExitInterception
  BY <1>12 DEF ConsumeRevivalExitInterception, Invalidate, JoinFinishedWorker, TakeoverCancel
<1>13. ASSUME NEW online \in BOOLEAN, CompleteGameplayExitRecovery(online) PROVE StateTypes'
  BY <1>13 DEF CompleteGameplayExitRecovery, Invalidate, JoinFinishedWorker
<1>14. CASE Tick
  <2>1. phase' \in Phases /\ statusPid' \in 0..MaxGeneration
    BY <1>14 DEF Tick, TickTerminal, TickHelperGone, TickHelperAlive
  <2> QED
    BY <1>14, <2>1 DEF Tick, JoinFinishedWorker
<1>15. CASE TickAfterTrainingHandoff
  <2>1. phase' \in Phases /\ statusPid' \in 0..MaxGeneration
    BY <1>15 DEF TickAfterTrainingHandoff, TickHelperGone, TickHelperAlive
  <2> QED
    BY <1>15, <2>1 DEF TickAfterTrainingHandoff
<1>16. CASE ShutdownBegin \/ ShutdownJoin \/ ShutdownFinish
  <2>1. CASE ShutdownBegin
    BY <2>1 DEF ShutdownBegin, Invalidate
  <2>2. CASE ShutdownJoin
    BY <2>2 DEF ShutdownJoin
  <2>3. CASE ShutdownFinish
    BY <2>3 DEF ShutdownFinish
  <2> QED
    BY <1>16, <2>1, <2>2, <2>3
<1>17. CASE EmergencyShutdown \/ EmergencyShutdownContended
  <2>1. CASE EmergencyShutdown
    BY <2>1 DEF EmergencyShutdown, OwnershipFollowsWorker
  <2>2. CASE EmergencyShutdownContended
    BY <2>2 DEF EmergencyShutdownContended
  <2> QED
    BY <1>17, <2>1, <2>2
<1>18. CASE HelperExit \/ RevivalExitIntercepted \/ GameplayExitRecovery
  <2>1. CASE HelperExit
    BY <2>1 DEF HelperExit
  <2>2. CASE RevivalExitIntercepted
    BY <2>2 DEF RevivalExitIntercepted
  <2>3. CASE GameplayExitRecovery
    BY <2>3 DEF GameplayExitRecovery
  <2> QED
    BY <1>18, <2>1, <2>2, <2>3
<1> QED
  BY <1>1, <1>2, <1>3, <1>4, <1>5, <1>6, <1>7, <1>8, <1>9, <1>10, <1>11, <1>12, <1>13,
     <1>14, <1>15, <1>16, <1>17, <1>18 DEF Next, Worker

\* The flags stay Boolean.
LEMMA FlagTypesStep == FlagTypes /\ [Next]_vars => FlagTypes'
<1> SUFFICES ASSUME FlagTypes, [Next]_vars PROVE FlagTypes'
  OBVIOUS
<1> USE DEF FlagTypes, bridge, start, workers, native, tick, shut, vars
<1>1. CASE UNCHANGED vars
  BY <1>1
<1>2. CASE Initialize
  BY <1>2 DEF Initialize
<1>3. CASE StartAlreadyInProgress
  BY <1>3 DEF StartAlreadyInProgress
<1>4. CASE StartLaunchFailure
  BY <1>4 DEF StartLaunchFailure
<1>5. ASSUME NEW host \in BOOLEAN, StartRejected(host) PROVE FlagTypes'
  BY <1>5 DEF StartRejected
<1>6. ASSUME NEW host \in BOOLEAN, StartSession(host) PROVE FlagTypes'
  BY <1>6 DEF StartSession
<1>7. ASSUME NEW r \in Requests, Worker(r) PROVE FlagTypes'
  BY <1>7 DEF Worker, WorkerTakeover, WorkerResolve, WorkerCleanup, WorkerFinish
<1>8. ASSUME NEW toIdle \in BOOLEAN, CancelSession(toIdle) PROVE FlagTypes'
  BY <1>8 DEF CancelSession, TakeoverCancel
<1>9. CASE ConsumeRevivalExitInterception
  BY <1>9 DEF ConsumeRevivalExitInterception, TakeoverCancel
<1>10. ASSUME NEW online \in BOOLEAN, CompleteGameplayExitRecovery(online) PROVE FlagTypes'
  BY <1>10 DEF CompleteGameplayExitRecovery
<1>11. CASE Tick
  BY <1>11 DEF Tick, TickTerminal, TickHelperGone, TickHelperAlive
<1>12. CASE TickAfterTrainingHandoff
  BY <1>12 DEF TickAfterTrainingHandoff, TickHelperGone, TickHelperAlive
<1>13. CASE ShutdownBegin \/ ShutdownJoin \/ ShutdownFinish
  BY <1>13 DEF ShutdownBegin, ShutdownJoin, ShutdownFinish
<1>14. CASE EmergencyShutdown \/ EmergencyShutdownContended
  BY <1>14 DEF EmergencyShutdown, EmergencyShutdownContended
<1>15. CASE HelperExit \/ RevivalExitIntercepted \/ GameplayExitRecovery
  BY <1>15 DEF HelperExit, RevivalExitIntercepted, GameplayExitRecovery
<1> QED
  BY <1>1, <1>2, <1>3, <1>4, <1>5, <1>6, <1>7, <1>8, <1>9, <1>10, <1>11, <1>12, <1>13,
     <1>14, <1>15 DEF Next

\* Ownership, the join and the freshness of requests are preserved together.
LEMMA OwnershipStep == IInv /\ [Next]_vars => /\ OwnershipFollowsWorker'
                                              /\ JoinNeverBlocks'
                                              /\ FreshRequests'
                                              /\ HandleIsOwner'
<1> DEFINE Goal == /\ OwnershipFollowsWorker'
                   /\ JoinNeverBlocks'
                   /\ FreshRequests'
                   /\ HandleIsOwner'
<1> SUFFICES ASSUME IInv, [Next]_vars PROVE Goal
  OBVIOUS
<1>0. StateTypes
  BY DEF IInv, TypeOK
<1> USE <1>0 DEF IInv, StateTypes, Requests, StartStates, WorkerSteps, IsRunning, OwnsWorker,
            Live, OwnershipFollowsWorker, JoinNeverBlocks, FreshRequests, HandleIsOwner
<1>1. CASE UNCHANGED <<start, handle, workers>>
  BY <1>1 DEF start, workers
<1>2. CASE /\ UNCHANGED <<generation, workerGeneration, workers>>
           /\ ~IsRunning /\ startState' \in {"Idle", "Rejected", startState}
           /\ handle' \in {handle, None}
  BY <1>2 DEF workers
<1>3. CASE /\ Invalidate
           /\ handle' \in {handle, None}
           /\ UNCHANGED workers
  BY <1>3 DEF Invalidate, workers
<1>4. CASE StartLaunchFailure
  BY <1>4 DEF StartLaunchFailure, JoinFinishedWorker, workers
<1>5. ASSUME NEW host \in BOOLEAN, StartSession(host) PROVE Goal
  BY <1>5 DEF StartSession
<1>6. ASSUME NEW r \in Requests, WorkerTakeover(r) \/ WorkerResolve(r) \/ WorkerCleanup(r)
      PROVE Goal
  <2>1. /\ Live(r)
        /\ UNCHANGED <<start, handle, detached>>
        /\ \E s \in WorkerSteps \ {"none", "done"} : wpc' = [wpc EXCEPT ![r] = s]
    BY <1>6 DEF WorkerTakeover, WorkerResolve, WorkerCleanup, start
  <2> QED
    BY <2>1 DEF start
<1>7. ASSUME NEW r \in Requests, WorkerFinish(r) PROVE Goal
  BY <1>7 DEF WorkerFinish
<1>8. ASSUME NEW toIdle \in BOOLEAN, CancelSession(toIdle) PROVE Goal
  <2>1. /\ generation < MaxGeneration /\ generation' = generation + 1
        /\ UNCHANGED <<workerGeneration, wpc, detached>>
        /\ \/ startState = "Rejected" /\ startState' = "Idle" /\ handle' = handle
           \/ IsRunning /\ startState' = "CancelRequested" /\ handle' = handle
           \/ startState = "Idle" /\ startState' = "Idle" /\ handle' = None
    BY <1>8 DEF CancelSession, JoinFinishedWorker, workers
  <2> QED
    BY <2>1
<1>9. CASE EmergencyShutdown
  BY <1>9 DEF EmergencyShutdown
<1>10. CASE \/ StartAlreadyInProgress \/ TickAfterTrainingHandoff \/ ShutdownJoin
            \/ EmergencyShutdownContended \/ HelperExit \/ RevivalExitIntercepted
            \/ GameplayExitRecovery
  <2>1. UNCHANGED <<start, handle, workers>>
    BY <1>10 DEF StartAlreadyInProgress, TickAfterTrainingHandoff, ShutdownJoin,
       EmergencyShutdownContended, HelperExit, RevivalExitIntercepted, GameplayExitRecovery
  <2> QED
    BY <2>1, <1>1
<1>11. CASE Initialize
  BY <1>11 DEF Initialize, workers
<1>12. ASSUME NEW host \in BOOLEAN, StartRejected(host) PROVE Goal
  BY <1>12, <1>2 DEF StartRejected, JoinFinishedWorker
<1>13. CASE Tick
  BY <1>13, <1>2 DEF Tick, JoinFinishedWorker, start
<1>14. CASE ShutdownFinish
  BY <1>14 DEF ShutdownFinish, workers
<1>15. CASE ShutdownBegin
  BY <1>15, <1>3 DEF ShutdownBegin
<1>16. CASE ConsumeRevivalExitInterception
  BY <1>16, <1>3 DEF ConsumeRevivalExitInterception, JoinFinishedWorker
<1>17. ASSUME NEW online \in BOOLEAN, CompleteGameplayExitRecovery(online) PROVE Goal
  BY <1>17, <1>3 DEF CompleteGameplayExitRecovery, JoinFinishedWorker
<1>18. CASE UNCHANGED vars
  BY <1>18, <1>1 DEF vars
<1> HIDE DEF Goal
<1> QED
  BY <1>4, <1>5, <1>6, <1>7, <1>8, <1>9, <1>10, <1>11, <1>12, <1>13, <1>14, <1>15, <1>16,
     <1>17, <1>18 DEF Next, Worker

\* The inductive invariant holds in every reachable state.
THEOREM Inductive == Spec => []IInv
<1>1. IInv /\ [Next]_vars => IInv'
  BY StateTypesStep, FlagTypesStep, OwnershipStep DEF IInv, TypeOK
<1> QED
  BY InitIInv, <1>1, PTL DEF Spec

\* The variables of the bridge always have their types.
THEOREM TypeCorrect == Spec => []TypeOK
<1>1. IInv => TypeOK
  BY DEF IInv
<1> QED
  BY Inductive, <1>1, PTL

\* g_start is held exactly as long as the worker of its request lives, for
\* any number of starts, cancels, shutdowns and let-go workers.
THEOREM Ownership == Spec => []OwnershipFollowsWorker
<1>1. IInv => OwnershipFollowsWorker
  BY DEF IInv
<1> QED
  BY Inductive, <1>1, PTL

\* JoinFinishedWorkerUnlocked never waits for a thread that needs g_mutex.
THEOREM JoinSafe == Spec => []JoinNeverBlocks
<1>1. IInv => JoinNeverBlocks
  BY DEF IInv
<1> QED
  BY Inductive, <1>1, PTL

\* A request that is no longer current never publishes its helper.
THEOREM StaleStaysStale == Spec => StaleNeverPublished
<1> DEFINE Stale == \A r \in Requests : r < generation /\ statusPid # r => statusPid' # r
<1>1. ASSUME IInv, [Next]_vars PROVE [Stale]_vars
  <2> SUFFICES ASSUME NEW q \in Requests, q < generation, statusPid # q, Next
               PROVE statusPid' # q
    BY <1>1
  <2>0. StateTypes
    BY <1>1 DEF IInv, TypeOK
  <2> USE <2>0 DEF StateTypes, Requests, bridge
  <2>1. ASSUME NEW r \in Requests, WorkerResolve(r) PROVE statusPid' # q
    BY <2>1 DEF WorkerResolve, IsCurrent
  <2>2. ASSUME NEW r \in Requests, WorkerTakeover(r) \/ WorkerCleanup(r) \/ WorkerFinish(r)
        PROVE statusPid' # q
    BY <2>2 DEF WorkerTakeover, WorkerCleanup, WorkerFinish
  <2>3. ASSUME NEW host \in BOOLEAN, StartRejected(host) \/ StartSession(host)
        PROVE statusPid' # q
    BY <2>3 DEF StartRejected, StartSession
  <2>4. ASSUME NEW toIdle \in BOOLEAN, CancelSession(toIdle) PROVE statusPid' # q
    BY <2>4 DEF CancelSession, TakeoverCancel
  <2>5. ASSUME NEW online \in BOOLEAN, CompleteGameplayExitRecovery(online)
        PROVE statusPid' # q
    BY <2>5 DEF CompleteGameplayExitRecovery
  <2>6. CASE Initialize \/ StartAlreadyInProgress \/ StartLaunchFailure
    BY <2>6 DEF Initialize, StartAlreadyInProgress, StartLaunchFailure
  <2>7. CASE ConsumeRevivalExitInterception
    BY <2>7 DEF ConsumeRevivalExitInterception, TakeoverCancel
  <2>8. CASE Tick
    BY <2>8 DEF Tick, TickTerminal, TickHelperGone, TickHelperAlive
  <2>9. CASE TickAfterTrainingHandoff
    BY <2>9 DEF TickAfterTrainingHandoff, TickHelperGone, TickHelperAlive
  <2>10. CASE ShutdownBegin \/ ShutdownJoin \/ ShutdownFinish
    BY <2>10 DEF ShutdownBegin, ShutdownJoin, ShutdownFinish
  <2>11. CASE EmergencyShutdown \/ EmergencyShutdownContended
    BY <2>11 DEF EmergencyShutdown, EmergencyShutdownContended
  <2>12. CASE HelperExit \/ RevivalExitIntercepted \/ GameplayExitRecovery
    BY <2>12 DEF HelperExit, RevivalExitIntercepted, GameplayExitRecovery
  <2> QED
    BY <2>1, <2>2, <2>3, <2>4, <2>5, <2>6, <2>7, <2>8, <2>9, <2>10, <2>11, <2>12
    DEF Next, Worker
<1> QED
  BY Inductive, <1>1, PTL DEF Spec, StaleNeverPublished

\* What the run session checks of the bridge's start as one invariant.
THEOREM StartSafety == Spec => []StartSafe
<1>1. IInv => StartSafe
  BY DEF IInv, StartSafe
<1> QED
  BY Inductive, <1>1, PTL

-----------------------------------------------------------------------------
(* The helper.  A worker that the bridge still owns starts its helper only *)
(* while no process id is published, and publishes only that helper; a     *)
(* worker let go at process exit is never current again.                   *)

HelperInv ==
  /\ PublishedPidIsLiveHelper
  /\ \A r \in Requests \ detached :
       /\ wpc[r] = "takeover" => statusPid = None
       /\ wpc[r] = "started" => helper \in {None, r} \union detached
  /\ \A r \in detached : r < generation

\* Between Tick's look at the init event and its second part, no start of
\* the generation it saw is running.
TickInv ==
  tickPc = "retire" =>
    /\ tickSerial <= generation
    /\ tickSerial = generation =>
         ~IsRunning /\ helper \in {None, tickHelper} \union detached

\* Whatever leaves the workers alone, publishes no new process id, starts no
\* helper and only lets requests grow older keeps HelperInv.
LEMMA HelperQuiet ==
  ASSUME StateTypes, HelperInv, UNCHANGED workers, generation' \in Nat, generation' >= generation,
         statusPid' \in {None, statusPid}, helper' \in {None, helper}
  PROVE  HelperInv'
BY DEF StateTypes, HelperInv, PublishedPidIsLiveHelper, Requests, workers

\* HelperInv is preserved by every step.
LEMMA HelperStep == IInv /\ HelperInv /\ [Next]_vars => HelperInv'
<1> SUFFICES ASSUME IInv, HelperInv, [Next]_vars PROVE HelperInv'
  OBVIOUS
<1>0. StateTypes /\ OwnershipFollowsWorker /\ FreshRequests
  BY DEF IInv, TypeOK
<1> USE <1>0
<1> DEFINE Quiet == /\ UNCHANGED workers
                    /\ generation' \in {generation, generation + 1}
                    /\ statusPid' \in {None, statusPid} /\ helper' \in {None, helper}
<1>1. Quiet => HelperInv'
  BY HelperQuiet DEF StateTypes
<1>2. CASE UNCHANGED vars
  BY <1>2, <1>1 DEF vars, bridge, start, workers, native
<1>3. CASE Initialize
  BY <1>3, <1>1 DEF Initialize, native
<1>4. CASE StartAlreadyInProgress \/ StartLaunchFailure
  BY <1>4, <1>1 DEF StartAlreadyInProgress, StartLaunchFailure, native, start
<1>5. ASSUME NEW host \in BOOLEAN, StartRejected(host) PROVE HelperInv'
  BY <1>5, <1>1 DEF StartRejected, native
<1>6. ASSUME NEW host \in BOOLEAN, StartSession(host) PROVE HelperInv'
  BY <1>6 DEF StartSession, HelperInv, PublishedPidIsLiveHelper, StateTypes, Requests, native,
     FreshRequests
<1>7. ASSUME NEW r \in Requests, WorkerTakeover(r) PROVE HelperInv'
  <2>1. /\ wpc[r] = "takeover" /\ UNCHANGED <<statusPid, generation, detached>>
        /\ \/ helper = None /\ helper' = r /\ wpc' = [wpc EXCEPT ![r] = "started"]
           \/ helper' = helper /\ wpc' = [wpc EXCEPT ![r] = "failed"]
    BY <1>7 DEF WorkerTakeover, bridge, start
  <2>2. r \notin detached => \A q \in Requests \ detached : Live(q) => q = r
    BY <2>1 DEF OwnershipFollowsWorker, OwnsWorker, Live, StateTypes
  <2> QED
    BY <2>1, <2>2 DEF HelperInv, PublishedPidIsLiveHelper, StateTypes, Requests, Live
<1>8. ASSUME NEW r \in Requests, WorkerResolve(r) PROVE HelperInv'
  <2>1. /\ wpc[r] \in {"started", "failed"} /\ UNCHANGED <<helper, generation, detached>>
        /\ \E s \in {"finish", "cleanup"} : wpc' = [wpc EXCEPT ![r] = s]
        /\ \/ statusPid' = r /\ r = generation /\ wpc[r] = "started"
           \/ statusPid' \in {None, statusPid}
    BY <1>8 DEF WorkerResolve, IsCurrent, start, native
  <2>2. r \notin detached => \A q \in Requests \ detached : Live(q) => q = r
    BY <2>1 DEF OwnershipFollowsWorker, OwnsWorker, Live, StateTypes
  <2>3. statusPid' = r /\ r = generation => r \notin detached
    BY DEF HelperInv, StateTypes
  <2> QED
    BY <2>1, <2>2, <2>3 DEF HelperInv, PublishedPidIsLiveHelper, StateTypes, Requests, Live
<1>9. ASSUME NEW r \in Requests, WorkerCleanup(r) \/ WorkerFinish(r) PROVE HelperInv'
  <2>1. /\ UNCHANGED <<statusPid, generation, detached>> /\ helper' \in {None, helper}
        /\ \E s \in {"finish", "done"} : wpc' = [wpc EXCEPT ![r] = s]
    BY <1>9 DEF WorkerCleanup, WorkerFinish, bridge, start, native
  <2> QED
    BY <2>1 DEF HelperInv, PublishedPidIsLiveHelper, StateTypes, Requests
<1>10. ASSUME NEW toIdle \in BOOLEAN, CancelSession(toIdle) PROVE HelperInv'
  BY <1>10, <1>1 DEF CancelSession, TakeoverCancel
<1>11. CASE ConsumeRevivalExitInterception
  BY <1>11, <1>1 DEF ConsumeRevivalExitInterception, Invalidate, TakeoverCancel
<1>12. ASSUME NEW online \in BOOLEAN, CompleteGameplayExitRecovery(online) PROVE HelperInv'
  BY <1>12, <1>1 DEF CompleteGameplayExitRecovery, Invalidate
<1>13. CASE Tick
  <2>1. statusPid' \in {None, statusPid}
    BY <1>13 DEF Tick, TickTerminal, TickHelperGone, TickHelperAlive
  <2> QED
    BY <1>13, <2>1, <1>1 DEF Tick, start
<1>14. CASE TickAfterTrainingHandoff
  <2>1. statusPid' \in {None, statusPid}
    BY <1>14 DEF TickAfterTrainingHandoff, TickHelperGone, TickHelperAlive
  <2> QED
    BY <1>14, <2>1, <1>1 DEF TickAfterTrainingHandoff, start
<1>15. CASE ShutdownBegin \/ ShutdownJoin \/ ShutdownFinish
  BY <1>15, <1>1 DEF ShutdownBegin, ShutdownJoin, ShutdownFinish, Invalidate, bridge, start, native
<1>16. CASE EmergencyShutdown
  BY <1>16 DEF EmergencyShutdown, HelperInv, PublishedPidIsLiveHelper, FreshRequests, StateTypes,
     Requests, IsRunning, OwnershipFollowsWorker
<1>17. CASE EmergencyShutdownContended \/ HelperExit \/ RevivalExitIntercepted \/ GameplayExitRecovery
  BY <1>17, <1>1 DEF EmergencyShutdownContended, HelperExit, RevivalExitIntercepted,
     GameplayExitRecovery, bridge, start
<1> QED
  BY <1>2, <1>3, <1>4, <1>5, <1>6, <1>7, <1>8, <1>9, <1>10, <1>11, <1>12, <1>13, <1>14, <1>15,
     <1>16, <1>17 DEF Next, Worker

\* TickInv is preserved by every step.
LEMMA TickStep == IInv /\ HelperInv /\ TickInv /\ [Next]_vars => TickInv'
<1> SUFFICES ASSUME IInv, HelperInv, TickInv, [Next]_vars PROVE TickInv'
  OBVIOUS
<1>0. StateTypes /\ OwnershipFollowsWorker
  BY DEF IInv, TypeOK
<1> USE <1>0 DEF TickInv, StateTypes, IsRunning
<1> DEFINE Older == generation' = generation + 1 /\ UNCHANGED <<tickPc, tickSerial>>
           Same == /\ UNCHANGED <<generation, startState, detached, tick>>
                   /\ helper' \in {None, helper}
<1>1. Older => TickInv'
  OBVIOUS
<1>2. Same => TickInv'
  BY DEF tick
<1>3. CASE UNCHANGED vars
  BY <1>3, <1>2 DEF vars, start, workers, native
<1>4. CASE Initialize \/ ShutdownFinish
  BY <1>4 DEF Initialize, ShutdownFinish, native, workers, tick
<1>5. CASE StartAlreadyInProgress
  BY <1>5, <1>2 DEF StartAlreadyInProgress, start, workers, native
<1>6. ASSUME NEW host \in BOOLEAN, StartRejected(host) PROVE TickInv'
  BY <1>6 DEF StartRejected, native, workers, tick
<1>7. ASSUME NEW host \in BOOLEAN, StartSession(host) \/ StartLaunchFailure PROVE TickInv'
  BY <1>7, <1>1 DEF StartSession, StartLaunchFailure, tick
<1>8. ASSUME NEW r \in Requests, WorkerTakeover(r) PROVE TickInv'
  <2>1. wpc[r] = "takeover" /\ helper' \in {helper, r} /\ UNCHANGED <<start, detached, tick>>
    BY <1>8 DEF WorkerTakeover
  <2>2. r \notin detached => IsRunning
    BY <2>1 DEF OwnershipFollowsWorker, OwnsWorker, Live
  <2> QED
    BY <2>1, <2>2 DEF start, tick
<1>9. ASSUME NEW r \in Requests, WorkerResolve(r) \/ WorkerCleanup(r) PROVE TickInv'
  BY <1>9, <1>2 DEF WorkerResolve, WorkerCleanup, start, native
<1>10. ASSUME NEW r \in Requests, WorkerFinish(r) PROVE TickInv'
  BY <1>10 DEF WorkerFinish, native, tick
<1>11. ASSUME NEW toIdle \in BOOLEAN, CancelSession(toIdle) PROVE TickInv'
  BY <1>11, <1>1 DEF CancelSession, tick
<1>12. ASSUME NEW online \in BOOLEAN,
              ConsumeRevivalExitInterception \/ CompleteGameplayExitRecovery(online)
       PROVE TickInv'
  BY <1>12, <1>1 DEF ConsumeRevivalExitInterception, CompleteGameplayExitRecovery, Invalidate, tick
<1>13. CASE Tick
  <2>1. CASE UNCHANGED tick
    BY <1>13, <2>1 DEF Tick, tick
  <2>2. CASE tickSerial' = generation /\ tickHelper' = helper
    BY <1>13, <2>2 DEF Tick, start
  <2> QED
    BY <1>13, <2>1, <2>2 DEF Tick
<1>14. CASE TickAfterTrainingHandoff
  BY <1>14 DEF TickAfterTrainingHandoff
<1>15. CASE ShutdownBegin \/ EmergencyShutdown
  BY <1>15, <1>1 DEF ShutdownBegin, EmergencyShutdown, Invalidate, tick
<1>16. CASE \/ ShutdownJoin \/ EmergencyShutdownContended \/ HelperExit
            \/ RevivalExitIntercepted \/ GameplayExitRecovery
  BY <1>16, <1>2 DEF ShutdownJoin, EmergencyShutdownContended, HelperExit, RevivalExitIntercepted,
     GameplayExitRecovery, start, workers, native
<1> QED
  BY <1>3, <1>4, <1>5, <1>6, <1>7, <1>8, <1>9, <1>10, <1>11, <1>12, <1>13, <1>14, <1>15, <1>16
  DEF Next, Worker

\* The helper's invariants hold in every reachable state.
THEOREM HelperInvariant == Spec => [](HelperInv /\ TickInv)
<1>1. Init => HelperInv /\ TickInv
  BY DEF Init, HelperInv, TickInv, PublishedPidIsLiveHelper, Requests
<1>2. IInv /\ HelperInv /\ TickInv /\ [Next]_vars => HelperInv' /\ TickInv'
  BY HelperStep, TickStep
<1> QED
  BY Inductive, <1>1, <1>2, PTL DEF Spec

\* The process id that g_status shows never names another process than the
\* helper that is alive, whichever requests were cancelled or superseded
\* meanwhile (up to a worker let go at process exit).
THEOREM PublishedPid == Spec => []PublishedPidIsLiveHelper
<1>1. HelperInv => PublishedPidIsLiveHelper
  BY DEF HelperInv
<1> QED
  BY HelperInvariant, <1>1, PTL

\* Revival's init is applied only to the helper whose init event Tick saw
\* before it left the lock for the training handoff.
THEOREM InitForObserved == Spec => InitOnlyForObservedHelper
<1> DEFINE Observed == ~localInit /\ localInit' => helper = tickHelper \/ helper \in detached
<1>1. ASSUME TypeOK, TickInv, [Next]_vars PROVE [Observed]_vars
  <2> SUFFICES ASSUME localInit = FALSE, localInit' = TRUE, Next
               PROVE helper = tickHelper \/ helper \in detached
    BY <1>1 DEF TypeOK, FlagTypes
  <2>1. TickAfterTrainingHandoff
    <3>1. ~Initialize /\ ~StartAlreadyInProgress /\ ~StartLaunchFailure
      BY DEF Initialize, StartAlreadyInProgress, StartLaunchFailure, native
    <3>2. ASSUME NEW host \in BOOLEAN PROVE ~StartRejected(host) /\ ~StartSession(host)
      BY DEF StartRejected, StartSession, native
    <3>3. ASSUME NEW r \in Requests PROVE ~Worker(r)
      BY DEF Worker, WorkerTakeover, WorkerResolve, WorkerCleanup, WorkerFinish, native
    <3>4. ASSUME NEW b \in BOOLEAN PROVE ~CancelSession(b) /\ ~CompleteGameplayExitRecovery(b)
      BY DEF CancelSession, TakeoverCancel, CompleteGameplayExitRecovery
    <3>5. ~ConsumeRevivalExitInterception
      BY DEF ConsumeRevivalExitInterception, TakeoverCancel
    <3>6. ~Tick
      BY DEF Tick, TickTerminal, TickHelperGone, TickHelperAlive
    <3>7. ~ShutdownBegin /\ ~ShutdownJoin /\ ~ShutdownFinish
      BY DEF ShutdownBegin, ShutdownJoin, ShutdownFinish, native
    <3>8. ~EmergencyShutdown /\ ~EmergencyShutdownContended
      BY DEF EmergencyShutdown, EmergencyShutdownContended
    <3>9. ~HelperExit /\ ~RevivalExitIntercepted /\ ~GameplayExitRecovery
      BY DEF HelperExit, RevivalExitIntercepted, GameplayExitRecovery
    <3> QED
      BY <3>1, <3>2, <3>3, <3>4, <3>5, <3>6, <3>7, <3>8, <3>9 DEF Next
  <2>2. tickPc = "retire" /\ IsCurrent(tickSerial) /\ helper # None
    BY <2>1 DEF TickAfterTrainingHandoff, TickHelperGone, TickHelperAlive
  <2> QED
    BY <2>2, <1>1 DEF TickInv, IsCurrent
<1>2. HelperInv /\ TickInv => TickInv
  OBVIOUS
<1> QED
  BY TypeCorrect, HelperInvariant, <1>1, <1>2, PTL DEF Spec, InitOnlyForObservedHelper

--------------------------------------------------------------------------------
(* LauncherGuard. *)

(* A thread that has counted itself as a reader. *)
Counted(r) == r.at \in {"load", "use", "swap", "taken"}
One(r) == IF Counted(r) THEN 1 ELSE 0
(* The readers counted are the threads that have counted themselves. *)
CountIsExact == readers = One(rd["game"]) + One(rd["ctl"])
(* The control thread reads where its operation reads, and nowhere else. *)
ControlReads ==
  /\ rd["ctl"].at \in {"idle", "load", "use", "refused"}
  /\ ctl.pc \notin {"reap", "exact", "retiring"} => rd["ctl"].at = "idle"
(* Where the marker is mapped: while the guard is in use or is being taken     *)
(* down, and after that exactly as long as its bundle is kept for later.       *)
ViewIsOwned ==
  /\ child.role # "None" => view = "mapped" /\ deferred = "None"
  /\ child.role = "None" /\ view = "mapped" => deferred = "Ready"
  /\ deferred = "Ready" => view = "mapped"
(* The guard is being taken down exactly while the cleanup is under way. *)
ClosingInCleanup ==
  /\ child.role = "Closing" <=> ctl.pc \in {"cancel", "release"}
  /\ child.live => child.role = "Child"
(* A guard that is past its cancellation stays off. *)
OffWhenTaken ==
  child.role = "None" \/ ctl.pc = "release" => marker.state \notin {"Pending", "Active"}
(* The launcher's thread activates only after it has redirected the import,    *)
(* and nothing is active before that.                                          *)
ActiveIsPatched ==
  /\ par.guard \in {"none", "thread", "patched"} => marker.state # "Active"
  /\ par.alive /\ (par.guard = "patched" \/ marker.state = "Active") => par.patched
(* The inductive invariant. *)
GuardInv ==
  /\ GuardTypeOK /\ CountIsExact /\ ControlReads /\ NoUseAfterUnmap /\ ViewIsOwned
  /\ ClosingInCleanup /\ OffWhenTaken /\ ActiveIsPatched

--------------------------------------------------------------------------------
(* Reading the marker. *)

(* A thread that was not counted counts itself: the count stays exact. *)
LEMMA CountCounts ==
  ASSUME GuardTypeOK, CountIsExact, NEW t \in Threads,
         NEW op \in {"HasSignal", "Consume", "Retire", "Reap", "Exact"},
         ~Counted(rd[t]), Count(t, op)
  PROVE  /\ rd' \in [Threads -> Readers] /\ readers' \in 0 .. 2
         /\ CountIsExact'
         /\ rd'[t].at = "load"
         /\ \A s \in Threads \ {t} : rd'[s] = rd[s]
<1> DEFINE q == [Resting EXCEPT !.at = "load", !.op = op]
<1>1. rd' = [rd EXCEPT ![t] = q]
  BY DEF Count
<1>2. q \in Readers /\ q.at = "load"
  <2>1. Resting \in Readers
    BY GuardBounds DEF Resting, Readers
  <2> QED
    BY <2>1 DEF Readers
<1> HIDE DEF q
<1>3. rd' \in [Threads -> Readers]
  BY <1>1, <1>2 DEF GuardTypeOK
<1>4. /\ rd'[t].at = "load"
      /\ \A s \in Threads \ {t} : rd'[s] = rd[s]
  BY <1>1, <1>2 DEF GuardTypeOK
<1>5. CountIsExact'
  BY <1>4 DEF CountIsExact, Count, One, Counted, Threads
<1>6. readers' \in 0 .. 2
  BY <1>5 DEF CountIsExact, One
<1> QED
  BY <1>3, <1>4, <1>5, <1>6

(* An operation of the control thread begins within its budget. *)
LEMMA BeginKeepsBudget ==
  ASSUME ctl \in Controls, ctl.left > 0, NEW pc \in Places, NEW next \in {"idle", "cleanup"},
         Begin(pc, next)
  PROVE  ctl' \in Controls /\ ctl'.pc = pc
<1> DEFINE left == ctl.left - 1
<1>1. ctl' = [ctl EXCEPT !.pc = pc, !.left = left, !.next = next]
  BY DEF Begin
<1>2. left \in 0 .. MaxControl
  BY GuardBounds DEF Controls
<1> HIDE DEF left
<1> QED
  BY <1>1, <1>2 DEF Controls

(* What the installation writes into the marker and the globals has their *)
(* types.                                                                 *)
LEMMA FreshRecords ==
  \A b \in BOOLEAN, e \in BOOLEAN :
    /\ [state |-> "Pending", serial |-> 0, event |-> e] \in Markers
    /\ [role |-> "Child", live |-> b, enabled |-> b, consumed |-> 0] \in Children
BY GuardBounds DEF Markers, Children

(* What was deferred is unmapped when no reader is counted, and nothing *)
(* else is.                                                             *)
LEMMA DrainUnmaps ==
  ASSUME GuardInv, Drain
  PROVE  /\ view' \in {"absent", "mapped", "unmapped"} /\ deferred' \in {"None", "Ready"}
         /\ view' = view \/ readers = 0
         /\ \/ UNCHANGED <<view, deferred>>
            \/ child.role = "None" /\ view' = "unmapped" /\ deferred' = "None"
BY DEF GuardInv, GuardTypeOK, Drain, ViewIsOwned, Children

(* Ending the launcher begins with a read of the marker, if the guard was *)
(* installed; the readers stay exact.                                     *)
LEMMA TerminateReads ==
  ASSUME GuardInv, ctl.pc = "idle", ctl.left > 0, NEW next \in {"idle", "cleanup"}, Terminate(next),
         UNCHANGED view
  PROVE  /\ ctl' \in Controls /\ ctl'.pc \in {"idle", "cleanup", "exact"}
         /\ rd' \in [Threads -> Readers] /\ readers' \in 0 .. 2
         /\ CountIsExact' /\ ControlReads' /\ NoUseAfterUnmap'
<1>1. ctl \in Controls /\ "ctl" \in Threads /\ rd["ctl"].at = "idle"
  BY DEF GuardInv, GuardTypeOK, ControlReads, Threads
<1>2. \/ Count("ctl", "Exact") /\ Begin("exact", next)
      \/ Begin(next, "idle") /\ UNCHANGED <<rd, readers>>
  BY Zenon DEF Terminate
<1>3. CASE Count("ctl", "Exact") /\ Begin("exact", next)
  <2>1. ctl' \in Controls /\ ctl'.pc = "exact"
    BY <1>1, <1>3, BeginKeepsBudget DEF Places
  <2>2. /\ rd' \in [Threads -> Readers] /\ readers' \in 0 .. 2
        /\ CountIsExact'
        /\ rd'["ctl"].at = "load"
        /\ \A s \in Threads \ {"ctl"} : rd'[s] = rd[s]
    BY <1>1, <1>3, CountCounts DEF GuardInv, Counted
  <2> QED
    BY <2>1, <2>2 DEF GuardInv, ControlReads, NoUseAfterUnmap, Threads
<1>4. CASE Begin(next, "idle") /\ UNCHANGED <<rd, readers>>
  <2>1. ctl' \in Controls /\ ctl'.pc = next
    BY <1>1, <1>4, BeginKeepsBudget DEF Places
  <2> QED
    BY <1>1, <1>4, <2>1 DEF GuardInv, GuardTypeOK, CountIsExact, One, Counted, ControlReads,
      NoUseAfterUnmap
<1> QED
  BY <1>2, <1>3, <1>4

--------------------------------------------------------------------------------
(* The frame thread, and both readers. *)

(* The signal is seen and the marker let go. *)
LEMMA SeeSignalSafe ==
  ASSUME GuardInv, SeeSignal
  PROVE  GuardInv'
<1>1. readers' \in 0 .. 2
  BY GuardBounds DEF GuardInv, GuardTypeOK, SeeSignal, Release, CountIsExact, One, Counted,
    Threads, Readers, ControlReads
<1>2. rd' \in [Threads -> Readers]
  BY GuardBounds DEF GuardInv, GuardTypeOK, SeeSignal, Release, Readers, Threads, Resting,
    Children, Markers
<1>3. CountIsExact'
  BY DEF GuardInv, SeeSignal, Release, CountIsExact, One, Counted, Threads, Resting, GuardTypeOK,
    Readers, ControlReads
<1>4. ControlReads'
  BY DEF GuardInv, SeeSignal, Release, ControlReads, Threads, Resting, GuardTypeOK, Readers,
    Controls
<1>5. NoUseAfterUnmap'
  BY DEF GuardInv, SeeSignal, Release, NoUseAfterUnmap, Threads, Resting, GuardTypeOK, Readers,
    CountIsExact, One, Counted, ViewIsOwned
<1>6. UNCHANGED <<child, view, marker, deferred, ctl, par, game>>
  BY DEF SeeSignal
<1> QED
  BY <1>1, <1>2, <1>3, <1>4, <1>5, <1>6 DEF GuardInv, GuardTypeOK, ViewIsOwned, ClosingInCleanup,
    OffWhenTaken, ActiveIsPatched

(* A reader that was turned away goes on. *)
LEMMA RefusedSafe ==
  ASSUME GuardInv, Refused
  PROVE  GuardInv'
<1>1. rd' \in [Threads -> Readers]
  BY GuardBounds DEF GuardInv, GuardTypeOK, Refused, Readers, Threads, Resting, Children, Markers
<1>2. CountIsExact'
  BY DEF GuardInv, Refused, CountIsExact, One, Counted, Threads, Resting, GuardTypeOK, Readers,
    ControlReads
<1>3. ControlReads'
  BY DEF GuardInv, Refused, ControlReads, Threads, Resting, GuardTypeOK, Readers, Controls
<1>4. NoUseAfterUnmap'
  BY DEF GuardInv, Refused, NoUseAfterUnmap, Threads, Resting, GuardTypeOK, Readers, CountIsExact,
    One, Counted, ViewIsOwned
<1>5. UNCHANGED <<child, view, marker, readers, deferred, ctl, par, game>>
  BY DEF Refused
<1> QED
  BY <1>1, <1>2, <1>3, <1>4, <1>5 DEF GuardInv, GuardTypeOK, ViewIsOwned, ClosingInCleanup,
    OffWhenTaken, ActiveIsPatched

(* The serial is read, or delivery was retired and the marker is let go. *)
LEMMA ConsumeReadSafe ==
  ASSUME GuardInv, ConsumeRead
  PROVE  GuardInv'
<1> DEFINE r == [rd["game"] EXCEPT !.at = "swap", !.pub = marker.serial, !.con = child.consumed]
<1>1. rd["game"].at = "use" /\ UNCHANGED <<child, view, marker, deferred, ctl, par, game>>
  BY DEF ConsumeRead
<1>2. \/ Release("game", "idle")
      \/ rd' = [rd EXCEPT !["game"] = r] /\ readers' = readers
  BY Zenon DEF ConsumeRead
<1>3. r \in Readers /\ r.at = "swap"
  BY DEF GuardInv, GuardTypeOK, Threads, Readers, Markers, Children
<1> HIDE DEF r
<1>4. PICK q \in Readers : /\ rd' = [rd EXCEPT !["game"] = q]
                           /\ q.at \in {"idle", "swap"}
                           /\ readers' = readers - (IF q.at = "idle" THEN 1 ELSE 0)
  <2>1. [rd["game"] EXCEPT !.at = "idle"] \in Readers
    BY DEF GuardInv, GuardTypeOK, Threads, Readers
  <2>2. readers \in 0 .. 2
    BY DEF GuardInv, GuardTypeOK
  <2>3. CASE rd' = [rd EXCEPT !["game"] = r] /\ readers' = readers
    <3>1. readers' = readers - (IF r.at = "idle" THEN 1 ELSE 0) /\ r.at \in {"idle", "swap"}
      BY <2>2, <2>3, <1>3
    <3> QED
      BY <2>3, <1>3, <3>1, Zenon
  <2>4. CASE Release("game", "idle")
    BY <2>1, <2>2, <2>4 DEF Release, Readers, GuardInv, GuardTypeOK, Threads
  <2> QED
    BY <1>2, <2>3, <2>4
<1>5. /\ rd' \in [Threads -> Readers] /\ rd'["game"] = q /\ rd'["ctl"] = rd["ctl"]
      /\ CountIsExact' /\ readers' \in 0 .. 2
  BY <1>1, <1>4 DEF GuardInv, GuardTypeOK, CountIsExact, One, Counted, Threads
<1>6. ControlReads' /\ NoUseAfterUnmap'
  BY <1>1, <1>4, <1>5 DEF GuardInv, ControlReads, NoUseAfterUnmap, Threads
<1> QED
  BY <1>1, <1>5, <1>6 DEF GuardInv, GuardTypeOK, ViewIsOwned, ClosingInCleanup, OffWhenTaken,
    ActiveIsPatched

(* The serial is swapped in, or read again. *)
LEMMA ConsumeSwapSafe ==
  ASSUME GuardInv, ConsumeSwap
  PROVE  GuardInv'
<1>1. child' \in Children
  BY GuardBounds DEF GuardInv, GuardTypeOK, ConsumeSwap, Release, SwapConsumed, Children, Markers,
    Readers, Threads
<1>2. readers' \in 0 .. 2
  BY GuardBounds DEF GuardInv, GuardTypeOK, ConsumeSwap, Release, SwapConsumed, CountIsExact, One,
    Counted, Threads, Readers, ControlReads
<1>3. rd' \in [Threads -> Readers]
  BY GuardBounds DEF GuardInv, GuardTypeOK, ConsumeSwap, Release, SwapConsumed, Readers, Threads,
    Resting, Children, Markers
<1>4. CountIsExact'
  BY DEF GuardInv, ConsumeSwap, Release, SwapConsumed, CountIsExact, One, Counted, Threads,
    Resting, GuardTypeOK, Readers, ControlReads
<1>5. ControlReads'
  BY DEF GuardInv, ConsumeSwap, Release, SwapConsumed, ControlReads, Threads, Resting,
    GuardTypeOK, Readers, Controls
<1>6. NoUseAfterUnmap'
  BY DEF GuardInv, ConsumeSwap, Release, SwapConsumed, NoUseAfterUnmap, Threads, Resting,
    GuardTypeOK, Readers, CountIsExact, One, Counted, ViewIsOwned
<1>7. ViewIsOwned'
  BY DEF GuardInv, ConsumeSwap, Release, SwapConsumed, ViewIsOwned, ClosingInCleanup, GuardTypeOK,
    Children
<1>8. ClosingInCleanup'
  BY DEF GuardInv, ConsumeSwap, Release, SwapConsumed, ClosingInCleanup, GuardTypeOK, Children,
    Controls
<1>9. OffWhenTaken'
  BY DEF GuardInv, ConsumeSwap, Release, SwapConsumed, OffWhenTaken, ClosingInCleanup,
    GuardTypeOK, Children, Markers, Controls
<1>10. UNCHANGED <<view, marker, deferred, ctl, par, game>>
  BY DEF ConsumeSwap
<1> QED
  BY <1>1, <1>2, <1>3, <1>4, <1>5, <1>6, <1>7, <1>8, <1>9, <1>10 DEF GuardInv, GuardTypeOK,
    ActiveIsPatched

(* The signal is taken, or swallowed, and the marker let go. *)
LEMMA ConsumeEndSafe ==
  ASSUME GuardInv, ConsumeEnd
  PROVE  GuardInv'
<1>1. child' \in Children
  BY GuardBounds DEF GuardInv, GuardTypeOK, ConsumeEnd, Release, Children, Markers, Readers, Threads
<1>2. readers' \in 0 .. 2
  BY GuardBounds DEF GuardInv, GuardTypeOK, ConsumeEnd, Release, CountIsExact, One, Counted,
    Threads, Readers, ControlReads
<1>3. rd' \in [Threads -> Readers]
  BY GuardBounds DEF GuardInv, GuardTypeOK, ConsumeEnd, Release, Readers, Threads, Resting,
    Children, Markers
<1>4. CountIsExact'
  BY DEF GuardInv, ConsumeEnd, Release, CountIsExact, One, Counted, Threads, Resting, GuardTypeOK,
    Readers, ControlReads
<1>5. ControlReads'
  BY DEF GuardInv, ConsumeEnd, Release, ControlReads, Threads, Resting, GuardTypeOK, Readers,
    Controls
<1>6. NoUseAfterUnmap'
  BY DEF GuardInv, ConsumeEnd, Release, NoUseAfterUnmap, Threads, Resting, GuardTypeOK, Readers,
    CountIsExact, One, Counted, ViewIsOwned
<1>7. ViewIsOwned'
  BY DEF GuardInv, ConsumeEnd, Release, ViewIsOwned, ClosingInCleanup, GuardTypeOK, Children
<1>8. ClosingInCleanup'
  BY DEF GuardInv, ConsumeEnd, Release, ClosingInCleanup, GuardTypeOK, Children, Controls
<1>9. OffWhenTaken'
  BY DEF GuardInv, ConsumeEnd, Release, OffWhenTaken, ClosingInCleanup, GuardTypeOK, Children,
    Markers, Controls
<1>10. UNCHANGED <<view, marker, deferred, ctl, par, game>>
  BY DEF ConsumeEnd
<1> QED
  BY <1>1, <1>2, <1>3, <1>4, <1>5, <1>6, <1>7, <1>8, <1>9, <1>10 DEF GuardInv, GuardTypeOK,
    ActiveIsPatched

(* The recovery retires delivery and counts itself. *)
LEMMA RecoverSafe ==
  ASSUME GuardInv, Recover
  PROVE  GuardInv'
<1>1. /\ "game" \in Threads /\ ~Counted(rd["game"])
      /\ Count("game", "Retire")
      /\ UNCHANGED <<view, marker, deferred, ctl, par, game>>
  BY DEF Recover, Retire, Counted, Threads
<1>2. child' \in Children /\ child'.role = child.role /\ child'.live = child.live
  BY DEF GuardInv, GuardTypeOK, Recover, Retire, Children
<1>3. /\ rd' \in [Threads -> Readers] /\ readers' \in 0 .. 2
      /\ CountIsExact'
      /\ rd'["game"].at = "load"
      /\ \A s \in Threads \ {"game"} : rd'[s] = rd[s]
  BY <1>1, CountCounts DEF GuardInv
<1>4. ControlReads' /\ NoUseAfterUnmap'
  BY <1>1, <1>3 DEF GuardInv, ControlReads, NoUseAfterUnmap, Threads
<1> QED
  BY <1>1, <1>2, <1>3, <1>4 DEF GuardInv, GuardTypeOK, ViewIsOwned, ClosingInCleanup, OffWhenTaken,
    ActiveIsPatched

(* The frame thread counts itself before it looks. *)
LEMMA GameLooksSafe ==
  ASSUME GuardInv, GameLooks
  PROVE  GuardInv'
<1> DEFINE op == IF rd["game"].op = "HasSignal" THEN "Consume" ELSE "HasSignal"
<1>1. /\ "game" \in Threads /\ ~Counted(rd["game"])
      /\ Count("game", op)
      /\ UNCHANGED <<child, view, marker, deferred, ctl, par, game>>
  BY DEF GameLooks, Free, Counted, Threads
<1>2. /\ rd' \in [Threads -> Readers] /\ readers' \in 0 .. 2
      /\ CountIsExact'
      /\ rd'["game"].at = "load"
      /\ \A s \in Threads \ {"game"} : rd'[s] = rd[s]
  BY <1>1, CountCounts DEF GuardInv
<1>3. ControlReads' /\ NoUseAfterUnmap'
  BY <1>1, <1>2 DEF GuardInv, ControlReads, NoUseAfterUnmap, Threads
<1> QED
  BY <1>1, <1>2, <1>3 DEF GuardInv, GuardTypeOK, ViewIsOwned, ClosingInCleanup, OffWhenTaken,
    ActiveIsPatched

(* A counted reader gets the pointer only while the role is Child, so the *)
(* view is mapped; a refused one is no longer counted.                    *)
LEMMA LoadMarkerSafe ==
  ASSUME GuardInv, NEW t \in Threads, LoadMarker(t)
  PROVE  GuardInv'
<1>1. readers' \in 0 .. 2
  BY GuardBounds DEF GuardInv, GuardTypeOK, LoadMarker, NeedsDelivery, CountIsExact, One, Counted,
    Threads, Readers, ControlReads
<1>2. rd' \in [Threads -> Readers]
  BY GuardBounds DEF GuardInv, GuardTypeOK, LoadMarker, NeedsDelivery, Readers, Threads, Resting,
    Children, Markers
<1>3. CountIsExact'
  BY DEF GuardInv, LoadMarker, NeedsDelivery, CountIsExact, One, Counted, Threads, Resting,
    GuardTypeOK, Readers, ControlReads
<1>4. ControlReads'
  BY DEF GuardInv, LoadMarker, NeedsDelivery, ControlReads, Threads, Resting, GuardTypeOK,
    Readers, Controls
<1>5. NoUseAfterUnmap'
  BY DEF GuardInv, LoadMarker, NeedsDelivery, NoUseAfterUnmap, Threads, Resting, GuardTypeOK,
    Readers, CountIsExact, One, Counted, ViewIsOwned
<1>6. UNCHANGED <<child, view, marker, deferred, ctl, par, game>>
  BY DEF LoadMarker
<1> QED
  BY <1>1, <1>2, <1>3, <1>4, <1>5, <1>6 DEF GuardInv, GuardTypeOK, ViewIsOwned, ClosingInCleanup,
    OffWhenTaken, ActiveIsPatched

(* The retirement stores the serial and lets the marker go. *)
LEMMA RetireStoreSafe ==
  ASSUME GuardInv, NEW t \in Threads, RetireStore(t)
  PROVE  GuardInv'
<1>1. child' \in Children
  BY GuardBounds DEF GuardInv, GuardTypeOK, RetireStore, Retire, Release, Count, Children,
    Markers, Readers, Threads
<1>2. readers' \in 0 .. 2
  BY GuardBounds DEF GuardInv, GuardTypeOK, RetireStore, Retire, Release, Count, CountIsExact,
    One, Counted, Threads, Readers, ControlReads
<1>3. rd' \in [Threads -> Readers]
  BY GuardBounds DEF GuardInv, GuardTypeOK, RetireStore, Retire, Release, Count, Readers, Threads,
    Resting, Children, Markers
<1>4. CountIsExact'
  BY DEF GuardInv, RetireStore, Retire, Release, Count, CountIsExact, One, Counted, Threads,
    Resting, GuardTypeOK, Readers, ControlReads
<1>5. ControlReads'
  BY DEF GuardInv, RetireStore, Retire, Release, Count, ControlReads, Threads, Resting,
    GuardTypeOK, Readers, Controls
<1>6. NoUseAfterUnmap'
  BY DEF GuardInv, RetireStore, Retire, Release, Count, NoUseAfterUnmap, Threads, Resting,
    GuardTypeOK, Readers, CountIsExact, One, Counted, ViewIsOwned
<1>7. ViewIsOwned'
  BY DEF GuardInv, RetireStore, Retire, Release, Count, ViewIsOwned, ClosingInCleanup,
    GuardTypeOK, Children
<1>8. ClosingInCleanup'
  BY DEF GuardInv, RetireStore, Retire, Release, Count, ClosingInCleanup, GuardTypeOK, Children,
    Controls
<1>9. OffWhenTaken'
  BY DEF GuardInv, RetireStore, Retire, Release, Count, OffWhenTaken, ClosingInCleanup,
    GuardTypeOK, Children, Markers, Controls
<1>10. UNCHANGED <<view, marker, deferred, ctl, par, game>>
  BY DEF RetireStore
<1> QED
  BY <1>1, <1>2, <1>3, <1>4, <1>5, <1>6, <1>7, <1>8, <1>9, <1>10 DEF GuardInv, GuardTypeOK,
    ActiveIsPatched

--------------------------------------------------------------------------------
(* The control thread. *)

(* The marker is published: nothing was mapped, no reader was there. *)
LEMMA InstallPublishSafe ==
  ASSUME GuardInv, InstallPublish
  PROVE  GuardInv'
<1>1. ctl.pc = "start" /\ UNCHANGED <<readers, deferred, rd, par, game>>
  BY DEF InstallPublish
<1>2. CASE /\ readers = 0 /\ deferred = "None" /\ child.role = "None"
           /\ view' = "mapped"
           /\ marker' = [state |-> "Pending", serial |-> 0, event |-> FALSE]
           /\ child' = [role |-> "Child", live |-> TRUE, enabled |-> TRUE, consumed |-> 0]
           /\ At("inject")
  <2>1. marker' \in Markers /\ child' \in Children
    <3>1. TRUE \in BOOLEAN /\ FALSE \in BOOLEAN
      OBVIOUS
    <3> QED
      BY <1>2, <3>1, FreshRecords, Zenon
  <2>2. marker'.state = "Pending" /\ child'.role = "Child"
    BY <1>2
  <2>3. ctl' \in Controls /\ ctl'.pc = "inject"
    BY <1>2 DEF GuardInv, GuardTypeOK, At, Controls, Places
  <2>4. ControlReads'
    BY <1>1, <2>3 DEF GuardInv, ControlReads
  <2>5. ViewIsOwned' /\ ClosingInCleanup' /\ OffWhenTaken' /\ ActiveIsPatched'
    BY <1>1, <1>2, <2>2, <2>3 DEF ViewIsOwned, ClosingInCleanup, OffWhenTaken, ActiveIsPatched,
      GuardInv
  <2> QED
    BY <1>1, <1>2, <2>1, <2>3, <2>4, <2>5 DEF GuardInv, GuardTypeOK, CountIsExact, One, Counted,
      NoUseAfterUnmap
<1>3. CASE At("idle") /\ UNCHANGED <<view, marker, child>>
  <2>1. ctl' \in Controls /\ ctl'.pc = "idle"
    BY <1>3 DEF GuardInv, GuardTypeOK, At, Controls, Places
  <2> QED
    BY <1>1, <1>3, <2>1 DEF GuardInv, GuardTypeOK, CountIsExact, One, Counted, ControlReads,
      NoUseAfterUnmap, ViewIsOwned, ClosingInCleanup, OffWhenTaken, ActiveIsPatched
<1> QED
  BY <1>2, <1>3, Zenon DEF InstallPublish

(* The DLL is injected, or not. *)
LEMMA InstallInjectSafe ==
  ASSUME GuardInv, InstallInject
  PROVE  GuardInv'
<1>1. ctl' \in Controls
  BY GuardBounds DEF GuardInv, GuardTypeOK, InstallInject, At, Controls, Places
<1>2. par' \in Launchers
  BY GuardBounds DEF GuardInv, GuardTypeOK, InstallInject, At, Launchers
<1>3. ControlReads'
  BY DEF GuardInv, InstallInject, At, ControlReads, Threads, Resting, GuardTypeOK, Readers, Controls
<1>4. ClosingInCleanup'
  BY DEF GuardInv, InstallInject, At, ClosingInCleanup, GuardTypeOK, Children, Controls
<1>5. OffWhenTaken'
  BY DEF GuardInv, InstallInject, At, OffWhenTaken, ClosingInCleanup, GuardTypeOK, Children,
    Markers, Controls
<1>6. ActiveIsPatched'
  BY DEF GuardInv, InstallInject, At, ActiveIsPatched, GuardTypeOK, Markers, Launchers
<1>7. UNCHANGED <<child, view, marker, readers, deferred, rd, game>>
  BY DEF InstallInject
<1> QED
  BY <1>1, <1>2, <1>3, <1>4, <1>5, <1>6, <1>7 DEF GuardInv, GuardTypeOK, CountIsExact,
    NoUseAfterUnmap, ViewIsOwned, One, Counted

(* The wait ends in whatever way. *)
LEMMA InstallAwaitSafe ==
  ASSUME GuardInv, InstallAwait
  PROVE  GuardInv'
<1>1. ctl' \in Controls
  BY GuardBounds DEF GuardInv, GuardTypeOK, InstallAwait, At, Controls, Places
<1>2. ControlReads'
  BY DEF GuardInv, InstallAwait, At, ControlReads, Threads, Resting, GuardTypeOK, Readers, Controls
<1>3. ClosingInCleanup'
  BY DEF GuardInv, InstallAwait, At, ClosingInCleanup, GuardTypeOK, Children, Controls
<1>4. OffWhenTaken'
  BY DEF GuardInv, InstallAwait, At, OffWhenTaken, ClosingInCleanup, GuardTypeOK, Children,
    Markers, Controls
<1>5. UNCHANGED <<child, view, marker, readers, deferred, rd, par, game>>
  BY DEF InstallAwait
<1> QED
  BY <1>1, <1>2, <1>3, <1>4, <1>5 DEF GuardInv, GuardTypeOK, CountIsExact, NoUseAfterUnmap,
    ViewIsOwned, ActiveIsPatched, One, Counted

(* A guard given up while pending is cancelled. *)
LEMMA InstallGiveUpSafe ==
  ASSUME GuardInv, InstallGiveUp
  PROVE  GuardInv'
<1>1. marker' \in Markers
  BY GuardBounds DEF GuardInv, GuardTypeOK, InstallGiveUp, At, Markers
<1>2. ctl' \in Controls
  BY GuardBounds DEF GuardInv, GuardTypeOK, InstallGiveUp, At, Controls, Places
<1>3. ControlReads'
  BY DEF GuardInv, InstallGiveUp, At, ControlReads, Threads, Resting, GuardTypeOK, Readers, Controls
<1>4. ClosingInCleanup'
  BY DEF GuardInv, InstallGiveUp, At, ClosingInCleanup, GuardTypeOK, Children, Controls
<1>5. OffWhenTaken'
  BY DEF GuardInv, InstallGiveUp, At, OffWhenTaken, ClosingInCleanup, GuardTypeOK, Children,
    Markers, Controls
<1>6. ActiveIsPatched'
  BY DEF GuardInv, InstallGiveUp, At, ActiveIsPatched, GuardTypeOK, Markers, Launchers
<1>7. UNCHANGED <<child, view, readers, deferred, rd, par, game>>
  BY DEF InstallGiveUp
<1> QED
  BY <1>1, <1>2, <1>3, <1>4, <1>5, <1>6, <1>7 DEF GuardInv, GuardTypeOK, CountIsExact,
    NoUseAfterUnmap, ViewIsOwned, One, Counted

(* Admission is closed; the view stays. *)
LEMMA CleanupCloseSafe ==
  ASSUME GuardInv, CleanupClose
  PROVE  GuardInv'
<1>1. child' \in Children
  BY GuardBounds DEF GuardInv, GuardTypeOK, CleanupClose, At, Children, Markers, Readers, Threads
<1>2. ctl' \in Controls
  BY GuardBounds DEF GuardInv, GuardTypeOK, CleanupClose, At, Controls, Places
<1>3. ControlReads'
  BY DEF GuardInv, CleanupClose, At, ControlReads, Threads, Resting, GuardTypeOK, Readers, Controls
<1>4. ViewIsOwned'
  BY DEF GuardInv, CleanupClose, At, ViewIsOwned, ClosingInCleanup, GuardTypeOK, Children
<1>5. ClosingInCleanup'
  BY DEF GuardInv, CleanupClose, At, ClosingInCleanup, GuardTypeOK, Children, Controls
<1>6. OffWhenTaken'
  BY DEF GuardInv, CleanupClose, At, OffWhenTaken, ClosingInCleanup, GuardTypeOK, Children,
    Markers, Controls
<1>7. UNCHANGED <<view, marker, readers, deferred, rd, par, game>>
  BY DEF CleanupClose
<1> QED
  BY <1>1, <1>2, <1>3, <1>4, <1>5, <1>6, <1>7 DEF GuardInv, GuardTypeOK, CountIsExact,
    NoUseAfterUnmap, ActiveIsPatched, One, Counted

(* The guard is taken back before its role is. *)
LEMMA CleanupCancelSafe ==
  ASSUME GuardInv, CleanupCancel
  PROVE  GuardInv'
<1>1. child' \in Children
  BY GuardBounds DEF GuardInv, GuardTypeOK, CleanupCancel, CancelMarker, At, Children, Markers,
    Readers, Threads
<1>2. marker' \in Markers
  BY GuardBounds DEF GuardInv, GuardTypeOK, CleanupCancel, CancelMarker, At, Markers
<1>3. ctl' \in Controls
  BY GuardBounds DEF GuardInv, GuardTypeOK, CleanupCancel, CancelMarker, At, Controls, Places
<1>4. ControlReads'
  BY DEF GuardInv, CleanupCancel, CancelMarker, At, ControlReads, Threads, Resting, GuardTypeOK,
    Readers, Controls
<1>5. ViewIsOwned'
  BY DEF GuardInv, CleanupCancel, CancelMarker, At, ViewIsOwned, ClosingInCleanup, GuardTypeOK,
    Children
<1>6. ClosingInCleanup'
  BY DEF GuardInv, CleanupCancel, CancelMarker, At, ClosingInCleanup, GuardTypeOK, Children,
    Controls
<1>7. OffWhenTaken'
  BY DEF GuardInv, CleanupCancel, CancelMarker, At, OffWhenTaken, ClosingInCleanup, GuardTypeOK,
    Children, Markers, Controls
<1>8. ActiveIsPatched'
  BY DEF GuardInv, CleanupCancel, CancelMarker, At, ActiveIsPatched, GuardTypeOK, Markers, Launchers
<1>9. UNCHANGED <<view, readers, deferred, rd, par, game>>
  BY DEF CleanupCancel
<1> QED
  BY <1>1, <1>2, <1>3, <1>4, <1>5, <1>6, <1>7, <1>8, <1>9 DEF GuardInv, GuardTypeOK, CountIsExact,
    NoUseAfterUnmap, One, Counted

(* Unmapped without a reader, deferred with one. *)
LEMMA CleanupReleaseSafe ==
  ASSUME GuardInv, CleanupRelease
  PROVE  GuardInv'
<1>1. child' \in Children
  BY GuardBounds DEF GuardInv, GuardTypeOK, CleanupRelease, ReleaseOrDefer, At, Continue,
    Children, Markers, Readers, Threads
<1>2. view' \in {"absent", "mapped", "unmapped"}
  BY GuardBounds DEF GuardInv, GuardTypeOK, CleanupRelease, ReleaseOrDefer, At, Continue
<1>3. deferred' \in {"None", "Ready"}
  BY GuardBounds DEF GuardInv, GuardTypeOK, CleanupRelease, ReleaseOrDefer, At, Continue
<1>4. ctl' \in Controls
  BY GuardBounds DEF GuardInv, GuardTypeOK, CleanupRelease, ReleaseOrDefer, At, Continue,
    Controls, Places
<1>5. ControlReads'
  BY DEF GuardInv, CleanupRelease, ReleaseOrDefer, At, Continue, ControlReads, Threads, Resting,
    GuardTypeOK, Readers, Controls
<1>6. NoUseAfterUnmap'
  BY DEF GuardInv, CleanupRelease, ReleaseOrDefer, At, Continue, NoUseAfterUnmap, Threads,
    Resting, GuardTypeOK, Readers, CountIsExact, One, Counted, ViewIsOwned
<1>7. ViewIsOwned'
  BY DEF GuardInv, CleanupRelease, ReleaseOrDefer, At, Continue, ViewIsOwned, ClosingInCleanup,
    GuardTypeOK, Children
<1>8. ClosingInCleanup'
  BY DEF GuardInv, CleanupRelease, ReleaseOrDefer, At, Continue, ClosingInCleanup, GuardTypeOK,
    Children, Controls
<1>9. OffWhenTaken'
  BY DEF GuardInv, CleanupRelease, ReleaseOrDefer, At, Continue, OffWhenTaken, ClosingInCleanup,
    GuardTypeOK, Children, Markers, Controls
<1>10. UNCHANGED <<marker, readers, rd, par, game>>
  BY DEF CleanupRelease
<1> QED
  BY <1>1, <1>2, <1>3, <1>4, <1>5, <1>6, <1>7, <1>8, <1>9, <1>10 DEF GuardInv, GuardTypeOK,
    CountIsExact, ActiveIsPatched, One, Counted

(* A deferred bundle is closed when nobody reads. *)
LEMMA CleanupDrainSafe ==
  ASSUME GuardInv, CleanupDrain
  PROVE  GuardInv'
<1>1. view' \in {"absent", "mapped", "unmapped"}
  BY GuardBounds DEF GuardInv, GuardTypeOK, CleanupDrain, Drain, Continue
<1>2. deferred' \in {"None", "Ready"}
  BY GuardBounds DEF GuardInv, GuardTypeOK, CleanupDrain, Drain, Continue
<1>3. ctl' \in Controls
  BY GuardBounds DEF GuardInv, GuardTypeOK, CleanupDrain, Drain, Continue, Controls, Places
<1>4. ControlReads'
  BY DEF GuardInv, CleanupDrain, Drain, Continue, ControlReads, Threads, Resting, GuardTypeOK,
    Readers, Controls
<1>5. NoUseAfterUnmap'
  BY DEF GuardInv, CleanupDrain, Drain, Continue, NoUseAfterUnmap, Threads, Resting, GuardTypeOK,
    Readers, CountIsExact, One, Counted, ViewIsOwned
<1>6. ViewIsOwned'
  BY DEF GuardInv, CleanupDrain, Drain, Continue, ViewIsOwned, ClosingInCleanup, GuardTypeOK,
    Children
<1>7. ClosingInCleanup'
  BY DEF GuardInv, CleanupDrain, Drain, Continue, ClosingInCleanup, GuardTypeOK, Children, Controls
<1>8. OffWhenTaken'
  BY DEF GuardInv, CleanupDrain, Drain, Continue, OffWhenTaken, ClosingInCleanup, GuardTypeOK,
    Children, Markers, Controls
<1>9. UNCHANGED <<child, marker, readers, rd, par, game>>
  BY DEF CleanupDrain
<1> QED
  BY <1>1, <1>2, <1>3, <1>4, <1>5, <1>6, <1>7, <1>8, <1>9 DEF GuardInv, GuardTypeOK, CountIsExact,
    ActiveIsPatched, One, Counted

(* The reaper lets the marker go. *)
LEMMA ReapDecideSafe ==
  ASSUME GuardInv, ReapDecide
  PROVE  GuardInv'
<1>1. readers' \in 0 .. 2
  BY GuardBounds DEF GuardInv, GuardTypeOK, ReapDecide, Continue, Release, At, CountIsExact, One,
    Counted, Threads, Readers, ControlReads
<1>2. rd' \in [Threads -> Readers]
  BY GuardBounds DEF GuardInv, GuardTypeOK, ReapDecide, Continue, Release, At, Readers, Threads,
    Resting, Children, Markers
<1>3. ctl' \in Controls
  BY GuardBounds DEF GuardInv, GuardTypeOK, ReapDecide, Continue, Release, At, Controls, Places
<1>4. CountIsExact'
  BY DEF GuardInv, ReapDecide, Continue, Release, At, CountIsExact, One, Counted, Threads,
    Resting, GuardTypeOK, Readers, ControlReads
<1>5. ControlReads'
  BY DEF GuardInv, ReapDecide, Continue, Release, At, ControlReads, Threads, Resting, GuardTypeOK,
    Readers, Controls
<1>6. NoUseAfterUnmap'
  BY DEF GuardInv, ReapDecide, Continue, Release, At, NoUseAfterUnmap, Threads, Resting,
    GuardTypeOK, Readers, CountIsExact, One, Counted, ViewIsOwned
<1>7. ClosingInCleanup'
  BY DEF GuardInv, ReapDecide, Continue, Release, At, ClosingInCleanup, GuardTypeOK, Children,
    Controls
<1>8. OffWhenTaken'
  BY DEF GuardInv, ReapDecide, Continue, Release, At, OffWhenTaken, ClosingInCleanup, GuardTypeOK,
    Children, Markers, Controls
<1>9. UNCHANGED <<child, view, marker, deferred, par, game>>
  BY DEF ReapDecide
<1> QED
  BY <1>1, <1>2, <1>3, <1>4, <1>5, <1>6, <1>7, <1>8, <1>9 DEF GuardInv, GuardTypeOK, ViewIsOwned,
    ActiveIsPatched

(* So does the check of the launcher. *)
LEMMA TerminateDecideSafe ==
  ASSUME GuardInv, TerminateDecide
  PROVE  GuardInv'
<1>1. readers' \in 0 .. 2
  BY GuardBounds DEF GuardInv, GuardTypeOK, TerminateDecide, Release, CountIsExact, One, Counted,
    Threads, Readers, ControlReads
<1>2. rd' \in [Threads -> Readers]
  BY GuardBounds DEF GuardInv, GuardTypeOK, TerminateDecide, Release, Readers, Threads, Resting,
    Children, Markers
<1>3. ctl' \in Controls
  BY GuardBounds DEF GuardInv, GuardTypeOK, TerminateDecide, Release, Controls, Places
<1>4. CountIsExact'
  BY DEF GuardInv, TerminateDecide, Release, CountIsExact, One, Counted, Threads, Resting,
    GuardTypeOK, Readers, ControlReads
<1>5. ControlReads'
  BY DEF GuardInv, TerminateDecide, Release, ControlReads, Threads, Resting, GuardTypeOK, Readers,
    Controls
<1>6. NoUseAfterUnmap'
  BY DEF GuardInv, TerminateDecide, Release, NoUseAfterUnmap, Threads, Resting, GuardTypeOK,
    Readers, CountIsExact, One, Counted, ViewIsOwned
<1>7. ClosingInCleanup'
  BY DEF GuardInv, TerminateDecide, Release, ClosingInCleanup, GuardTypeOK, Children, Controls
<1>8. OffWhenTaken'
  BY DEF GuardInv, TerminateDecide, Release, OffWhenTaken, ClosingInCleanup, GuardTypeOK,
    Children, Markers, Controls
<1>9. UNCHANGED <<child, view, marker, deferred, par, game>>
  BY DEF TerminateDecide
<1> QED
  BY <1>1, <1>2, <1>3, <1>4, <1>5, <1>6, <1>7, <1>8, <1>9 DEF GuardInv, GuardTypeOK, ViewIsOwned,
    ActiveIsPatched

(* The control thread retires delivery. *)
LEMMA TerminateRetireSafe ==
  ASSUME GuardInv, TerminateRetire
  PROVE  GuardInv'
<1>1. /\ ctl.pc = "retire" /\ "ctl" \in Threads /\ ~Counted(rd["ctl"])
      /\ Count("ctl", "Retire")
      /\ UNCHANGED <<view, marker, deferred, par, game>>
  BY DEF GuardInv, ControlReads, TerminateRetire, Retire, Counted, Threads
<1>2. child' \in Children /\ child'.role = child.role /\ child'.live = child.live
  BY DEF GuardInv, GuardTypeOK, TerminateRetire, Retire, Children
<1>3. ctl' \in Controls /\ ctl'.pc = "retiring"
  BY DEF GuardInv, GuardTypeOK, TerminateRetire, At, Controls, Places
<1>4. /\ rd' \in [Threads -> Readers] /\ readers' \in 0 .. 2
      /\ CountIsExact'
      /\ rd'["ctl"].at = "load"
      /\ \A s \in Threads \ {"ctl"} : rd'[s] = rd[s]
  BY <1>1, CountCounts DEF GuardInv
<1>5. ControlReads' /\ NoUseAfterUnmap'
  BY <1>1, <1>3, <1>4 DEF GuardInv, ControlReads, NoUseAfterUnmap, Threads
<1> QED
  BY <1>1, <1>2, <1>3, <1>4, <1>5 DEF GuardInv, GuardTypeOK, ViewIsOwned, ClosingInCleanup,
    OffWhenTaken, ActiveIsPatched

(* The launcher is ended and reaped, or retained with its guard. *)
LEMMA TerminateParentSafe ==
  ASSUME GuardInv, TerminateParent
  PROVE  GuardInv'
<1>1. /\ ctl.pc = "retiring" /\ "ctl" \in Threads /\ rd["ctl"].at \in {"idle", "refused"}
      /\ UNCHANGED <<child, marker, game>>
  BY DEF TerminateParent, Threads
<1>2. CASE /\ par' = [par EXCEPT !.alive = @ /\ game = "detaching"]
           /\ Drain /\ Count("ctl", "Reap") /\ At("reap")
  <2>1. par' \in Launchers /\ ActiveIsPatched'
    BY <1>1, <1>2 DEF GuardInv, GuardTypeOK, ActiveIsPatched, Launchers
  <2>2. ctl' \in Controls /\ ctl'.pc = "reap"
    BY <1>2 DEF GuardInv, GuardTypeOK, At, Controls, Places
  <2>3. Drain /\ Count("ctl", "Reap") /\ ~Counted(rd["ctl"])
    BY <1>1, <1>2 DEF Counted
  <2>4. /\ rd' \in [Threads -> Readers] /\ readers' \in 0 .. 2
        /\ CountIsExact'
        /\ rd'["ctl"].at = "load"
        /\ \A s \in Threads \ {"ctl"} : rd'[s] = rd[s]
    BY <1>1, <2>3, CountCounts DEF GuardInv
  <2>5. view' = view \/ \A t \in Threads : ~Counted(rd[t])
    BY <2>3, DrainUnmaps DEF GuardInv, CountIsExact, One, Threads
  <2>6. ControlReads' /\ NoUseAfterUnmap'
    BY <2>2, <2>4, <2>5 DEF GuardInv, ControlReads, NoUseAfterUnmap, Threads, Counted
  <2>7. ViewIsOwned' /\ ClosingInCleanup' /\ OffWhenTaken'
    BY <1>1, <2>2, <2>3, DrainUnmaps DEF GuardInv, ViewIsOwned, ClosingInCleanup, OffWhenTaken
  <2> QED
    BY <1>1, <2>1, <2>2, <2>3, <2>4, <2>6, <2>7, DrainUnmaps DEF GuardInv, GuardTypeOK
<1>3. CASE /\ par.alive
           /\ rd' = [rd EXCEPT !["ctl"] = Resting]
           /\ ctl' = [ctl EXCEPT !.pc = "idle", !.next = "idle"]
           /\ UNCHANGED <<par, readers, view, deferred>>
  <2>1. ctl' \in Controls /\ ctl'.pc = "idle"
    BY <1>3 DEF GuardInv, GuardTypeOK, Controls, Places
  <2>2. Resting \in Readers /\ Resting.at = "idle"
    BY GuardBounds DEF Resting, Readers
  <2>3. /\ rd' \in [Threads -> Readers] /\ rd'["ctl"].at = "idle"
        /\ rd'["game"] = rd["game"]
    BY <1>1, <1>3, <2>2 DEF GuardInv, GuardTypeOK, Threads
  <2>4. CountIsExact' /\ ControlReads' /\ NoUseAfterUnmap'
    BY <1>1, <1>3, <2>3 DEF GuardInv, CountIsExact, One, Counted, ControlReads, NoUseAfterUnmap,
      Threads
  <2> QED
    BY <1>1, <1>3, <2>1, <2>3, <2>4 DEF GuardInv, GuardTypeOK, ViewIsOwned, ClosingInCleanup,
      OffWhenTaken, ActiveIsPatched
<1> QED
  BY <1>2, <1>3, Zenon DEF TerminateParent

--------------------------------------------------------------------------------
(* The launcher. *)

(* The launcher opens a pending marker. *)
LEMMA TryStartSafe ==
  ASSUME GuardInv, TryStart
  PROVE  GuardInv'
<1>1. marker' \in Markers
  BY GuardBounds DEF GuardInv, GuardTypeOK, TryStart, Markers
<1>2. par' \in Launchers
  BY GuardBounds DEF GuardInv, GuardTypeOK, TryStart, Launchers
<1>3. OffWhenTaken'
  BY DEF GuardInv, TryStart, OffWhenTaken, ClosingInCleanup, GuardTypeOK, Children, Markers,
    Controls
<1>4. ActiveIsPatched'
  BY DEF GuardInv, TryStart, ActiveIsPatched, GuardTypeOK, Markers, Launchers
<1>5. UNCHANGED <<child, view, readers, deferred, rd, ctl, game>>
  BY DEF TryStart
<1> QED
  BY <1>1, <1>2, <1>3, <1>4, <1>5 DEF GuardInv, GuardTypeOK, CountIsExact, ControlReads,
    NoUseAfterUnmap, ViewIsOwned, ClosingInCleanup, One, Counted

(* The import is redirected while the guard is pending, or the guard *)
(* failed.                                                           *)
LEMMA GuardPatchSafe ==
  ASSUME GuardInv, GuardPatch
  PROVE  GuardInv'
<1>1. marker' \in Markers
  BY GuardBounds DEF GuardInv, GuardTypeOK, GuardPatch, PatchLocalTerminateThunk, Markers
<1>2. par' \in Launchers
  BY GuardBounds DEF GuardInv, GuardTypeOK, GuardPatch, PatchLocalTerminateThunk, Launchers
<1>3. OffWhenTaken'
  BY DEF GuardInv, GuardPatch, PatchLocalTerminateThunk, OffWhenTaken, ClosingInCleanup,
    GuardTypeOK, Children, Markers, Controls
<1>4. ActiveIsPatched'
  BY DEF GuardInv, GuardPatch, PatchLocalTerminateThunk, ActiveIsPatched, GuardTypeOK, Markers,
    Launchers
<1>5. UNCHANGED <<child, view, readers, deferred, rd, ctl, game>>
  BY DEF GuardPatch
<1> QED
  BY <1>1, <1>2, <1>3, <1>4, <1>5 DEF GuardInv, GuardTypeOK, CountIsExact, ControlReads,
    NoUseAfterUnmap, ViewIsOwned, ClosingInCleanup, One, Counted

(* Only a redirected guard that is still pending becomes active; another is *)
(* given back.                                                              *)
LEMMA GuardActivateSafe ==
  ASSUME GuardInv, GuardActivate
  PROVE  GuardInv'
<1>1. marker' \in Markers
  BY GuardBounds DEF GuardInv, GuardTypeOK, GuardActivate, Activate, RestoreLocalTerminateThunk,
    Markers
<1>2. par' \in Launchers
  <2>1. par \in Launchers
    BY DEF GuardInv, GuardTypeOK
  <2>2. CASE marker.state = "Pending"
    <3>1. par' = [par EXCEPT !.guard = "active"]
      BY <2>2, Zenon DEF GuardActivate, Activate
    <3> QED
      BY <2>1, <3>1, Zenon DEF Launchers
  <2>3. CASE marker.state # "Pending"
    <3>1. par' = [RestoreLocalTerminateThunk(par) EXCEPT !.guard = "done"]
      BY <2>3, Zenon DEF GuardActivate, Activate
    <3>2. RestoreLocalTerminateThunk(par) \in Launchers
      BY <2>1, Zenon DEF RestoreLocalTerminateThunk, Launchers
    <3> QED
      BY <3>1, <3>2, Zenon DEF Launchers
  <2> QED
    BY <2>2, <2>3
<1>3. OffWhenTaken'
  BY DEF GuardInv, GuardActivate, Activate, RestoreLocalTerminateThunk, OffWhenTaken,
    ClosingInCleanup, GuardTypeOK, Children, Markers, Controls
<1>4. ActiveIsPatched'
  <2>1. /\ marker \in Markers /\ par \in Launchers /\ par.alive /\ par.patched
        /\ marker.state # "Active"
    BY DEF GuardInv, GuardTypeOK, GuardActivate, ActiveIsPatched
  <2>2. CASE marker.state = "Pending"
    <3>1. par' = [par EXCEPT !.guard = "active"]
      BY <2>2 DEF GuardActivate, Activate
    <3>2. par'.guard = "active" /\ par'.patched
      BY <2>1, <3>1 DEF Launchers
    <3> QED
      BY <3>2 DEF ActiveIsPatched
  <2>3. CASE marker.state # "Pending"
    <3>1. par' = [[par EXCEPT !.patched = FALSE] EXCEPT !.guard = "done"] /\ marker' = marker
      BY <2>3 DEF GuardActivate, Activate, RestoreLocalTerminateThunk
    <3>2. par'.guard = "done"
      BY <2>1, <3>1 DEF Launchers
    <3> QED
      BY <2>1, <3>1, <3>2 DEF ActiveIsPatched
  <2> QED
    BY <2>2, <2>3
<1>5. UNCHANGED <<child, view, readers, deferred, rd, ctl, game>>
  BY DEF GuardActivate
<1> QED
  BY <1>1, <1>2, <1>3, <1>4, <1>5 DEF GuardInv, GuardTypeOK, CountIsExact, ControlReads,
    NoUseAfterUnmap, ViewIsOwned, ClosingInCleanup, One, Counted

(* The game is told. *)
LEMMA GuardReadySafe ==
  ASSUME GuardInv, GuardReady
  PROVE  GuardInv'
<1>1. marker' \in Markers
  BY GuardBounds DEF GuardInv, GuardTypeOK, GuardReady, Markers
<1>2. par' \in Launchers
  BY GuardBounds DEF GuardInv, GuardTypeOK, GuardReady, Launchers
<1>3. OffWhenTaken'
  BY DEF GuardInv, GuardReady, OffWhenTaken, ClosingInCleanup, GuardTypeOK, Children, Markers,
    Controls
<1>4. ActiveIsPatched'
  BY DEF GuardInv, GuardReady, ActiveIsPatched, GuardTypeOK, Markers, Launchers
<1>5. UNCHANGED <<child, view, readers, deferred, rd, ctl, game>>
  BY DEF GuardReady
<1> QED
  BY <1>1, <1>2, <1>3, <1>4, <1>5 DEF GuardInv, GuardTypeOK, CountIsExact, ControlReads,
    NoUseAfterUnmap, ViewIsOwned, ClosingInCleanup, One, Counted

(* The launcher asks, or ends the game. *)
LEMMA LauncherTerminatesSafe ==
  ASSUME GuardInv, LauncherTerminates
  PROVE  GuardInv'
<1>1. par' \in Launchers
  BY GuardBounds DEF GuardInv, GuardTypeOK, LauncherTerminates, Launchers
<1>2. game' \in {"up", "detaching", "down"}
  BY GuardBounds DEF GuardInv, GuardTypeOK, LauncherTerminates
<1>3. ActiveIsPatched'
  BY DEF GuardInv, LauncherTerminates, ActiveIsPatched, GuardTypeOK, Markers, Launchers
<1>4. UNCHANGED <<child, view, marker, readers, deferred, rd, ctl>>
  BY DEF LauncherTerminates
<1> QED
  BY <1>1, <1>2, <1>3, <1>4 DEF GuardInv, GuardTypeOK, CountIsExact, ControlReads,
    NoUseAfterUnmap, ViewIsOwned, ClosingInCleanup, OffWhenTaken, One, Counted

(* A blocked termination is counted. *)
LEMMA LauncherBlockedSafe ==
  ASSUME GuardInv, LauncherBlocked
  PROVE  GuardInv'
<1>1. marker' \in Markers
  BY GuardBounds DEF GuardInv, GuardTypeOK, LauncherBlocked, Markers
<1>2. par' \in Launchers
  BY GuardBounds DEF GuardInv, GuardTypeOK, LauncherBlocked, Launchers
<1>3. OffWhenTaken'
  BY DEF GuardInv, LauncherBlocked, OffWhenTaken, ClosingInCleanup, GuardTypeOK, Children,
    Markers, Controls
<1>4. ActiveIsPatched'
  BY DEF GuardInv, LauncherBlocked, ActiveIsPatched, GuardTypeOK, Markers, Launchers
<1>5. UNCHANGED <<child, view, readers, deferred, rd, ctl, game>>
  BY DEF LauncherBlocked
<1> QED
  BY <1>1, <1>2, <1>3, <1>4, <1>5 DEF GuardInv, GuardTypeOK, CountIsExact, ControlReads,
    NoUseAfterUnmap, ViewIsOwned, ClosingInCleanup, One, Counted

(* The launcher is gone, its pending guard with it. *)
LEMMA LauncherExitsSafe ==
  ASSUME GuardInv, LauncherExits
  PROVE  GuardInv'
<1>1. marker' \in Markers
  BY GuardBounds DEF GuardInv, GuardTypeOK, LauncherExits, RestoreLocalTerminateThunk, Markers
<1>2. par' \in Launchers
  BY GuardBounds DEF GuardInv, GuardTypeOK, LauncherExits, RestoreLocalTerminateThunk, Launchers
<1>3. OffWhenTaken'
  BY DEF GuardInv, LauncherExits, RestoreLocalTerminateThunk, OffWhenTaken, ClosingInCleanup,
    GuardTypeOK, Children, Markers, Controls
<1>4. ActiveIsPatched'
  BY DEF GuardInv, LauncherExits, RestoreLocalTerminateThunk, ActiveIsPatched, GuardTypeOK,
    Markers, Launchers
<1>5. UNCHANGED <<child, view, readers, deferred, rd, ctl, game>>
  BY DEF LauncherExits
<1> QED
  BY <1>1, <1>2, <1>3, <1>4, <1>5 DEF GuardInv, GuardTypeOK, CountIsExact, ControlReads,
    NoUseAfterUnmap, ViewIsOwned, ClosingInCleanup, One, Counted

(* The DLL arrives late. *)
LEMMA InjectArrivesSafe ==
  ASSUME GuardInv, InjectArrives
  PROVE  GuardInv'
<1>1. par' \in Launchers
  BY GuardBounds DEF GuardInv, GuardTypeOK, InjectArrives, Launchers
<1>2. ActiveIsPatched'
  BY DEF GuardInv, InjectArrives, ActiveIsPatched, GuardTypeOK, Markers, Launchers
<1>3. UNCHANGED <<child, view, marker, readers, deferred, rd, ctl, game>>
  BY DEF InjectArrives
<1> QED
  BY <1>1, <1>2, <1>3 DEF GuardInv, GuardTypeOK, CountIsExact, ControlReads, NoUseAfterUnmap,
    ViewIsOwned, ClosingInCleanup, OffWhenTaken, One, Counted

--------------------------------------------------------------------------------
(* What begins an operation of the control thread. *)

(* The reaper drains, then counts itself. *)
LEMMA ReapSafe ==
  ASSUME GuardInv, Reap
  PROVE  GuardInv'
<1>1. /\ ctl.pc = "idle" /\ ctl.left > 0 /\ "ctl" \in Threads /\ ~Counted(rd["ctl"])
      /\ Count("ctl", "Reap") /\ Begin("reap", "idle") /\ Drain
      /\ UNCHANGED <<child, marker, par, game>>
  BY DEF Reap, Free, Counted, Threads
<1>2. ctl' \in Controls /\ ctl'.pc = "reap"
  BY <1>1, BeginKeepsBudget DEF GuardInv, GuardTypeOK, Places
<1>3. /\ rd' \in [Threads -> Readers] /\ readers' \in 0 .. 2
      /\ CountIsExact'
      /\ rd'["ctl"].at = "load"
      /\ \A s \in Threads \ {"ctl"} : rd'[s] = rd[s]
  BY <1>1, CountCounts DEF GuardInv
<1>4. view' = view \/ \A t \in Threads : ~Counted(rd[t])
  BY <1>1, DrainUnmaps DEF GuardInv, CountIsExact, One, Threads
<1>5. ControlReads' /\ NoUseAfterUnmap'
  BY <1>2, <1>3, <1>4 DEF GuardInv, ControlReads, NoUseAfterUnmap, Threads, Counted
<1>6. ViewIsOwned'
  BY <1>1, DrainUnmaps DEF GuardInv, ViewIsOwned
<1> QED
  BY <1>1, <1>2, <1>3, <1>5, <1>6, DrainUnmaps DEF GuardInv, GuardTypeOK, ClosingInCleanup,
    OffWhenTaken, ActiveIsPatched

(* A session ends the launcher. *)
LEMMA EndSessionSafe ==
  ASSUME GuardInv, EndSession
  PROVE  GuardInv'
<1>1. /\ ctl.pc = "idle" /\ ctl.left > 0 /\ Terminate("idle")
      /\ UNCHANGED <<child, view, marker, deferred, par, game>>
  BY DEF EndSession
<1> QED
  BY <1>1, TerminateReads DEF GuardInv, GuardTypeOK, ViewIsOwned, ClosingInCleanup, OffWhenTaken,
    ActiveIsPatched

(* A shutdown does, and cleans up. *)
LEMMA ShutdownHostSafe ==
  ASSUME GuardInv, ShutdownHost
  PROVE  GuardInv'
<1>1. /\ ctl.pc = "idle" /\ ctl.left > 0 /\ Terminate("cleanup")
      /\ game' \in {"up", "detaching", "down"}
      /\ UNCHANGED <<child, view, marker, deferred, par>>
  BY DEF ShutdownHost
<1> QED
  BY <1>1, TerminateReads DEF GuardInv, GuardTypeOK, ViewIsOwned, ClosingInCleanup, OffWhenTaken,
    ActiveIsPatched

--------------------------------------------------------------------------------
(* The theorem. *)

(* The invariant holds before the installation. *)
LEMMA GuardInitIsSafe == GuardInit => GuardInv
<1> SUFFICES ASSUME GuardInit
             PROVE  GuardInv
  OBVIOUS
<1>1. /\ Resting \in Readers /\ Resting.at = "idle"
      /\ rd \in [Threads -> Readers] /\ \A t \in Threads : rd[t].at = "idle"
  BY GuardBounds DEF GuardInit, Resting, Readers, Threads
<1>2. child \in Children /\ marker \in Markers
  <2>1. \A e \in BOOLEAN :
          /\ [role |-> "None", live |-> e, enabled |-> e, consumed |-> 0] \in Children
          /\ [state |-> "None", serial |-> 0, event |-> e] \in Markers
    BY GuardBounds DEF Children, Markers
  <2>2. FALSE \in BOOLEAN
    OBVIOUS
  <2> QED
    BY <2>1, <2>2, Zenon DEF GuardInit
<1>3. ctl \in Controls
  <2>1. \A e \in BOOLEAN :
          [pc |-> "start", installed |-> e, left |-> MaxControl, next |-> "idle"] \in Controls
    BY GuardBounds DEF Controls, Places
  <2>2. FALSE \in BOOLEAN
    OBVIOUS
  <2> QED
    BY <2>1, <2>2, Zenon DEF GuardInit
<1>4. par \in Launchers /\ par.guard = "none"
  BY DEF GuardInit, Launchers
<1>5. GuardTypeOK
  BY <1>1, <1>2, <1>3, <1>4 DEF GuardInit, GuardTypeOK
<1>6. CountIsExact /\ ControlReads /\ NoUseAfterUnmap
  BY <1>1 DEF GuardInit, CountIsExact, One, Counted, ControlReads, NoUseAfterUnmap, Threads
<1>7. ViewIsOwned /\ OffWhenTaken
  BY DEF GuardInit, ViewIsOwned, OffWhenTaken
<1>8. ClosingInCleanup
  BY DEF GuardInit, ClosingInCleanup
<1>9. ActiveIsPatched
  BY <1>4 DEF GuardInit, ActiveIsPatched
<1> QED
  BY <1>5, <1>6, <1>7, <1>8, <1>9 DEF GuardInv

(* A step that changes nothing keeps it. *)
LEMMA GuardIdle ==
  ASSUME GuardInv, UNCHANGED guardVars
  PROVE  GuardInv'
BY DEF GuardInv, GuardTypeOK, CountIsExact, One, Counted, ControlReads, NoUseAfterUnmap,
    ViewIsOwned,
  ClosingInCleanup, OffWhenTaken, ActiveIsPatched, guardVars

(* Every step of the frame thread keeps it. *)
LEMMA GameSafe ==
  ASSUME GuardInv, Game
  PROVE  GuardInv'
<1>1. CASE SeeSignal \/ Refused \/ ConsumeRead \/ ConsumeSwap \/ ConsumeEnd
  BY <1>1, SeeSignalSafe, RefusedSafe, ConsumeReadSafe, ConsumeSwapSafe, ConsumeEndSafe
<1>2. CASE Recover \/ GameLooks \/ LoadMarker("game") \/ RetireStore("game")
  BY <1>2, RecoverSafe, GameLooksSafe, LoadMarkerSafe, RetireStoreSafe DEF Threads
<1> QED
  BY <1>1, <1>2, Zenon DEF Game

(* Every step of the control thread keeps it. *)
LEMMA ControlSafe ==
  ASSUME GuardInv, Control
  PROVE  GuardInv'
<1>1. CASE InstallPublish \/ InstallInject \/ InstallAwait \/ InstallGiveUp
  BY <1>1, InstallPublishSafe, InstallInjectSafe, InstallAwaitSafe, InstallGiveUpSafe
<1>2. CASE CleanupClose \/ CleanupCancel \/ CleanupRelease \/ CleanupDrain
  BY <1>2, CleanupCloseSafe, CleanupCancelSafe, CleanupReleaseSafe, CleanupDrainSafe
<1>3. CASE ReapDecide \/ TerminateDecide \/ TerminateRetire \/ TerminateParent
  BY <1>3, ReapDecideSafe, TerminateDecideSafe, TerminateRetireSafe, TerminateParentSafe
<1>4. CASE LoadMarker("ctl") \/ RetireStore("ctl")
  BY <1>4, LoadMarkerSafe, RetireStoreSafe DEF Threads
<1> QED
  BY <1>1, <1>2, <1>3, <1>4, Zenon DEF Control

(* Every step of the launcher keeps it. *)
LEMMA LauncherSafe ==
  ASSUME GuardInv, Launcher
  PROVE  GuardInv'
<1>1. CASE TryStart \/ GuardPatch \/ GuardActivate \/ GuardReady
  BY <1>1, TryStartSafe, GuardPatchSafe, GuardActivateSafe, GuardReadySafe
<1>2. CASE LauncherTerminates \/ LauncherBlocked \/ LauncherExits \/ InjectArrives
  BY <1>2, LauncherTerminatesSafe, LauncherBlockedSafe, LauncherExitsSafe, InjectArrivesSafe
<1> QED
  BY <1>1, <1>2, Zenon DEF Launcher

(* The invariant is inductive. *)
LEMMA GuardInductive == GuardInv /\ [GuardNext]_guardVars => GuardInv'
<1> SUFFICES ASSUME GuardInv, [GuardNext]_guardVars
             PROVE  GuardInv'
  OBVIOUS
<1>1. CASE Game \/ Control \/ Launcher
  BY <1>1, GameSafe, ControlSafe, LauncherSafe
<1>2. CASE Reap \/ EndSession \/ ShutdownHost
  BY <1>2, ReapSafe, EndSessionSafe, ShutdownHostSafe
<1>3. CASE UNCHANGED guardVars
  BY <1>3, GuardIdle
<1> QED
  BY <1>1, <1>2, <1>3, Zenon DEF GuardNext

(* It says what is claimed of the guard. *)
LEMMA GuardInvIsSafe == GuardInv => GuardSafe
BY DEF GuardInv, GuardSafe, NothingLost, ViewIsOwned, InstalledIsPatched, ActiveIsPatched,
  GivenUpIsOff, OffWhenTaken

(* For any number of terminations and of operations: the marker is never  *)
(* used once it is unmapped, a guard taken down is unmapped or kept where *)
(* the next drain finds it, a guard the launcher counts as active is one  *)
(* its import goes through, and one the game gave up never blocks a       *)
(* termination (AcquireChildMarker, CleanupExternalLauncherGuard,         *)
(* ExternalLauncherGuardThread).                                          *)
THEOREM GuardSafety == GuardSpec => []GuardSafe
<1>1. GuardSpec => []GuardInv
  BY GuardInitIsSafe, GuardInductive, PTL DEF GuardSpec
<1> QED
  BY <1>1, GuardInvIsSafe, PTL

--------------------------------------------------------------------------------
(* HelperBoot. *)

HIDE MaxGenerationAssumption DEF None

(* A helper lives only within its session's start or after it. *)
HelperOfSession ==
  /\ session.pc \notin {"idle", "start", "over"} => hp.gen = session.gen
  /\ session.pc # "idle" => session.gen >= 1
  /\ hp.st = "suspended" =>
       session.pc \in {"inject", "loading", "patch", "payload", "wait", "resume"}
  /\ hp.st = "running" => session.pc \in {"watch", "armed"}
(* Before it runs, and once it is dead, nothing of the launch has happened. *)
NotRunning ==
  /\ hp.st # "running" => main = Unstarted
  /\ hp.st = "dead" => boot = NoBoot /\ init = "none"
(* The stages of the start that the helper has passed. *)
Prepares ==
  Alive =>
    /\ session.pc = "inject" => hp.dll = "no"
    /\ session.pc \in {"patch", "payload", "wait", "resume", "watch", "armed"} => hp.dll = "yes"
    /\ session.pc \in {"payload", "wait", "resume", "watch", "armed"} =>
         hp.patched = "all" \/ ghost.unread
    /\ hp.dll # "yes" => init = "none" /\ boot = NoBoot
(* The bootstrap's mutex is held by the thread that is in it. *)
BootHeld ==
  /\ boot.by = "none" <=> boot.at = "none"
  /\ boot.by = "main" => main.at = "booting"
  /\ main.at = "booting" => Intercepted
  /\ boot.by = "init" => init = "running"
  /\ boot.at = "publish" => hp.bound
(* The initialization that forgets everything is over. *)
BootOver == Context /\ boot = NoBoot /\ init = "done"
(* What the worker waited for: the readiness is this helper's, and then its   *)
(* main thread runs.                                                          *)
ReadyIsOver ==
  ~ghost.stray /\ Alive =>
    /\ block.ready \/ session.pc = "resume" \/ hp.st = "running" => BootOver
    /\ main.at \in {"enter", "serve", "ended"}
ServesBound == main.at = "serve" => hp.bound
(* What the stubs know at each step of the launch. *)
Known ==
  ~ghost.stray /\ hp.st = "running" =>
    /\ main.step >= 2 => hp.thread
    /\ main.step \in 3 .. 6 => "path" \in hp.allocs
    /\ main.step >= 8 => "args" \in hp.allocs
    /\ main.step >= 5 => <<"load", "base">> \in hp.fakes
    /\ main.step >= 10 => <<"init", "init">> \in hp.fakes
CallsCounted ==
  Alive /\ ~main.gaveUp =>
    /\ main.step <= 4 => hp.calls = 0
    /\ main.step <= 9 => hp.calls <= 1
EventIsOwn == session.pc \in {"wait", "resume", "watch", "armed"} => event \in {0, session.gen}
WatchIsOwn == \A w \in watch : w.gen = hp.gen /\ (w.at = "storing" => ~Alive)
BootInv ==
  /\ BootTypeOK /\ HelperOfSession /\ NotRunning /\ Prepares /\ BootHeld /\ ReadyIsOver
  /\ ServesBound /\ Known /\ CallsCounted /\ EventIsOwn /\ WatchIsOwn
  /\ LaunchStaysInside /\ NothingForgotten /\ InitIsOwn /\ ExitSignalIsOwn /\ GameSurvives

--------------------------------------------------------------------------------
(* What the steps of the launch write. *)

(* The launch, step by step. *)
LEMMA LaunchSteps ==
  /\ Len(Launch) = 11
  /\ Launch[1] = "CreateProcess" /\ Launch[2] = "AllocPath" /\ Launch[3] = "WritePath"
  /\ Launch[4] = "LoadThread" /\ Launch[5] = "LoadResult" /\ Launch[6] = "FreePath"
  /\ Launch[7] = "AllocArgs" /\ Launch[8] = "WriteArgs" /\ Launch[9] = "InitThread"
  /\ Launch[10] = "InitResult" /\ Launch[11] = "ResumeThread"
BY DEF Launch

(* The step the main thread is at, from the call it makes. *)
LEMMA StepNumbers ==
  ASSUME main \in Mains, Running
  PROVE  /\ main.step \in 1 .. 11
         /\ Launch[main.step] = "CreateProcess" => main.step = 1
         /\ Launch[main.step] = "AllocPath" => main.step = 2
         /\ Launch[main.step] = "WritePath" => main.step = 3
         /\ Launch[main.step] = "LoadThread" => main.step = 4
         /\ Launch[main.step] = "LoadResult" => main.step = 5
         /\ Launch[main.step] = "FreePath" => main.step = 6
         /\ Launch[main.step] = "AllocArgs" => main.step = 7
         /\ Launch[main.step] = "WriteArgs" => main.step = 8
         /\ Launch[main.step] = "InitThread" => main.step = 9
         /\ Launch[main.step] = "InitResult" => main.step = 10
         /\ Launch[main.step] = "ResumeThread" => main.step = 11
<1>1. main.step \in 1 .. 11
  BY LaunchSteps DEF Mains, Steps, Running, Launched
<1>2. \/ main.step = 1 \/ main.step = 2 \/ main.step = 3 \/ main.step = 4 \/ main.step = 5
      \/ main.step = 6 \/ main.step = 7 \/ main.step = 8 \/ main.step = 9 \/ main.step = 10
      \/ main.step = 11
  BY <1>1
<1> QED
  BY <1>1, <1>2, LaunchSteps

(* Readiness is a Boolean. *)
LEMMA ServesOk == \A ok \in Serves : ok \in BOOLEAN
BY Zenon DEF Serves

(* The main thread as it is spawned. *)
LEMMA UnstartedIsMain == Unstarted \in Mains /\ Unstarted.step = 1 /\ Unstarted.at = "enter"
<1>1. \A b \in BOOLEAN : [at |-> "enter", step |-> 1, gaveUp |-> b] \in Mains
  BY LaunchSteps DEF Mains, Steps
<1>2. FALSE \in BOOLEAN
  OBVIOUS
<1>3. Unstarted \in Mains
  BY <1>1, <1>2, Zenon DEF Unstarted
<1> QED
  BY <1>3 DEF Unstarted

(* The block as it is reset. *)
LEMMA NoBlockIsBlock == NoBlock \in Blocks
<1>1. \A b \in BOOLEAN : [ready |-> b, init |-> 0, hits |-> b] \in Blocks
  BY MaxStartsAssumption DEF Blocks
<1>2. FALSE \in BOOLEAN
  OBVIOUS
<1> QED
  BY <1>1, <1>2, Zenon DEF NoBlock

(* What is written into the block keeps its type and, but for the *)
(* readiness, its readiness.                                      *)
LEMMA BlockWrites ==
  ASSUME block \in Blocks, NEW g \in 0 .. MaxStarts
  PROVE  /\ [block EXCEPT !.hits = TRUE] \in Blocks
         /\ [block EXCEPT !.hits = TRUE].ready = block.ready
         /\ [block EXCEPT !.ready = TRUE] \in Blocks
         /\ [block EXCEPT !.ready = FALSE] \in Blocks
         /\ [block EXCEPT !.init = g, !.hits = TRUE] \in Blocks
         /\ [block EXCEPT !.init = g, !.hits = TRUE].ready = block.ready
         /\ [block EXCEPT !.init = g, !.hits = FALSE] \in Blocks
<1>1. \A b \in BOOLEAN : /\ [block EXCEPT !.hits = b] \in Blocks
                         /\ [block EXCEPT !.hits = b].ready = block.ready
                         /\ [block EXCEPT !.ready = b] \in Blocks
                         /\ [block EXCEPT !.init = g, !.hits = b] \in Blocks
                         /\ [block EXCEPT !.init = g, !.hits = b].ready = block.ready
  BY DEF Blocks
<1>2. TRUE \in BOOLEAN /\ FALSE \in BOOLEAN
  OBVIOUS
<1> QED
  BY <1>1, <1>2, Zenon

(* What a stub leaves alone in the helper. *)
Keeps(q) ==
  /\ q \in Helpers
  /\ q.st = hp.st /\ q.gen = hp.gen /\ q.dll = hp.dll /\ q.patched = hp.patched
  /\ q.bound = hp.bound /\ q.ready = hp.ready

(* A call that was served leads to the next step. *)
LEMMA NextStep ==
  ASSUME main \in Mains, Running, Next1
  PROVE  /\ main' \in Mains /\ main'.at = "enter" /\ main'.gaveUp = main.gaveUp
         /\ main'.step = main.step + 1
<1> DEFINE k == main.step + 1
<1>1. k \in Steps
  BY StepNumbers, LaunchSteps DEF Steps
<1>2. main' = [main EXCEPT !.at = "enter", !.step = k]
  BY DEF Next1
<1> HIDE DEF k
<1>3. main' \in Mains /\ main'.at = "enter" /\ main'.gaveUp = main.gaveUp /\ main'.step = k
  BY <1>1, <1>2 DEF Mains
<1> QED
  BY <1>3 DEF k

(* A call that failed gives the launch up at its step. *)
LEMMA FailedStep ==
  ASSUME main \in Mains, Fails1
  PROVE  /\ main' \in Mains /\ main'.at \in {"enter", "ended"} /\ main'.step = main.step
         /\ main'.gaveUp
<1> DEFINE at == IF main.step = 1 THEN "ended" ELSE "enter"
<1>1. at \in {"enter", "ended"}
  OBVIOUS
<1>2. main' = [main EXCEPT !.at = at, !.gaveUp = TRUE]
  BY DEF Fails1
<1> HIDE DEF at
<1>3. \A b \in BOOLEAN : LET m == [main EXCEPT !.at = at, !.gaveUp = b]
                         IN  m \in Mains /\ m.at = at /\ m.step = main.step /\ m.gaveUp = b
  BY <1>1 DEF Mains
<1>4. TRUE \in BOOLEAN
  OBVIOUS
<1> QED
  BY <1>1, <1>2, <1>3, <1>4, Zenon

(* A call for a thread is counted. *)
LEMMA CallCounted ==
  ASSUME hp \in Helpers, hp.calls \in 0 .. 1
  PROVE  LET q == [hp EXCEPT !.calls = @ + 1]
         IN  /\ Keeps(q) /\ q.thread = hp.thread /\ q.allocs = hp.allocs /\ q.fakes = hp.fakes
<1> DEFINE k == hp.calls + 1
<1>1. k \in 0 .. 2
  OBVIOUS
<1> HIDE DEF k
<1>2. LET q == [hp EXCEPT !.calls = k]
      IN  /\ Keeps(q) /\ q.thread = hp.thread /\ q.allocs = hp.allocs /\ q.fakes = hp.fakes
  BY <1>1 DEF Helpers, Keeps
<1> QED
  BY <1>2 DEF k

(* A fake thread that is handed out is kept. *)
LEMMA FakeThreadKept ==
  ASSUME hp \in Helpers, hp.calls \in 0 .. 1, NEW name \in {"load", "init"},
         NEW code \in {"base", "init"}
  PROVE  LET q == [hp EXCEPT !.fakes = @ \cup {<<name, code>>}, !.calls = @ + 1]
         IN  /\ Keeps(q) /\ q.thread = hp.thread /\ q.allocs = hp.allocs
             /\ q.fakes = hp.fakes \cup {<<name, code>>} /\ q.calls = hp.calls + 1
<1> DEFINE k == hp.calls + 1
           F == hp.fakes \cup {<<name, code>>}
<1>1. k \in 0 .. 2
  OBVIOUS
<1>2. F \in SUBSET ({"load", "init"} \X {"base", "init"})
  BY DEF Helpers
<1> HIDE DEF k, F
<1>3. LET q == [hp EXCEPT !.fakes = F, !.calls = k]
      IN  /\ Keeps(q) /\ q.thread = hp.thread /\ q.allocs = hp.allocs
          /\ q.fakes = F /\ q.calls = k
  BY <1>1, <1>2 DEF Helpers, Keeps
<1> QED
  BY <1>3 DEF k, F

(* However the helper ends, it leaves nothing but its number. *)
LEMMA GoneFor ==
  ASSUME BootTypeOK, NotRunning, Gone \/ TerminateProcess
  PROVE  /\ hp' \in Helpers /\ hp'.st = "dead" /\ hp'.gen = hp.gen
         /\ main' = Unstarted /\ boot' = NoBoot /\ init' = "none"
<1>1. CASE Gone
  BY <1>1 DEF BootTypeOK, Gone, Helpers
<1>2. CASE ~Alive /\ UNCHANGED <<hp, main, boot, init>>
  BY <1>2 DEF BootTypeOK, NotRunning, Alive
<1> QED
  BY <1>1, <1>2 DEF TerminateProcess

(* An end of the helper keeps the invariant, whatever brings it about: a *)
(* start given up, the end of a session, a kill, its own exit.           *)
LEMMA HelperGone ==
  ASSUME BootInv, Gone \/ TerminateProcess, session.pc # "idle",
         (session' = session /\ Alive) \/ GoesTo("over"),
         block' \in Blocks, UNCHANGED <<wine, event, ghost>>,
         UNCHANGED <<watch, signaled>> \/ StopPeerProcessExitWatch
  PROVE  BootInv'
<1>1. /\ hp' \in Helpers /\ hp'.st = "dead" /\ hp'.gen = hp.gen
      /\ main' = Unstarted /\ boot' = NoBoot /\ init' = "none"
  BY GoneFor DEF BootInv
<1>2. /\ session' \in Sessions /\ session'.gen = session.gen /\ session'.applied = session.applied
      /\ \/ session'.pc = session.pc /\ session.pc \notin {"idle", "start", "over"}
         \/ session'.pc = "over"
  BY DEF BootInv, BootTypeOK, HelperOfSession, Sessions, Helpers, Alive, GoesTo
<1>3. watch' \subseteq Watchers /\ signaled' \in 0 .. MaxStarts
  BY MaxStartsAssumption DEF BootInv, BootTypeOK, StopPeerProcessExitWatch
<1>4. BootTypeOK'
  BY <1>1, <1>2, <1>3, UnstartedIsMain DEF BootInv, BootTypeOK, NoBoot, Boots
<1>5. HelperOfSession' /\ NotRunning' /\ Prepares' /\ BootHeld'
  BY <1>1, <1>2 DEF BootInv, BootTypeOK, HelperOfSession, NotRunning, Prepares, BootHeld, Alive,
    NoBoot,
    Unstarted
<1>6. ReadyIsOver' /\ ServesBound' /\ Known' /\ CallsCounted'
  BY <1>1 DEF ReadyIsOver, ServesBound, Known, CallsCounted, Alive, Unstarted
<1>7. EventIsOwn' /\ InitIsOwn'
  BY <1>2 DEF BootInv, EventIsOwn, InitIsOwn
<1>8. WatchIsOwn' /\ ExitSignalIsOwn'
  BY <1>1 DEF BootInv, WatchIsOwn, ExitSignalIsOwn, Alive, StopPeerProcessExitWatch
<1> QED
  BY <1>4, <1>5, <1>6, <1>7, <1>8 DEF BootInv, LaunchStaysInside, NothingForgotten, GameSurvives

(* A stub that remembers the thread, or the capture, changes nothing else. *)
LEMMA HelperWrites ==
  ASSUME hp \in Helpers, NEW b \in BOOLEAN
  PROVE  /\ LET q == [hp EXCEPT !.thread = b]
            IN  /\ Keeps(q) /\ q.thread = b
                /\ q.allocs = hp.allocs /\ q.fakes = hp.fakes /\ q.calls = hp.calls
         /\ LET q == [hp EXCEPT !.captured = b]
            IN  /\ Keeps(q) /\ q.thread = hp.thread
                /\ q.allocs = hp.allocs /\ q.fakes = hp.fakes /\ q.calls = hp.calls
BY DEF Helpers, Keeps

(* Whether a helper is bound, and ready, may be written. *)
LEMMA BoundWrite ==
  ASSUME NEW p \in Helpers, NEW d \in BOOLEAN, NEW e \in BOOLEAN
  PROVE  [p EXCEPT !.bound = d, !.ready = e] \in Helpers
BY DEF Helpers

(* The initialization that opens the block forgets what the stubs keep. *)
LEMMA OpenedHelper ==
  ASSUME hp \in Helpers, InitOpens
  PROVE  /\ hp' \in Helpers /\ hp'.st = hp.st /\ hp'.gen = hp.gen /\ hp'.dll = hp.dll
         /\ hp'.patched = hp.patched /\ hp'.bound /\ hp'.calls = 0
<1>1. \A b, c, d, e \in BOOLEAN :
        LET q == [[hp EXCEPT !.fakes = {}, !.allocs = {}, !.thread = b, !.calls = 0,
                             !.captured = c] EXCEPT !.bound = d, !.ready = e]
        IN  /\ q \in Helpers /\ q.st = hp.st /\ q.gen = hp.gen /\ q.dll = hp.dll
            /\ q.patched = hp.patched /\ q.bound = d /\ q.calls = 0
  <2> TAKE b, c, d, e \in BOOLEAN
  <2> DEFINE p == [hp EXCEPT !.fakes = {}, !.allocs = {}, !.thread = b, !.calls = 0,
                             !.captured = c]
  <2>1. /\ p \in Helpers /\ p.st = hp.st /\ p.gen = hp.gen /\ p.dll = hp.dll
        /\ p.patched = hp.patched /\ p.calls = 0
    <3> DEFINE none == {}
               k == 0
    <3>1. k \in 0 .. 2 /\ none \in SUBSET {"path", "args"}
      OBVIOUS
    <3>2. none \in SUBSET ({"load", "init"} \X {"base", "init"})
      OBVIOUS
    <3>3. p = [hp EXCEPT !.fakes = none, !.allocs = none, !.thread = b, !.calls = k,
                         !.captured = c]
      OBVIOUS
    <3> HIDE DEF none, k, p
    <3>4. /\ p \in Helpers /\ p.st = hp.st /\ p.gen = hp.gen /\ p.dll = hp.dll
          /\ p.patched = hp.patched /\ p.calls = k
      BY <3>1, <3>2, <3>3 DEF Helpers
    <3> QED
      BY <3>4 DEF k
  <2> HIDE DEF p
  <2>2. LET q == [p EXCEPT !.bound = d, !.ready = e]
        IN  /\ q \in Helpers /\ q.st = hp.st /\ q.gen = hp.gen /\ q.dll = hp.dll
            /\ q.patched = hp.patched /\ q.bound = d /\ q.calls = 0
    <3> DEFINE q == [p EXCEPT !.bound = d, !.ready = e]
    <3>1. q \in Helpers
      BY <2>1, BoundWrite
    <3>2. /\ q.st = p.st /\ q.gen = p.gen /\ q.dll = p.dll /\ q.patched = p.patched
          /\ q.bound = d /\ q.calls = p.calls
      BY <2>1 DEF Helpers
    <3> QED
      BY <2>1, <3>1, <3>2, Zenon
  <2> QED
    BY <2>2 DEF p
<1>2. TRUE \in BOOLEAN /\ FALSE \in BOOLEAN
  OBVIOUS
<1> QED
  BY <1>1, <1>2, Zenon DEF InitOpens, ClearFakeThreads

(* A main thread that binds itself forgets nothing. *)
LEMMA BoundHelper ==
  ASSUME hp \in Helpers, NEW ok \in BOOLEAN
  PROVE  LET q == [hp EXCEPT !.bound = TRUE, !.ready = ok, !.serving = ok]
         IN  /\ q \in Helpers /\ q.st = hp.st /\ q.gen = hp.gen /\ q.dll = hp.dll
             /\ q.patched = hp.patched /\ q.bound /\ q.calls = hp.calls /\ q.thread = hp.thread
             /\ q.allocs = hp.allocs /\ q.fakes = hp.fakes
<1>1. \A b \in BOOLEAN :
        LET q == [hp EXCEPT !.bound = b, !.ready = ok, !.serving = ok]
        IN  /\ q \in Helpers /\ q.st = hp.st /\ q.gen = hp.gen /\ q.dll = hp.dll
            /\ q.patched = hp.patched /\ q.bound = b /\ q.calls = hp.calls
            /\ q.thread = hp.thread /\ q.allocs = hp.allocs /\ q.fakes = hp.fakes
  <2> TAKE b \in BOOLEAN
  <2> DEFINE q == [hp EXCEPT !.bound = b, !.ready = ok, !.serving = ok]
  <2>1. q \in Helpers
    BY DEF Helpers
  <2>2. /\ q.st = hp.st /\ q.gen = hp.gen /\ q.dll = hp.dll /\ q.patched = hp.patched
        /\ q.bound = b /\ q.calls = hp.calls /\ q.thread = hp.thread
        /\ q.allocs = hp.allocs /\ q.fakes = hp.fakes
    BY DEF Helpers
  <2> QED
    BY <2>1, <2>2
<1>2. TRUE \in BOOLEAN
  OBVIOUS
<1> QED
  BY <1>1, <1>2, Zenon

(* An initialization that ends writes only what it is asked about. *)
LEMMA ServingHelper ==
  ASSUME hp \in Helpers, NEW ok \in BOOLEAN, NEW l \in {"idle", "initializing", "ready"}
  PROVE  [hp EXCEPT !.ready = ok, !.serving = ok, !.lazy = l] \in Helpers
BY Zenon DEF Helpers

(* Neither does one that finds itself bound. *)
LEMMA LazyBound ==
  ASSUME hp \in Helpers, LazyBind
  PROVE  /\ hp' \in Helpers /\ hp'.st = hp.st /\ hp'.gen = hp.gen /\ hp'.dll = hp.dll
         /\ hp'.patched = hp.patched /\ hp'.bound /\ hp'.calls = hp.calls
         /\ hp'.thread = hp.thread /\ hp'.allocs = hp.allocs /\ hp'.fakes = hp.fakes
         /\ Context => UNCHANGED <<hp, block>>
<1>1. CASE Context
  BY <1>1 DEF LazyBind, Context
<1>2. CASE ~Context
  <2>1. PICK ok \in Serves : hp' = [hp EXCEPT !.bound = TRUE, !.ready = ok, !.serving = ok]
    BY <1>2, Zenon DEF LazyBind
  <2>2. ok \in BOOLEAN
    BY ServesOk
  <2> QED
    BY <1>2, <2>1, <2>2, BoundHelper, Zenon
<1> QED
  BY <1>1, <1>2

(* A launch hit is noted in the block. *)
LEMMA HitWrites ==
  ASSUME block \in Blocks, Hit
  PROVE  block' \in Blocks /\ block'.ready = block.ready
<1>1. 0 \in 0 .. MaxStarts
  BY MaxStartsAssumption
<1> QED
  BY <1>1, BlockWrites, Zenon DEF Hit

(* The handshake is written under the number of the helper. *)
LEMMA HandshakeWrites ==
  ASSUME block \in Blocks, hp \in Helpers, Handshake
  PROVE  block' \in Blocks /\ block'.ready = block.ready /\ event' = hp.gen
<1>1. hp.gen \in 0 .. MaxStarts
  BY DEF Helpers
<1> QED
  BY <1>1, BlockWrites, Zenon DEF Handshake

(* The write of the init parameters, or of the path. *)
LEMMA InitWrites ==
  ASSUME block \in Blocks, hp \in Helpers, NEW step, InitWritten(step)
  PROVE  /\ Keeps(hp') /\ hp'.thread = hp.thread
         /\ hp'.allocs = hp.allocs /\ hp'.fakes = hp.fakes /\ hp'.calls = hp.calls
         /\ block' \in Blocks /\ block'.ready = block.ready /\ event' \in {event, hp.gen}
<1>1. \/ Hit /\ UNCHANGED <<hp, event>>
      \/ Handshake /\ hp' = [hp EXCEPT !.captured = @ \/ Context]
  BY Zenon DEF InitWritten
<1>2. CASE Hit /\ UNCHANGED <<hp, event>>
  BY <1>2, HitWrites DEF Keeps
<1>3. CASE Handshake /\ hp' = [hp EXCEPT !.captured = @ \/ Context]
  <2> DEFINE b == hp.captured \/ Context
  <2>1. b \in BOOLEAN
    BY Zenon
  <2>2. hp' = [hp EXCEPT !.captured = b]
    BY <1>3
  <2> HIDE DEF b
  <2>3. /\ Keeps(hp') /\ hp'.thread = hp.thread
        /\ hp'.allocs = hp.allocs /\ hp'.fakes = hp.fakes /\ hp'.calls = hp.calls
    BY <2>1, <2>2, HelperWrites, Zenon
  <2> QED
    BY <1>3, <2>3, HandshakeWrites
<1> QED
  BY <1>1, <1>2, <1>3

(* What serving a call may change, besides what the stubs remember. *)
Served ==
  /\ Keeps(hp')
  /\ main' \in Mains /\ main'.at \in {"enter", "ended"}
  /\ block' \in Blocks /\ block'.ready = block.ready
  /\ event' \in {event, hp.gen}
  /\ UNCHANGED <<wine, session, boot, init, watch, signaled>>
  /\ ghost' \in Ghosts /\ ghost'.stray = ghost.stray /\ ghost'.unread = ghost.unread

(* A call that the stubs serve keeps everything that is not about what they *)
(* know.                                                                    *)
LEMMA ServedKeeps ==
  ASSUME BootInv, hp.st = "running", boot.by # "main", Served
  PROVE  /\ BootTypeOK' /\ HelperOfSession' /\ NotRunning' /\ Prepares' /\ BootHeld'
         /\ ReadyIsOver' /\ ServesBound'
         /\ EventIsOwn' /\ WatchIsOwn' /\ ExitSignalIsOwn' /\ InitIsOwn'
<1>1. BootTypeOK'
  BY DEF BootInv, BootTypeOK, Served, Keeps, Helpers
<1>2. HelperOfSession' /\ NotRunning' /\ Prepares' /\ BootHeld'
  BY DEF BootInv, Served, Keeps, HelperOfSession, NotRunning, Prepares, BootHeld, Intercepted, Alive
<1>3. ReadyIsOver' /\ ServesBound'
  BY DEF BootInv, Served, Keeps, ReadyIsOver, BootOver, Context, ServesBound, Alive
<1>4. EventIsOwn' /\ InitIsOwn'
  BY DEF BootInv, Served, Keeps, EventIsOwn, InitIsOwn, HelperOfSession
<1>5. WatchIsOwn' /\ ExitSignalIsOwn'
  BY DEF BootInv, Served, Keeps, WatchIsOwn, ExitSignalIsOwn, Alive
<1> QED
  BY <1>1, <1>2, <1>3, <1>4, <1>5

--------------------------------------------------------------------------------
(* The start worker. *)

(* A session begins: no helper is left of the one before. *)
LEMMA BeginStartSafe ==
  ASSUME BootInv, BeginStart
  PROVE  BootInv'
<1>1. session \in Sessions
  BY DEF BootInv, BootTypeOK
<1>2. session' \in Sessions
  <2> DEFINE g == session.gen + 1
  <2>1. g \in 0 .. MaxStarts /\ 0 \in 0 .. MaxStarts
    BY <1>1, MaxStartsAssumption DEF Sessions, BeginStart
  <2>2. session' = [session EXCEPT !.pc = "start", !.gen = g, !.applied = 0]
    BY DEF BeginStart
  <2> HIDE DEF g
  <2> QED
    BY <1>1, <2>1, <2>2 DEF Sessions
<1>3. HelperOfSession'
  BY DEF BootInv, BootTypeOK, BeginStart, Alive, HelperOfSession, Spawned, Sessions, Helpers
<1>4. Prepares'
  BY DEF BootInv, BootTypeOK, BeginStart, Prepares, Alive, Spawned, HelperOfSession, NotRunning,
    Sessions, Helpers, Ghosts, Boots, NoBoot
<1>5. ReadyIsOver'
  BY DEF BootInv, BootTypeOK, BeginStart, ReadyIsOver, BootOver, Context, Alive, HelperOfSession,
    NotRunning, BootHeld, Prepares, Spawned, NoBlock, Ghosts, Helpers, Blocks, Sessions, Boots,
    NoBoot, Mains, Unstarted
<1>6. EventIsOwn' /\ InitIsOwn'
  BY DEF BootInv, BootTypeOK, BeginStart, EventIsOwn, HelperOfSession, Alive, Sessions, InitIsOwn
<1>7. UNCHANGED <<wine, block, event, hp, main, boot, init, watch, signaled, ghost>>
  BY DEF BeginStart
<1> QED
  BY <1>2, <1>3, <1>4, <1>5, <1>6, <1>7 DEF BootInv, BootTypeOK, NotRunning, BootHeld,
    ServesBound, Known, CallsCounted, WatchIsOwn, ExitSignalIsOwn, LaunchStaysInside,
    NothingForgotten, GameSurvives, Alive, Intercepted, Context, BootOver

(* A start refused before anything is spawned. *)
LEMMA StartRefusedSafe ==
  ASSUME BootInv, StartRefused
  PROVE  BootInv'
<1>1. session \in Sessions /\ block \in Blocks /\ hp \in Helpers
  BY DEF BootInv, BootTypeOK
<1>2. session' \in Sessions
  BY <1>1, MaxStartsAssumption DEF StartRefused, GoesTo, ResetHostSharedBlockForSession, Sessions
<1>3. block' \in Blocks
  BY <1>1, NoBlockIsBlock, Zenon DEF StartRefused, ResetHostSharedBlockForSession
<1>4. HelperOfSession'
  BY DEF BootInv, BootTypeOK, StartRefused, GoesTo, ResetHostSharedBlockForSession, Alive,
    HelperOfSession, Spawned, Sessions, Helpers
<1>5. Prepares'
  BY DEF BootInv, BootTypeOK, StartRefused, GoesTo, ResetHostSharedBlockForSession, Prepares,
    Alive, Spawned, HelperOfSession, NotRunning, Sessions, Helpers, Ghosts, Boots, NoBoot
<1>6. ReadyIsOver'
  BY DEF BootInv, BootTypeOK, StartRefused, GoesTo, ResetHostSharedBlockForSession, ReadyIsOver,
    BootOver, Context, Alive, HelperOfSession, NotRunning, BootHeld, Prepares, Spawned, NoBlock,
    Ghosts, Helpers, Blocks, Sessions, Boots, NoBoot, Mains, Unstarted
<1>7. EventIsOwn' /\ InitIsOwn'
  BY DEF BootInv, BootTypeOK, StartRefused, GoesTo, ResetHostSharedBlockForSession, EventIsOwn,
    HelperOfSession, Alive, Sessions, InitIsOwn
<1>8. UNCHANGED <<wine, event, hp, main, boot, init, watch, signaled, ghost>>
  BY DEF StartRefused
<1> QED
  BY <1>2, <1>3, <1>4, <1>5, <1>6, <1>7, <1>8 DEF BootInv, BootTypeOK, NotRunning, BootHeld,
    ServesBound, Known, CallsCounted, WatchIsOwn, ExitSignalIsOwn, LaunchStaysInside,
    NothingForgotten, GameSurvives, Alive, Intercepted, Context, BootOver

(* The earlier watcher is joined and its signal cleared before the helper *)
(* gets the number of this session.                                       *)
LEMMA SpawnSafe ==
  ASSUME BootInv, Spawn
  PROVE  BootInv'
<1>1. /\ session \in Sessions /\ block \in Blocks /\ hp \in Helpers /\ main \in Mains
      /\ boot \in Boots /\ init \in {"none", "starting", "running", "done"}
      /\ watch \subseteq Watchers /\ signaled \in 0 .. MaxStarts
  BY DEF BootInv, BootTypeOK
<1>2. session' \in Sessions
  BY <1>1, MaxStartsAssumption DEF Spawn, Alive, ResetHostSharedBlockForSession,
    CloseProcessHandle, GoesTo, StopPeerProcessExitWatch, Sessions
<1>3. block' \in Blocks
  BY NoBlockIsBlock, Zenon DEF Spawn, ResetHostSharedBlockForSession
<1>4. hp' \in Helpers
  BY <1>1, MaxStartsAssumption DEF Spawn, Alive, ResetHostSharedBlockForSession,
    CloseProcessHandle, GoesTo, StopPeerProcessExitWatch, Helpers, Spawned, Sessions
<1>5. main' \in Mains
  BY <1>1, MaxStartsAssumption DEF Spawn, Alive, ResetHostSharedBlockForSession,
    CloseProcessHandle, GoesTo, StopPeerProcessExitWatch, Mains, Steps, Unstarted
<1>6. boot' \in Boots
  BY <1>1, MaxStartsAssumption DEF Spawn, Alive, ResetHostSharedBlockForSession,
    CloseProcessHandle, GoesTo, StopPeerProcessExitWatch, Boots, NoBoot
<1>7. init' \in {"none", "starting", "running", "done"}
  BY <1>1, MaxStartsAssumption DEF Spawn, Alive, ResetHostSharedBlockForSession,
    CloseProcessHandle, GoesTo, StopPeerProcessExitWatch
<1>8. watch' \subseteq Watchers
  BY <1>1, MaxStartsAssumption DEF Spawn, Alive, ResetHostSharedBlockForSession,
    CloseProcessHandle, GoesTo, StopPeerProcessExitWatch, Watchers, Helpers, HelperOfSession,
    Sessions
<1>9. signaled' \in 0 .. MaxStarts
  BY <1>1, MaxStartsAssumption DEF Spawn, Alive, ResetHostSharedBlockForSession,
    CloseProcessHandle, GoesTo, StopPeerProcessExitWatch, Watchers
<1>10. HelperOfSession' /\ NotRunning'
  BY DEF BootInv, BootTypeOK, Spawn, Alive, ResetHostSharedBlockForSession, CloseProcessHandle,
    GoesTo, StopPeerProcessExitWatch, HelperOfSession, Spawned, Sessions, Helpers, NotRunning,
    Mains, Unstarted, Boots, NoBoot
<1>11. Prepares' /\ BootHeld'
  BY DEF BootInv, BootTypeOK, Spawn, Alive, ResetHostSharedBlockForSession, CloseProcessHandle,
    GoesTo, StopPeerProcessExitWatch, Prepares, Spawned, HelperOfSession, NotRunning, Sessions,
    Helpers, Ghosts, Boots, NoBoot, BootHeld, Intercepted, Mains, Unstarted
<1>12. ReadyIsOver' /\ ServesBound'
  BY DEF BootInv, BootTypeOK, Spawn, Alive, ResetHostSharedBlockForSession, CloseProcessHandle,
    GoesTo, StopPeerProcessExitWatch, ReadyIsOver, BootOver, Context, HelperOfSession, NotRunning,
    BootHeld, Prepares, Spawned, NoBlock, Ghosts, Helpers, Blocks, Sessions, Boots, NoBoot, Mains,
    Unstarted, ServesBound
<1>13. Known' /\ CallsCounted'
  BY DEF BootInv, BootTypeOK, Spawn, Alive, ResetHostSharedBlockForSession, CloseProcessHandle,
    GoesTo, StopPeerProcessExitWatch, Known, ReadyIsOver, BootOver, NotRunning, CallsCounted,
    Steps, Ghosts, Helpers, Mains, Unstarted, Spawned
<1>14. EventIsOwn' /\ InitIsOwn'
  BY DEF BootInv, BootTypeOK, Spawn, Alive, ResetHostSharedBlockForSession, CloseProcessHandle,
    GoesTo, StopPeerProcessExitWatch, EventIsOwn, HelperOfSession, Sessions, InitIsOwn
<1>15. WatchIsOwn' /\ ExitSignalIsOwn'
  BY DEF BootInv, BootTypeOK, Spawn, Alive, ResetHostSharedBlockForSession, CloseProcessHandle,
    GoesTo, StopPeerProcessExitWatch, WatchIsOwn, Spawned, Watchers, Helpers, ExitSignalIsOwn,
    HelperOfSession
<1>16. UNCHANGED <<wine, event, ghost>>
  BY DEF Spawn
<1> QED
  BY <1>2, <1>3, <1>4, <1>5, <1>6, <1>7, <1>8, <1>9, <1>10, <1>11, <1>12, <1>13, <1>14, <1>15,
    <1>16 DEF BootInv, BootTypeOK, LaunchStaysInside, NothingForgotten, GameSurvives, BootOver,
    Alive, Context

(* The injection begins. *)
LEMMA InjectSelfSafe ==
  ASSUME BootInv, InjectSelf
  PROVE  BootInv'
<1>1. session \in Sessions /\ hp \in Helpers
  BY DEF BootInv, BootTypeOK
<1>2. session' \in Sessions
  BY <1>1, MaxStartsAssumption DEF InjectSelf, GoesTo, Sessions
<1>3. hp' \in Helpers
  BY <1>1, MaxStartsAssumption DEF InjectSelf, GoesTo, Helpers, Spawned, Sessions, Alive
<1>4. HelperOfSession' /\ NotRunning'
  BY DEF BootInv, BootTypeOK, InjectSelf, GoesTo, Alive, HelperOfSession, Spawned, Sessions,
    Helpers, NotRunning, Mains, Unstarted, Boots, NoBoot
<1>5. Prepares'
  <2>1. /\ session.pc = "inject" /\ session'.pc = "loading"
        /\ hp'.dll = "loading" /\ hp'.st = "suspended"
    BY <1>1 DEF InjectSelf, GoesTo, Sessions, Helpers
  <2>2. UNCHANGED <<init, boot>> /\ init = "none" /\ boot = NoBoot
    BY <2>1 DEF InjectSelf, BootInv, Prepares, Alive
  <2> QED
    BY <2>1, <2>2 DEF Prepares
<1>6. BootHeld'
  BY DEF BootInv, BootTypeOK, InjectSelf, GoesTo, BootHeld, Intercepted, NotRunning,
    HelperOfSession, Alive, Prepares, Spawned, Boots, NoBoot, Mains, Unstarted, Helpers
<1>7. ReadyIsOver' /\ ServesBound'
  BY DEF BootInv, BootTypeOK, InjectSelf, GoesTo, ReadyIsOver, BootOver, Context, Alive,
    HelperOfSession, NotRunning, BootHeld, Prepares, Spawned, NoBlock, Ghosts, Helpers, Blocks,
    Sessions, Boots, NoBoot, Mains, Unstarted, ServesBound
<1>8. Known' /\ CallsCounted'
  BY DEF BootInv, BootTypeOK, InjectSelf, GoesTo, Known, ReadyIsOver, BootOver, Alive, NotRunning,
    CallsCounted, Steps, Ghosts, Helpers, Mains, Unstarted, Spawned
<1>9. EventIsOwn' /\ InitIsOwn'
  BY DEF BootInv, BootTypeOK, InjectSelf, GoesTo, EventIsOwn, HelperOfSession, Alive, Sessions,
    InitIsOwn
<1>10. WatchIsOwn' /\ ExitSignalIsOwn'
  BY DEF BootInv, BootTypeOK, InjectSelf, GoesTo, WatchIsOwn, Alive, Spawned, Watchers, Helpers,
    ExitSignalIsOwn, HelperOfSession
<1>11. UNCHANGED <<wine, block, event, main, boot, init, watch, signaled, ghost>>
  BY DEF InjectSelf
<1> QED
  BY <1>2, <1>3, <1>4, <1>5, <1>6, <1>7, <1>8, <1>9, <1>10, <1>11 DEF BootInv, BootTypeOK,
    LaunchStaysInside, NothingForgotten, GameSurvives, BootOver, Alive, Context

(* A failed injection takes the helper with it. *)
LEMMA InjectFailsSafe ==
  ASSUME BootInv, InjectFails
  PROVE  BootInv'
<1>1. /\ TerminateProcess /\ GoesTo("over") /\ session.pc # "idle"
      /\ UNCHANGED <<wine, block, event, ghost>> /\ UNCHANGED <<watch, signaled>>
  BY DEF InjectFails, AbandonHelper
<1> QED
  BY <1>1, HelperGone DEF BootInv, BootTypeOK

(* The injection is over: the DLL is loaded. *)
LEMMA InjectDoneSafe ==
  ASSUME BootInv, InjectDone
  PROVE  BootInv'
<1>1. session \in Sessions
  BY DEF BootInv, BootTypeOK
<1>2. session' \in Sessions
  BY <1>1, MaxStartsAssumption DEF InjectDone, GoesTo, Sessions
<1>3. HelperOfSession'
  BY DEF BootInv, BootTypeOK, InjectDone, GoesTo, Alive, HelperOfSession, Spawned, Sessions, Helpers
<1>4. Prepares'
  BY DEF BootInv, BootTypeOK, InjectDone, GoesTo, Prepares, Alive, Spawned, HelperOfSession,
    NotRunning, Sessions, Helpers, Ghosts, Boots, NoBoot
<1>5. ReadyIsOver'
  BY DEF BootInv, BootTypeOK, InjectDone, GoesTo, ReadyIsOver, BootOver, Context, Alive,
    HelperOfSession, NotRunning, BootHeld, Prepares, Spawned, NoBlock, Ghosts, Helpers, Blocks,
    Sessions, Boots, NoBoot, Mains, Unstarted
<1>6. EventIsOwn' /\ InitIsOwn'
  BY DEF BootInv, BootTypeOK, InjectDone, GoesTo, EventIsOwn, HelperOfSession, Alive, Sessions,
    InitIsOwn
<1>7. UNCHANGED <<wine, block, event, hp, main, boot, init, watch, signaled, ghost>>
  BY DEF InjectDone
<1> QED
  BY <1>2, <1>3, <1>4, <1>5, <1>6, <1>7 DEF BootInv, BootTypeOK, NotRunning, BootHeld,
    ServesBound, Known, CallsCounted, WatchIsOwn, ExitSignalIsOwn, LaunchStaysInside,
    NothingForgotten, GameSurvives, Alive, Intercepted, Context, BootOver

(* The imports are redirected, or the unread one is remembered. *)
LEMMA PatchIatSafe ==
  ASSUME BootInv, PatchIat
  PROVE  BootInv'
<1>1. session \in Sessions /\ hp \in Helpers /\ ghost \in Ghosts
  BY DEF BootInv, BootTypeOK
<1>2. session' \in Sessions
  BY <1>1, MaxStartsAssumption DEF PatchIat, Alive, GoesTo, Sessions, Better, PatchIatModule
<1>3. hp' \in Helpers
  BY <1>1, MaxStartsAssumption DEF PatchIat, Alive, GoesTo, Helpers, Spawned, Sessions, Better,
    PatchIatModule
<1>4. ghost' \in Ghosts
  BY <1>1, MaxStartsAssumption DEF PatchIat, Alive, GoesTo, Ghosts, Better, PatchIatModule
<1>5. HelperOfSession' /\ NotRunning'
  BY DEF BootInv, BootTypeOK, PatchIat, Alive, GoesTo, HelperOfSession, Spawned, Sessions,
    Helpers, NotRunning, Mains, Unstarted, Boots, NoBoot, Better, PatchIatModule
<1>6. Prepares' /\ BootHeld'
  <2>1. PICK got \in PatchIatModule :
          /\ hp' = [hp EXCEPT !.patched = Better(@, got)]
          /\ ghost' = [ghost EXCEPT !.unread = @ \/ Better(hp.patched, got) # "all"]
    BY DEF PatchIat
  <2>2. /\ hp'.st = hp.st /\ hp'.dll = hp.dll /\ hp'.bound = hp.bound
        /\ hp'.patched = Better(hp.patched, got)
    BY <1>1, <2>1 DEF Helpers
  <2>3. hp'.patched # "all" => ghost'.unread
    BY <1>1, <2>1, <2>2 DEF Ghosts
  <2>4. /\ session.pc = "patch" /\ session'.pc = "payload" /\ Alive
        /\ UNCHANGED <<main, boot, init>>
    BY <1>1 DEF PatchIat, GoesTo, Sessions
  <2>5. hp.dll = "yes" /\ (Intercepted => Intercepted')
    BY <2>2, <2>4 DEF BootInv, Prepares, Intercepted, Better
  <2>6. Prepares'
    BY <2>2, <2>3, <2>4, <2>5 DEF Prepares
  <2>7. BootHeld'
    BY <2>2, <2>4, <2>5 DEF BootInv, BootHeld
  <2> QED
    BY <2>6, <2>7
<1>7. ReadyIsOver' /\ ServesBound'
  BY DEF BootInv, BootTypeOK, PatchIat, Alive, GoesTo, ReadyIsOver, BootOver, Context,
    HelperOfSession, NotRunning, BootHeld, Prepares, Spawned, NoBlock, Ghosts, Helpers, Blocks,
    Sessions, Boots, NoBoot, Mains, Unstarted, ServesBound, Better, PatchIatModule
<1>8. Known' /\ CallsCounted'
  BY DEF BootInv, BootTypeOK, PatchIat, Alive, GoesTo, Known, ReadyIsOver, BootOver, NotRunning,
    CallsCounted, Steps, Ghosts, Helpers, Mains, Unstarted, Spawned, Better, PatchIatModule
<1>9. EventIsOwn' /\ InitIsOwn'
  BY DEF BootInv, BootTypeOK, PatchIat, Alive, GoesTo, EventIsOwn, HelperOfSession, Sessions,
    InitIsOwn, Better, PatchIatModule
<1>10. WatchIsOwn' /\ ExitSignalIsOwn'
  BY DEF BootInv, BootTypeOK, PatchIat, Alive, GoesTo, WatchIsOwn, Spawned, Watchers, Helpers,
    ExitSignalIsOwn, HelperOfSession, Better, PatchIatModule
<1>11. LaunchStaysInside' /\ NothingForgotten' /\ GameSurvives'
  BY DEF BootInv, BootTypeOK, PatchIat, Alive, GoesTo, LaunchStaysInside, Prepares, ReadyIsOver,
    BootOver, HelperOfSession, Context, Ghosts, NothingForgotten, Known, GameSurvives,
    ServesBound, Better, PatchIatModule
<1>12. UNCHANGED <<wine, block, event, main, boot, init, watch, signaled>>
  BY DEF PatchIat
<1> QED
  BY <1>2, <1>3, <1>4, <1>5, <1>6, <1>7, <1>8, <1>9, <1>10, <1>11, <1>12 DEF BootInv, BootTypeOK

(* A failed redirection takes the helper with it. *)
LEMMA PatchFailsSafe ==
  ASSUME BootInv, PatchFails
  PROVE  BootInv'
<1>1. /\ TerminateProcess /\ GoesTo("over") /\ session.pc # "idle"
      /\ UNCHANGED <<wine, block, event, ghost>> /\ UNCHANGED <<watch, signaled>>
  BY DEF PatchFails, AbandonHelper
<1> QED
  BY <1>1, HelperGone DEF BootInv, BootTypeOK

(* The event is reset: none of an earlier session is left set. *)
LEMMA PayloadSafe ==
  ASSUME BootInv, Payload
  PROVE  BootInv'
<1>1. session \in Sessions /\ block \in Blocks /\ event \in 0 .. MaxStarts /\ hp \in Helpers
  BY DEF BootInv, BootTypeOK
<1>2. session' \in Sessions
  <2>1. 0 \in 0 .. MaxStarts
    BY MaxStartsAssumption
  <2> QED
    BY <1>1, <2>1 DEF Payload, Sessions
<1>3. block' \in Blocks
  <2>1. 0 \in 0 .. MaxStarts
    BY MaxStartsAssumption
  <2> QED
    BY <1>1, <2>1, BlockWrites, Zenon DEF Payload
<1>4. event' \in 0 .. MaxStarts
  BY <1>1, MaxStartsAssumption DEF Payload, ResetEvents, Helpers, Sessions
<1>5. HelperOfSession'
  BY DEF BootInv, BootTypeOK, Payload, ResetEvents, Alive, HelperOfSession, Spawned, Sessions,
    Helpers
<1>6. Prepares'
  BY DEF BootInv, BootTypeOK, Payload, ResetEvents, Prepares, Alive, Spawned, HelperOfSession,
    NotRunning, Sessions, Helpers, Ghosts, Boots, NoBoot
<1>7. ReadyIsOver'
  BY DEF BootInv, BootTypeOK, Payload, ResetEvents, ReadyIsOver, BootOver, Context, Alive,
    HelperOfSession, NotRunning, BootHeld, Prepares, Spawned, NoBlock, Ghosts, Helpers, Blocks,
    Sessions, Boots, NoBoot, Mains, Unstarted
<1>8. EventIsOwn' /\ InitIsOwn'
  BY DEF BootInv, BootTypeOK, Payload, ResetEvents, EventIsOwn, HelperOfSession, Alive, Sessions,
    InitIsOwn
<1>9. UNCHANGED <<wine, hp, main, boot, init, watch, signaled, ghost>>
  BY DEF Payload
<1> QED
  BY <1>2, <1>3, <1>4, <1>5, <1>6, <1>7, <1>8, <1>9 DEF BootInv, BootTypeOK, NotRunning, BootHeld,
    ServesBound, Known, CallsCounted, WatchIsOwn, ExitSignalIsOwn, LaunchStaysInside,
    NothingForgotten, GameSurvives, Alive, Intercepted, Context, BootOver

(* The readiness that ends the wait is that of this helper, or a stray. *)
LEMMA WaitOverSafe ==
  ASSUME BootInv, WaitOver
  PROVE  BootInv'
<1>1. session \in Sessions
  BY DEF BootInv, BootTypeOK
<1>2. session' \in Sessions
  BY <1>1, MaxStartsAssumption DEF WaitOver, GoesTo, Sessions
<1>3. HelperOfSession'
  BY DEF BootInv, BootTypeOK, WaitOver, GoesTo, Alive, HelperOfSession, Spawned, Sessions, Helpers
<1>4. Prepares'
  BY DEF BootInv, BootTypeOK, WaitOver, GoesTo, Prepares, Alive, Spawned, HelperOfSession,
    NotRunning, Sessions, Helpers, Ghosts, Boots, NoBoot
<1>5. ReadyIsOver'
  BY DEF BootInv, BootTypeOK, WaitOver, GoesTo, ReadyIsOver, BootOver, Context, Alive,
    HelperOfSession, NotRunning, BootHeld, Prepares, Spawned, NoBlock, Ghosts, Helpers, Blocks,
    Sessions, Boots, NoBoot, Mains, Unstarted
<1>6. EventIsOwn' /\ InitIsOwn'
  BY DEF BootInv, BootTypeOK, WaitOver, GoesTo, EventIsOwn, HelperOfSession, Alive, Sessions,
    InitIsOwn
<1>7. UNCHANGED <<wine, block, event, hp, main, boot, init, watch, signaled, ghost>>
  BY DEF WaitOver
<1> QED
  BY <1>2, <1>3, <1>4, <1>5, <1>6, <1>7 DEF BootInv, BootTypeOK, NotRunning, BootHeld,
    ServesBound, Known, CallsCounted, WatchIsOwn, ExitSignalIsOwn, LaunchStaysInside,
    NothingForgotten, GameSurvives, Alive, Intercepted, Context, BootOver

(* A wait that failed takes the helper with it. *)
LEMMA WaitFailsSafe ==
  ASSUME BootInv, WaitFails
  PROVE  BootInv'
<1>1. /\ TerminateProcess /\ GoesTo("over") /\ session.pc # "idle"
      /\ UNCHANGED <<wine, block, event, ghost>> /\ UNCHANGED <<watch, signaled>>
  BY DEF WaitFails, AbandonHelper
<1> QED
  BY <1>1, HelperGone DEF BootInv, BootTypeOK

(* The main thread runs; the initialization is over, but for a stray. *)
LEMMA ResumeSafe ==
  ASSUME BootInv, Resume
  PROVE  BootInv'
<1>1. session \in Sessions /\ hp \in Helpers
  BY DEF BootInv, BootTypeOK
<1>2. session' \in Sessions
  BY <1>1, MaxStartsAssumption DEF Resume, Alive, GoesTo, Sessions
<1>3. hp' \in Helpers
  BY <1>1, MaxStartsAssumption DEF Resume, Alive, GoesTo, Helpers, Spawned, Sessions
<1>4. HelperOfSession' /\ NotRunning'
  BY DEF BootInv, BootTypeOK, Resume, Alive, GoesTo, HelperOfSession, Spawned, Sessions, Helpers,
    NotRunning, Mains, Unstarted, Boots, NoBoot
<1>5. Prepares' /\ BootHeld'
  BY DEF BootInv, BootTypeOK, Resume, Alive, GoesTo, Prepares, Spawned, HelperOfSession,
    NotRunning, Sessions, Helpers, Ghosts, Boots, NoBoot, BootHeld, Intercepted, Mains, Unstarted
<1>6. ReadyIsOver' /\ ServesBound'
  BY DEF BootInv, BootTypeOK, Resume, Alive, GoesTo, ReadyIsOver, BootOver, Context,
    HelperOfSession, NotRunning, BootHeld, Prepares, Spawned, NoBlock, Ghosts, Helpers, Blocks,
    Sessions, Boots, NoBoot, Mains, Unstarted, ServesBound
<1>7. Known' /\ CallsCounted'
  BY DEF BootInv, BootTypeOK, Resume, Alive, GoesTo, Known, ReadyIsOver, BootOver, NotRunning,
    CallsCounted, Steps, Ghosts, Helpers, Mains, Unstarted, Spawned
<1>8. EventIsOwn' /\ InitIsOwn'
  BY DEF BootInv, BootTypeOK, Resume, Alive, GoesTo, EventIsOwn, HelperOfSession, Sessions,
    InitIsOwn
<1>9. WatchIsOwn' /\ ExitSignalIsOwn'
  BY DEF BootInv, BootTypeOK, Resume, Alive, GoesTo, WatchIsOwn, Spawned, Watchers, Helpers,
    ExitSignalIsOwn, HelperOfSession
<1>10. UNCHANGED <<wine, block, event, main, boot, init, watch, signaled, ghost>>
  BY DEF Resume
<1> QED
  BY <1>2, <1>3, <1>4, <1>5, <1>6, <1>7, <1>8, <1>9, <1>10 DEF BootInv, BootTypeOK,
    LaunchStaysInside, NothingForgotten, GameSurvives, BootOver, Alive, Context

(* A failed resume takes the helper with it. *)
LEMMA ResumeFailsSafe ==
  ASSUME BootInv, ResumeFails
  PROVE  BootInv'
<1>1. /\ TerminateProcess /\ GoesTo("over") /\ session.pc # "idle"
      /\ UNCHANGED <<wine, block, event, ghost>> /\ UNCHANGED <<watch, signaled>>
  BY DEF ResumeFails, AbandonHelper
<1> QED
  BY <1>1, HelperGone DEF BootInv, BootTypeOK

(* The watcher is about the helper of this session. *)
LEMMA StartPeerProcessExitWatchSafe ==
  ASSUME BootInv, StartPeerProcessExitWatch
  PROVE  BootInv'
<1>1. /\ session \in Sessions /\ watch \subseteq Watchers /\ signaled \in 0 .. MaxStarts
      /\ hp \in Helpers
  BY DEF BootInv, BootTypeOK
<1>2. session' \in Sessions
  BY <1>1, MaxStartsAssumption DEF StartPeerProcessExitWatch, GoesTo, Sessions
<1>3. watch' \subseteq Watchers
  <2>1. hp.gen \in 1 .. MaxStarts
    BY <1>1 DEF StartPeerProcessExitWatch, BootInv, HelperOfSession, Sessions, Helpers
  <2> QED
    BY <1>1, <2>1 DEF StartPeerProcessExitWatch, Watchers
<1>4. signaled' \in 0 .. MaxStarts
  BY <1>1, MaxStartsAssumption DEF StartPeerProcessExitWatch, GoesTo, Watchers
<1>5. HelperOfSession'
  BY DEF BootInv, BootTypeOK, StartPeerProcessExitWatch, GoesTo, Alive, HelperOfSession, Spawned,
    Sessions, Helpers
<1>6. Prepares'
  BY DEF BootInv, BootTypeOK, StartPeerProcessExitWatch, GoesTo, Prepares, Alive, Spawned,
    HelperOfSession, NotRunning, Sessions, Helpers, Ghosts, Boots, NoBoot
<1>7. ReadyIsOver'
  BY DEF BootInv, BootTypeOK, StartPeerProcessExitWatch, GoesTo, ReadyIsOver, BootOver, Context,
    Alive, HelperOfSession, NotRunning, BootHeld, Prepares, Spawned, NoBlock, Ghosts, Helpers,
    Blocks, Sessions, Boots, NoBoot, Mains, Unstarted
<1>8. EventIsOwn' /\ InitIsOwn'
  BY DEF BootInv, BootTypeOK, StartPeerProcessExitWatch, GoesTo, EventIsOwn, HelperOfSession,
    Alive, Sessions, InitIsOwn
<1>9. WatchIsOwn' /\ ExitSignalIsOwn'
  BY DEF BootInv, BootTypeOK, StartPeerProcessExitWatch, GoesTo, WatchIsOwn, Alive, Spawned,
    Watchers, Helpers, ExitSignalIsOwn, HelperOfSession
<1>10. UNCHANGED <<wine, block, event, hp, main, boot, init, ghost>>
  BY DEF StartPeerProcessExitWatch
<1> QED
  BY <1>2, <1>3, <1>4, <1>5, <1>6, <1>7, <1>8, <1>9, <1>10 DEF BootInv, BootTypeOK, NotRunning,
    BootHeld, ServesBound, Known, CallsCounted, LaunchStaysInside, NothingForgotten, GameSurvives,
    Alive, Intercepted, Context, BootOver

(* A failed watch takes the helper with it. *)
LEMMA WatchFailsSafe ==
  ASSUME BootInv, WatchFails
  PROVE  BootInv'
<1>1. /\ TerminateProcess /\ GoesTo("over") /\ session.pc # "idle"
      /\ UNCHANGED <<wine, block, event, ghost>> /\ StopPeerProcessExitWatch
  BY DEF WatchFails, AbandonHelper, CloseProcessHandle
<1> QED
  BY <1>1, HelperGone DEF BootInv, BootTypeOK

--------------------------------------------------------------------------------
(* The game afterwards. *)

(* The imports are redirected again. *)
LEMMA LatePatchSafe ==
  ASSUME BootInv, LatePatch
  PROVE  BootInv'
<1>1. hp \in Helpers /\ session \in Sessions
  BY DEF BootInv, BootTypeOK
<1>2. hp' \in Helpers
  BY <1>1, MaxStartsAssumption DEF LatePatch, Alive, Helpers, Spawned, Sessions
<1>3. HelperOfSession' /\ NotRunning'
  BY DEF BootInv, BootTypeOK, LatePatch, Alive, HelperOfSession, Spawned, Sessions, Helpers,
    NotRunning, Mains, Unstarted, Boots, NoBoot
<1>4. Prepares' /\ BootHeld'
  BY DEF BootInv, BootTypeOK, LatePatch, Alive, Prepares, Spawned, HelperOfSession, NotRunning,
    Sessions, Helpers, Ghosts, Boots, NoBoot, BootHeld, Intercepted, Mains, Unstarted
<1>5. ReadyIsOver' /\ ServesBound'
  BY DEF BootInv, BootTypeOK, LatePatch, Alive, ReadyIsOver, BootOver, Context, HelperOfSession,
    NotRunning, BootHeld, Prepares, Spawned, NoBlock, Ghosts, Helpers, Blocks, Sessions, Boots,
    NoBoot, Mains, Unstarted, ServesBound
<1>6. Known' /\ CallsCounted'
  BY DEF BootInv, BootTypeOK, LatePatch, Alive, Known, ReadyIsOver, BootOver, NotRunning,
    CallsCounted, Steps, Ghosts, Helpers, Mains, Unstarted, Spawned
<1>7. WatchIsOwn' /\ ExitSignalIsOwn'
  BY DEF BootInv, BootTypeOK, LatePatch, Alive, WatchIsOwn, Spawned, Watchers, Helpers,
    ExitSignalIsOwn, HelperOfSession
<1>8. UNCHANGED <<wine, session, block, event, main, boot, init, watch, signaled, ghost>>
  BY DEF LatePatch
<1> QED
  BY <1>2, <1>3, <1>4, <1>5, <1>6, <1>7, <1>8 DEF BootInv, BootTypeOK, EventIsOwn, InitIsOwn,
    LaunchStaysInside, NothingForgotten, GameSurvives, Alive, BootOver, Context

(* The event that is taken is the one of this session. *)
LEMMA TickTakesInitSafe ==
  ASSUME BootInv, TickTakesInit
  PROVE  BootInv'
<1>1. session \in Sessions /\ event \in 0 .. MaxStarts /\ hp \in Helpers
  BY DEF BootInv, BootTypeOK
<1>2. session' \in Sessions
  BY <1>1, MaxStartsAssumption DEF TickTakesInit, Sessions
<1>3. event' \in 0 .. MaxStarts
  BY <1>1, MaxStartsAssumption DEF TickTakesInit, Helpers, Sessions
<1>4. HelperOfSession'
  BY DEF BootInv, BootTypeOK, TickTakesInit, Alive, HelperOfSession, Spawned, Sessions, Helpers
<1>5. Prepares'
  BY DEF BootInv, BootTypeOK, TickTakesInit, Prepares, Alive, Spawned, HelperOfSession,
    NotRunning, Sessions, Helpers, Ghosts, Boots, NoBoot
<1>6. ReadyIsOver'
  BY DEF BootInv, BootTypeOK, TickTakesInit, ReadyIsOver, BootOver, Context, Alive,
    HelperOfSession, NotRunning, BootHeld, Prepares, Spawned, NoBlock, Ghosts, Helpers, Blocks,
    Sessions, Boots, NoBoot, Mains, Unstarted
<1>7. EventIsOwn' /\ InitIsOwn'
  BY DEF BootInv, BootTypeOK, TickTakesInit, EventIsOwn, HelperOfSession, Alive, Sessions, InitIsOwn
<1>8. UNCHANGED <<wine, block, hp, main, boot, init, watch, signaled, ghost>>
  BY DEF TickTakesInit
<1> QED
  BY <1>2, <1>3, <1>4, <1>5, <1>6, <1>7, <1>8 DEF BootInv, BootTypeOK, NotRunning, BootHeld,
    ServesBound, Known, CallsCounted, WatchIsOwn, ExitSignalIsOwn, LaunchStaysInside,
    NothingForgotten, GameSurvives, Alive, Intercepted, Context, BootOver

(* The session ends with its helper. *)
LEMMA EndsSafe ==
  ASSUME BootInv, Ends
  PROVE  BootInv'
<1>1. /\ TerminateProcess /\ GoesTo("over") /\ session.pc # "idle"
      /\ UNCHANGED <<wine, block, event, ghost>> /\ StopPeerProcessExitWatch
  BY DEF Ends, AbandonHelper, CloseProcessHandle
<1> QED
  BY <1>1, HelperGone DEF BootInv, BootTypeOK

(* A watcher wakes when its helper has ended. *)
LEMMA WatchWakesSafe ==
  ASSUME BootInv, NEW w \in watch, WatchWakes(w)
  PROVE  BootInv'
<1>1. watch \subseteq Watchers /\ hp \in Helpers /\ session \in Sessions
  BY DEF BootInv, BootTypeOK
<1>2. watch' \subseteq Watchers
  BY <1>1, MaxStartsAssumption DEF WatchWakes, Alive, Watchers, Helpers, HelperOfSession, Sessions
<1>3. WatchIsOwn'
  BY DEF BootInv, BootTypeOK, WatchWakes, Alive, WatchIsOwn, Spawned, Watchers, Helpers
<1>4. UNCHANGED <<wine, session, block, event, hp, main, boot, init, signaled, ghost>>
  BY DEF WatchWakes
<1> QED
  BY <1>2, <1>3, <1>4 DEF BootInv, BootTypeOK, HelperOfSession, NotRunning, Prepares, BootHeld,
    ReadyIsOver, ServesBound, Known, CallsCounted, EventIsOwn, InitIsOwn, ExitSignalIsOwn,
    LaunchStaysInside, NothingForgotten, GameSurvives, Alive, Intercepted, BootOver, Context

(* It stores the signal about that helper, before another is spawned. *)
LEMMA WatchStoresSafe ==
  ASSUME BootInv, NEW w \in watch, WatchStores(w)
  PROVE  BootInv'
<1>1. /\ watch \subseteq Watchers /\ signaled \in 0 .. MaxStarts /\ hp \in Helpers
      /\ session \in Sessions
  BY DEF BootInv, BootTypeOK
<1>2. watch' \subseteq Watchers
  BY <1>1, MaxStartsAssumption DEF WatchStores, Watchers, Helpers, HelperOfSession, Sessions
<1>3. signaled' \in 0 .. MaxStarts
  BY <1>1, MaxStartsAssumption DEF WatchStores, Watchers
<1>4. WatchIsOwn' /\ ExitSignalIsOwn'
  BY DEF BootInv, BootTypeOK, WatchStores, WatchIsOwn, Alive, Spawned, Watchers, Helpers,
    ExitSignalIsOwn, HelperOfSession
<1>5. UNCHANGED <<wine, session, block, event, hp, main, boot, init, ghost>>
  BY DEF WatchStores
<1> QED
  BY <1>2, <1>3, <1>4, <1>5 DEF BootInv, BootTypeOK, HelperOfSession, NotRunning, Prepares,
    BootHeld, ReadyIsOver, ServesBound, Known, CallsCounted, EventIsOwn, InitIsOwn,
    LaunchStaysInside, NothingForgotten, GameSurvives, Alive, Intercepted, BootOver, Context

--------------------------------------------------------------------------------
(* The mod in the helper. *)

(* The mod is loaded; its thread starts or not. *)
LEMMA DllMainSafe ==
  ASSUME BootInv, DllMain
  PROVE  BootInv'
<1>1. hp \in Helpers /\ init \in {"none", "starting", "running", "done"} /\ session \in Sessions
  BY DEF BootInv, BootTypeOK
<1>2. hp' \in Helpers
  BY <1>1, MaxStartsAssumption DEF DllMain, Alive, SelfPatchIat, Helpers, Spawned, Sessions
<1>3. init' \in {"none", "starting", "running", "done"}
  BY <1>1, MaxStartsAssumption DEF DllMain, Alive, SelfPatchIat
<1>4. HelperOfSession' /\ NotRunning'
  BY DEF BootInv, BootTypeOK, DllMain, Alive, SelfPatchIat, HelperOfSession, Spawned, Sessions,
    Helpers, NotRunning, Mains, Unstarted, Boots, NoBoot
<1>5. Prepares' /\ BootHeld'
  BY DEF BootInv, BootTypeOK, DllMain, Alive, SelfPatchIat, Prepares, Spawned, HelperOfSession,
    NotRunning, Sessions, Helpers, Ghosts, Boots, NoBoot, BootHeld, Intercepted, Mains, Unstarted
<1>6. ReadyIsOver' /\ ServesBound'
  BY DEF BootInv, BootTypeOK, DllMain, Alive, SelfPatchIat, ReadyIsOver, BootOver, Context,
    HelperOfSession, NotRunning, BootHeld, Prepares, Spawned, NoBlock, Ghosts, Helpers, Blocks,
    Sessions, Boots, NoBoot, Mains, Unstarted, ServesBound
<1>7. Known' /\ CallsCounted'
  BY DEF BootInv, BootTypeOK, DllMain, Alive, SelfPatchIat, Known, ReadyIsOver, BootOver,
    NotRunning, CallsCounted, Steps, Ghosts, Helpers, Mains, Unstarted, Spawned
<1>8. WatchIsOwn' /\ ExitSignalIsOwn'
  BY DEF BootInv, BootTypeOK, DllMain, Alive, SelfPatchIat, WatchIsOwn, Spawned, Watchers,
    Helpers, ExitSignalIsOwn, HelperOfSession
<1>9. UNCHANGED <<wine, session, block, event, main, boot, watch, signaled, ghost>>
  BY DEF DllMain
<1> QED
  BY <1>2, <1>3, <1>4, <1>5, <1>6, <1>7, <1>8, <1>9 DEF BootInv, BootTypeOK, EventIsOwn,
    InitIsOwn, LaunchStaysInside, NothingForgotten, GameSurvives, Alive, BootOver, Context

(* The thread takes the mutex of the initialization. *)
LEMMA InitThreadEntersSafe ==
  ASSUME BootInv, InitThreadEnters
  PROVE  BootInv'
<1>1. boot \in Boots /\ init \in {"none", "starting", "running", "done"}
  BY DEF BootInv, BootTypeOK
<1>2. boot' \in Boots
  BY <1>1, MaxStartsAssumption DEF InitThreadEnters, Alive, Enter, Boots, NoBoot
<1>3. init' \in {"none", "starting", "running", "done"}
  BY <1>1, MaxStartsAssumption DEF InitThreadEnters, Alive, Enter
<1>4. NotRunning'
  BY DEF BootInv, BootTypeOK, InitThreadEnters, Alive, Enter, NotRunning, Spawned,
    HelperOfSession, Helpers, Mains, Unstarted, Boots, NoBoot
<1>5. Prepares' /\ BootHeld'
  BY DEF BootInv, BootTypeOK, InitThreadEnters, Alive, Enter, Prepares, Spawned, HelperOfSession,
    NotRunning, Sessions, Helpers, Ghosts, Boots, NoBoot, BootHeld, Intercepted, Mains, Unstarted
<1>6. ReadyIsOver'
  BY DEF BootInv, BootTypeOK, InitThreadEnters, Alive, Enter, ReadyIsOver, BootOver, Context,
    HelperOfSession, NotRunning, BootHeld, Prepares, Spawned, NoBlock, Ghosts, Helpers, Blocks,
    Sessions, Boots, NoBoot, Mains, Unstarted
<1>7. UNCHANGED <<wine, session, block, event, hp, main, watch, signaled, ghost>>
  BY DEF InitThreadEnters
<1> QED
  BY <1>2, <1>3, <1>4, <1>5, <1>6, <1>7 DEF BootInv, BootTypeOK, HelperOfSession, ServesBound,
    Known, CallsCounted, EventIsOwn, InitIsOwn, WatchIsOwn, ExitSignalIsOwn, LaunchStaysInside,
    NothingForgotten, GameSurvives, Alive, Context, BootOver

(* What the stubs keep is forgotten: before the main thread runs, but for a *)
(* stray.                                                                   *)
LEMMA InitOpensSafe ==
  ASSUME BootInv, InitOpens
  PROVE  BootInv'
<1>1. hp \in Helpers /\ boot \in Boots /\ session \in Sessions
  BY DEF BootInv, BootTypeOK
<1>2. hp' \in Helpers
  BY <1>1, OpenedHelper
<1>3. boot' \in Boots
  BY <1>1, MaxStartsAssumption DEF InitOpens, ClearFakeThreads, Boots, NoBoot
<1>4. HelperOfSession' /\ NotRunning'
  BY DEF BootInv, BootTypeOK, InitOpens, ClearFakeThreads, Alive, HelperOfSession, Spawned,
    Sessions, Helpers, NotRunning, Mains, Unstarted, Boots, NoBoot
<1>5. Prepares' /\ BootHeld'
  BY DEF BootInv, BootTypeOK, InitOpens, ClearFakeThreads, Prepares, Alive, Spawned,
    HelperOfSession, NotRunning, Sessions, Helpers, Ghosts, Boots, NoBoot, BootHeld, Intercepted,
    Mains, Unstarted
<1>6. ReadyIsOver' /\ ServesBound'
  BY DEF BootInv, BootTypeOK, InitOpens, ClearFakeThreads, ReadyIsOver, BootOver, Context, Alive,
    HelperOfSession, NotRunning, BootHeld, Prepares, Spawned, NoBlock, Ghosts, Helpers, Blocks,
    Sessions, Boots, NoBoot, Mains, Unstarted, ServesBound
<1>7. Known'
  <2>1. hp'.st = "running" => ghost.stray
    BY <1>1, OpenedHelper DEF InitOpens, BootInv, ReadyIsOver, BootOver, NoBoot, Alive
  <2>2. ghost' = ghost
    BY DEF InitOpens
  <2> QED
    BY <2>1, <2>2 DEF Known
<1>8. CallsCounted'
  BY <1>1, OpenedHelper DEF CallsCounted
<1>9. WatchIsOwn' /\ ExitSignalIsOwn'
  BY DEF BootInv, BootTypeOK, InitOpens, ClearFakeThreads, WatchIsOwn, Alive, Spawned, Watchers,
    Helpers, ExitSignalIsOwn, HelperOfSession
<1>10. UNCHANGED <<wine, session, block, event, main, init, watch, signaled, ghost>>
  BY DEF InitOpens
<1> QED
  BY <1>2, <1>3, <1>4, <1>5, <1>6, <1>7, <1>8, <1>9, <1>10 DEF BootInv, BootTypeOK, EventIsOwn,
    InitIsOwn, LaunchStaysInside, NothingForgotten, GameSurvives, Alive, BootOver, Context

(* The initialization ends and says whether it is ready. *)
LEMMA InitPublishesSafe ==
  ASSUME BootInv, InitPublishes
  PROVE  BootInv'
<1>1. /\ block \in Blocks /\ hp \in Helpers /\ main \in Mains /\ boot \in Boots
      /\ init \in {"none", "starting", "running", "done"} /\ session \in Sessions
  BY DEF BootInv, BootTypeOK
<1>2. block' \in Blocks
  BY <1>1, MaxStartsAssumption, ServesOk DEF InitPublishes, PublishesReady, Blocks, NoBlock, Helpers
<1>3. hp' \in Helpers
  <2>1. PICK ok \in Serves :
          hp' = [hp EXCEPT !.ready = ok, !.serving = ok, !.lazy = IF ok THEN "ready" ELSE "idle"]
    BY Zenon DEF InitPublishes
  <2>2. ok \in BOOLEAN /\ (IF ok THEN "ready" ELSE "idle") \in {"idle", "initializing", "ready"}
    BY ServesOk
  <2> QED
    BY <1>1, <2>1, <2>2, ServingHelper, Zenon
<1>4. main' \in Mains
  BY <1>1, MaxStartsAssumption, ServesOk DEF InitPublishes, PublishesReady, Mains, Steps, Unstarted
<1>5. boot' \in Boots
  BY <1>1, MaxStartsAssumption, ServesOk DEF InitPublishes, PublishesReady, Boots, NoBoot
<1>6. init' \in {"none", "starting", "running", "done"}
  BY <1>1, MaxStartsAssumption, ServesOk DEF InitPublishes, PublishesReady
<1>7. HelperOfSession'
  BY ServesOk DEF BootInv, BootTypeOK, InitPublishes, PublishesReady, Alive, HelperOfSession,
    Spawned, Sessions, Helpers
<1>8. NotRunning'
  <2>1. hp'.st = hp.st /\ hp.st # "dead"
    <3>1. PICK ok \in Serves :
            hp' = [hp EXCEPT !.ready = ok, !.serving = ok, !.lazy = IF ok THEN "ready" ELSE "idle"]
      BY Zenon DEF InitPublishes
    <3> QED
      BY <1>1, <3>1 DEF InitPublishes, BootInv, NotRunning, NoBoot, Helpers
  <2>2. hp.st # "running" => main' = Unstarted
    <3>1. CASE boot.by = "init" /\ main' = main
      BY <3>1 DEF BootInv, NotRunning
    <3>2. CASE boot.by # "init"
      BY <1>1, <3>2 DEF InitPublishes, BootInv, BootTypeOK, Boots, BootHeld, NotRunning, Unstarted
    <3> QED
      BY <3>1, <3>2 DEF InitPublishes
  <2> QED
    BY <2>1, <2>2 DEF NotRunning
<1>9. Prepares' /\ BootHeld'
  BY ServesOk DEF BootInv, BootTypeOK, InitPublishes, PublishesReady, Prepares, Alive, Spawned,
    HelperOfSession, NotRunning, Sessions, Helpers, Ghosts, Boots, NoBoot, BootHeld, Intercepted,
    Mains, Unstarted
<1>10. ReadyIsOver' /\ ServesBound'
  BY ServesOk DEF BootInv, BootTypeOK, InitPublishes, PublishesReady, ReadyIsOver, BootOver,
    Context, Alive, HelperOfSession, NotRunning, BootHeld, Prepares, Spawned, NoBlock, Ghosts,
    Helpers, Blocks, Sessions, Boots, NoBoot, Mains, Unstarted, ServesBound
<1>11. Known' /\ CallsCounted'
  <2>1. UNCHANGED ghost
    BY DEF InitPublishes
  <2>2. hp \in Helpers /\ main \in Mains
    BY DEF BootInv, BootTypeOK
  <2>3. main'.step = main.step /\ main'.gaveUp = main.gaveUp
    BY <2>2 DEF InitPublishes, Mains
  <2>4. /\ hp'.st = hp.st /\ hp'.thread = hp.thread /\ hp'.allocs = hp.allocs
        /\ hp'.fakes = hp.fakes /\ hp'.calls = hp.calls
    BY <2>2 DEF InitPublishes, Helpers
  <2> QED
    BY <2>1, <2>3, <2>4 DEF BootInv, Known, CallsCounted, Alive
<1>12. WatchIsOwn' /\ ExitSignalIsOwn'
  BY ServesOk DEF BootInv, BootTypeOK, InitPublishes, PublishesReady, WatchIsOwn, Alive, Spawned,
    Watchers, Helpers, ExitSignalIsOwn, HelperOfSession
<1>13. UNCHANGED <<wine, session, event, watch, signaled, ghost>>
  BY DEF InitPublishes
<1> QED
  BY <1>2, <1>3, <1>4, <1>5, <1>6, <1>7, <1>8, <1>9, <1>10, <1>11, <1>12, <1>13 DEF BootInv,
    BootTypeOK, EventIsOwn, InitIsOwn, LaunchStaysInside, NothingForgotten, GameSurvives, Alive,
    BootOver, Context

(* A main thread without a context, which only a stray lets run, *)
(* initializes.                                                  *)
LEMMA LazyBootstrapSafe ==
  ASSUME BootInv, LazyBootstrap
  PROVE  BootInv'
<1>1. hp \in Helpers /\ main \in Mains /\ session \in Sessions
  BY DEF BootInv, BootTypeOK
<1>2. hp' \in Helpers
  BY <1>1, MaxStartsAssumption DEF LazyBootstrap, Running, Intercepted, Ensures, Context, Helpers,
    Spawned, Sessions, Alive
<1>3. main' \in Mains
  BY <1>1, MaxStartsAssumption DEF LazyBootstrap, Running, Intercepted, Ensures, Context, Mains,
    Steps, Unstarted
<1>4. HelperOfSession' /\ NotRunning'
  BY DEF BootInv, BootTypeOK, LazyBootstrap, Running, Intercepted, Ensures, Context, Alive,
    HelperOfSession, Spawned, Sessions, Helpers, NotRunning, Mains, Unstarted, Boots, NoBoot
<1>5. Prepares' /\ BootHeld'
  BY DEF BootInv, BootTypeOK, LazyBootstrap, Running, Intercepted, Ensures, Context, Prepares,
    Alive, Spawned, HelperOfSession, NotRunning, Sessions, Helpers, Ghosts, Boots, NoBoot,
    BootHeld, Mains, Unstarted
<1>6. ReadyIsOver' /\ ServesBound'
  BY DEF BootInv, BootTypeOK, LazyBootstrap, Running, Intercepted, Ensures, Context, ReadyIsOver,
    BootOver, Alive, HelperOfSession, NotRunning, BootHeld, Prepares, Spawned, NoBlock, Ghosts,
    Helpers, Blocks, Sessions, Boots, NoBoot, Mains, Unstarted, ServesBound
<1>7. Known' /\ CallsCounted'
  BY DEF BootInv, BootTypeOK, LazyBootstrap, Running, Intercepted, Ensures, Context, Known,
    ReadyIsOver, BootOver, Alive, NotRunning, CallsCounted, Steps, Ghosts, Helpers, Mains,
    Unstarted, Spawned
<1>8. WatchIsOwn' /\ ExitSignalIsOwn'
  BY DEF BootInv, BootTypeOK, LazyBootstrap, Running, Intercepted, Ensures, Context, WatchIsOwn,
    Alive, Spawned, Watchers, Helpers, ExitSignalIsOwn, HelperOfSession
<1>9. UNCHANGED <<wine, session, block, event, boot, init, watch, signaled, ghost>>
  BY DEF LazyBootstrap
<1> QED
  BY <1>2, <1>3, <1>4, <1>5, <1>6, <1>7, <1>8, <1>9 DEF BootInv, BootTypeOK, EventIsOwn,
    InitIsOwn, LaunchStaysInside, NothingForgotten, GameSurvives, Alive, BootOver, Context

(* It takes the mutex of the initialization. *)
LEMMA LazyEntersSafe ==
  ASSUME BootInv, LazyEnters
  PROVE  BootInv'
<1>1. boot \in Boots
  BY DEF BootInv, BootTypeOK
<1>2. boot' \in Boots
  BY <1>1, MaxStartsAssumption DEF LazyEnters, Enter, Boots, NoBoot
<1>3. NotRunning'
  BY DEF BootInv, BootTypeOK, LazyEnters, Enter, NotRunning, Alive, Spawned, HelperOfSession,
    Helpers, Mains, Unstarted, Boots, NoBoot
<1>4. Prepares' /\ BootHeld'
  BY DEF BootInv, BootTypeOK, LazyEnters, Enter, Prepares, Alive, Spawned, HelperOfSession,
    NotRunning, Sessions, Helpers, Ghosts, Boots, NoBoot, BootHeld, Intercepted, Mains, Unstarted
<1>5. ReadyIsOver'
  BY DEF BootInv, BootTypeOK, LazyEnters, Enter, ReadyIsOver, BootOver, Context, Alive,
    HelperOfSession, NotRunning, BootHeld, Prepares, Spawned, NoBlock, Ghosts, Helpers, Blocks,
    Sessions, Boots, NoBoot, Mains, Unstarted
<1>6. UNCHANGED <<wine, session, block, event, hp, main, init, watch, signaled, ghost>>
  BY DEF LazyEnters
<1> QED
  BY <1>2, <1>3, <1>4, <1>5, <1>6 DEF BootInv, BootTypeOK, HelperOfSession, ServesBound, Known,
    CallsCounted, EventIsOwn, InitIsOwn, WatchIsOwn, ExitSignalIsOwn, LaunchStaysInside,
    NothingForgotten, GameSurvives, Alive, Context, BootOver

(* It binds itself. *)
LEMMA LazyBindSafe ==
  ASSUME BootInv, LazyBind
  PROVE  BootInv'
<1>1. block \in Blocks /\ hp \in Helpers /\ main \in Mains /\ session \in Sessions
  BY DEF BootInv, BootTypeOK
<1>2. block' \in Blocks
  BY <1>1, MaxStartsAssumption, ServesOk DEF LazyBind, Running, Context, PublishesReady, Blocks,
    NoBlock, Helpers
<1>3. hp' \in Helpers
  BY <1>1, LazyBound
<1>4. main' \in Mains
  BY <1>1, MaxStartsAssumption, ServesOk DEF LazyBind, Running, Context, PublishesReady, Mains,
    Steps, Unstarted
<1>5. HelperOfSession' /\ NotRunning'
  <2>1. UNCHANGED <<session, ghost, init, boot>> /\ hp.st = "running"
    BY DEF LazyBind, Running
  <2>2. hp'.st = hp.st /\ hp'.gen = hp.gen
    BY <1>1, LazyBound
  <2> QED
    BY <2>1, <2>2 DEF BootInv, HelperOfSession, NotRunning
<1>6. Prepares' /\ BootHeld'
  <2>1. UNCHANGED <<session, ghost, init, boot>> /\ main.at = "bind"
    BY DEF LazyBind
  <2>2. main'.at = "serve"
    BY <1>1 DEF LazyBind, Mains
  <2> QED
    BY <1>1, <2>1, <2>2, LazyBound DEF BootInv, Prepares, BootHeld, Alive, Intercepted
<1>7. ReadyIsOver' /\ ServesBound'
  <2>1. UNCHANGED <<session, ghost, init, boot>> /\ hp.st = "running"
    BY DEF LazyBind, Running
  <2>2. main'.at = "serve" /\ hp'.bound /\ hp'.st = hp.st
    BY <1>1, LazyBound DEF LazyBind, Mains
  <2>3. ~ghost.stray => BootOver
    BY <2>1 DEF BootInv, ReadyIsOver, Alive
  <2>4. ~ghost.stray => BootOver'
    BY <1>1, <2>1, <2>3, LazyBound DEF BootOver, Context
  <2> QED
    BY <2>1, <2>2, <2>4 DEF ReadyIsOver, ServesBound
<1>8. Known' /\ CallsCounted'
  <2>1. UNCHANGED ghost
    BY DEF LazyBind
  <2>2. main'.step = main.step /\ main'.gaveUp = main.gaveUp
    BY <1>1 DEF LazyBind, Mains
  <2>3. Alive' = Alive
    BY <1>1, LazyBound DEF Alive
  <2> QED
    BY <1>1, <2>1, <2>2, <2>3, LazyBound DEF BootInv, Known, CallsCounted
<1>9. WatchIsOwn' /\ ExitSignalIsOwn'
  <2>1. UNCHANGED <<watch, signaled>>
    BY DEF LazyBind
  <2>2. hp'.gen = hp.gen /\ Alive' = Alive
    BY <1>1, LazyBound DEF Alive
  <2> QED
    BY <2>1, <2>2 DEF BootInv, WatchIsOwn, ExitSignalIsOwn
<1>10. UNCHANGED <<wine, session, event, boot, init, watch, signaled, ghost>>
  BY DEF LazyBind
<1> QED
  BY <1>2, <1>3, <1>4, <1>5, <1>6, <1>7, <1>8, <1>9, <1>10 DEF BootInv, BootTypeOK, EventIsOwn,
    InitIsOwn, LaunchStaysInside, NothingForgotten, GameSurvives, Alive, BootOver, Context

--------------------------------------------------------------------------------
(* The stubs. *)

(* The thread handed out is remembered. *)
LEMMA StubCreateProcessASafe ==
  ASSUME BootInv, StubCreateProcessA
  PROVE  BootInv'
<1>1. /\ hp \in Helpers /\ main \in Mains /\ block \in Blocks /\ ghost \in Ghosts
      /\ event \in 0 .. MaxStarts
  BY DEF BootInv, BootTypeOK
<1>2. Running /\ hp.st = "running"
  BY DEF StubCreateProcessA, Serving, Called, Running
<1>3. boot.by # "main"
  <2>1. main.at # "booting"
    BY DEF StubCreateProcessA, Serving, Prepared
  <2> QED
    BY <2>1 DEF BootInv, BootHeld
<1>4. main.step = 1
  BY <1>1, <1>2, StepNumbers DEF StubCreateProcessA, Serving, Called
<1>5. /\ Keeps(hp') /\ hp'.allocs = hp.allocs /\ hp'.fakes = hp.fakes /\ hp'.calls = hp.calls
      /\ main' \in Mains /\ main'.at \in {"enter", "ended"}
      /\ \/ hp'.thread /\ main'.step = 2 /\ main'.gaveUp = main.gaveUp
         \/ hp'.thread = hp.thread /\ main'.step = 1 /\ main'.gaveUp
  <2>1. CASE hp' = [hp EXCEPT !.thread = TRUE] /\ Next1
    <3>1. TRUE \in BOOLEAN
      OBVIOUS
    <3>2. /\ Keeps(hp') /\ hp'.thread
          /\ hp'.allocs = hp.allocs /\ hp'.fakes = hp.fakes /\ hp'.calls = hp.calls
      BY <1>1, <2>1, <3>1, HelperWrites, Zenon
    <3>3. main' \in Mains /\ main'.at = "enter" /\ main'.gaveUp = main.gaveUp
      BY <1>1, <1>2, <2>1, NextStep
    <3>4. main'.step = 2
      BY <1>1, <1>2, <1>4, <2>1, NextStep
    <3> QED
      BY <3>2, <3>3, <3>4, Zenon
  <2>2. CASE hp' = hp /\ Fails1
    BY <1>1, <1>4, <2>2, FailedStep DEF Keeps
  <2> QED
    BY <2>1, <2>2 DEF StubCreateProcessA
<1>6. Served /\ ghost' = ghost
  BY <1>1, <1>5, HitWrites DEF StubCreateProcessA, Served
<1>7. Known' /\ CallsCounted'
  BY <1>2, <1>4, <1>5, <1>6 DEF BootInv, Known, CallsCounted, Alive, Keeps
<1> QED
  BY <1>2, <1>3, <1>6, <1>7, ServedKeeps DEF BootInv, LaunchStaysInside, NothingForgotten,
    GameSurvives

(* A child that waits for a key is refused. *)
LEMMA BlockedChildSafe ==
  ASSUME BootInv, BlockedChild
  PROVE  BootInv'
<1>1. /\ hp \in Helpers /\ main \in Mains /\ block \in Blocks /\ ghost \in Ghosts
      /\ event \in 0 .. MaxStarts
  BY DEF BootInv, BootTypeOK
<1>2. Running /\ hp.st = "running"
  BY DEF BlockedChild, Running
<1>3. boot.by # "main"
  BY DEF BlockedChild, BootInv, BootHeld
<1>4. main' \in Mains /\ main'.at \in {"enter", "ended"} /\ main'.step = main.step
      /\ main'.gaveUp
  BY <1>1, FailedStep DEF BlockedChild
<1>5. block' \in Blocks /\ block'.ready = block.ready
  <2> DEFINE b == block.hits \/ hp.bound
  <2>1. b \in BOOLEAN
    BY Zenon
  <2>2. block' = [block EXCEPT !.hits = b]
    BY DEF BlockedChild
  <2> HIDE DEF b
  <2> QED
    BY <1>1, <2>1, <2>2 DEF Blocks
<1>6. Served /\ UNCHANGED <<hp, ghost>>
  BY <1>1, <1>4, <1>5 DEF BlockedChild, Served, Keeps
<1>7. Known' /\ CallsCounted'
  BY <1>4, <1>6 DEF BootInv, Known, CallsCounted, Alive
<1> QED
  BY <1>2, <1>3, <1>6, <1>7, ServedKeeps DEF BootInv, LaunchStaysInside, NothingForgotten,
    GameSurvives

(* The real launch needs an import that was not redirected. *)
LEMMA RealLaunchSafe ==
  ASSUME BootInv, RealLaunch
  PROVE  BootInv'
<1>1. /\ hp \in Helpers /\ main \in Mains /\ block \in Blocks /\ ghost \in Ghosts
      /\ event \in 0 .. MaxStarts
  BY DEF BootInv, BootTypeOK
<1>2. Running /\ hp.st = "running"
  BY DEF RealLaunch, Running
<1>3. boot.by # "main"
  BY DEF RealLaunch, BootInv, BootHeld
<1>4. main' \in Mains /\ main'.at \in {"enter", "ended"} /\ main'.step = main.step
      /\ main'.gaveUp
  BY <1>1, FailedStep DEF RealLaunch
<1>5. /\ ghost' \in Ghosts /\ ghost'.stray = ghost.stray /\ ghost'.unread = ghost.unread
      /\ ghost'.lost = ghost.lost /\ ghost'.native = ghost.native \cup {"CreateProcess"}
  BY <1>1 DEF RealLaunch, Native, Ghosts
<1>6. Served /\ UNCHANGED hp
  BY <1>1, <1>4, <1>5 DEF RealLaunch, Served, Keeps
<1>7. Known' /\ CallsCounted'
  BY <1>4, <1>5, <1>6 DEF BootInv, Known, CallsCounted, Alive
<1>8. ghost.unread
  BY <1>2 DEF RealLaunch, Intercepted, BootInv, Prepares, HelperOfSession, Alive
<1>9. LaunchStaysInside' /\ NothingForgotten' /\ GameSurvives'
  BY <1>5, <1>8 DEF BootInv, LaunchStaysInside, NothingForgotten, GameSurvives
<1> QED
  BY <1>2, <1>3, <1>6, <1>7, <1>9, ServedKeeps DEF BootInv

(* The allocation handed out is remembered. *)
LEMMA StubVirtualAllocExSafe ==
  ASSUME BootInv, StubVirtualAllocEx
  PROVE  BootInv'
<1> PICK a \in {<<"AllocPath", "path">>, <<"AllocArgs", "args">>} :
      /\ Serving(a[1])
      /\ \/ hp' = [hp EXCEPT !.allocs = @ \cup {a[2]}] /\ Next1
         \/ hp' = hp /\ Fails1
      /\ UNCHANGED <<wine, session, block, event, boot, init, watch, signaled, ghost>>
  BY Zenon DEF StubVirtualAllocEx
<1>1. /\ hp \in Helpers /\ main \in Mains /\ block \in Blocks /\ ghost \in Ghosts
      /\ event \in 0 .. MaxStarts
  BY DEF BootInv, BootTypeOK
<1>2. Running /\ hp.st = "running"
  BY DEF Serving, Called, Running
<1>3. boot.by # "main"
  <2>1. main.at # "booting"
    BY DEF Serving, Prepared
  <2> QED
    BY <2>1 DEF BootInv, BootHeld
<1>4. \/ main.step = 2 /\ a[2] = "path"
      \/ main.step = 7 /\ a[2] = "args"
  BY <1>1, <1>2, StepNumbers DEF Serving, Called
<1>5. /\ Keeps(hp') /\ hp'.thread = hp.thread /\ hp'.fakes = hp.fakes /\ hp'.calls = hp.calls
      /\ main' \in Mains /\ main'.at \in {"enter", "ended"}
      /\ \/ /\ hp'.allocs = hp.allocs \cup {a[2]}
            /\ main'.step = main.step + 1 /\ main'.gaveUp = main.gaveUp
         \/ hp'.allocs = hp.allocs /\ main'.step = main.step /\ main'.gaveUp
  <2>1. CASE hp' = [hp EXCEPT !.allocs = @ \cup {a[2]}] /\ Next1
    <3>1. /\ Keeps(hp') /\ hp'.thread = hp.thread /\ hp'.fakes = hp.fakes
          /\ hp'.calls = hp.calls /\ hp'.allocs = hp.allocs \cup {a[2]}
      BY <1>1, <2>1 DEF Keeps, Helpers
    <3> QED
      BY <1>1, <1>2, <2>1, <3>1, NextStep
  <2>2. CASE hp' = hp /\ Fails1
    BY <1>1, <2>2, FailedStep DEF Keeps
  <2> QED
    BY <2>1, <2>2
<1>6. Served
  BY <1>1, <1>5 DEF Served
<1>7. Known' /\ CallsCounted'
  BY <1>2, <1>4, <1>5 DEF BootInv, Known, CallsCounted, Alive, Keeps
<1> QED
  BY <1>2, <1>3, <1>6, <1>7, ServedKeeps DEF BootInv, LaunchStaysInside, NothingForgotten,
    GameSurvives

(* The path is freed once it is no longer needed. *)
LEMMA StubVirtualFreeExSafe ==
  ASSUME BootInv, StubVirtualFreeEx
  PROVE  BootInv'
<1>1. /\ hp \in Helpers /\ main \in Mains /\ block \in Blocks /\ ghost \in Ghosts
      /\ event \in 0 .. MaxStarts
  BY DEF BootInv, BootTypeOK
<1>2. Running /\ hp.st = "running"
  BY DEF StubVirtualFreeEx, Serving, Called, Running
<1>3. boot.by # "main"
  <2>1. main.at # "booting"
    BY DEF StubVirtualFreeEx, Serving, Prepared
  <2> QED
    BY <2>1 DEF BootInv, BootHeld
<1>4. /\ Keeps(hp') /\ hp'.thread = hp.thread /\ hp'.allocs \in {hp.allocs, hp.allocs \ {"path"}}
      /\ hp'.fakes = hp.fakes /\ hp'.calls = hp.calls
  BY <1>1 DEF StubVirtualFreeEx, Keeps, Helpers
<1>5. main.step = 6
  BY <1>1, <1>2, StepNumbers DEF StubVirtualFreeEx, Serving, Called
<1>6. main' \in Mains /\ main'.at = "enter" /\ main'.step = 7 /\ main'.gaveUp = main.gaveUp
  BY <1>1, <1>2, <1>5, NextStep DEF StubVirtualFreeEx
<1>7. Served /\ ghost' = ghost
  BY <1>1, <1>4, <1>6 DEF StubVirtualFreeEx, Served
<1>8. Known' /\ CallsCounted'
  BY <1>2, <1>4, <1>5, <1>6, <1>7 DEF BootInv, Known, CallsCounted, Alive, Keeps
<1> QED
  BY <1>2, <1>3, <1>7, <1>8, ServedKeeps DEF BootInv, LaunchStaysInside, NothingForgotten,
    GameSurvives

(* A write outside the known allocations happens only after a stray. *)
LEMMA StubWriteBlockedSafe ==
  ASSUME BootInv, StubWriteBlocked
  PROVE  BootInv'
<1> PICK w \in {<<"WritePath", "path">>, <<"WriteArgs", "args">>} :
      /\ Serving(w[1]) /\ ~IsWithinRedirectAllocation(w[2])
      /\ InitWritten(w[1]) /\ Forgotten /\ Fails1
      /\ UNCHANGED <<wine, session, boot, init, watch, signaled>>
  BY Zenon DEF StubWriteBlocked
<1>1. /\ hp \in Helpers /\ main \in Mains /\ block \in Blocks /\ ghost \in Ghosts
      /\ event \in 0 .. MaxStarts
  BY DEF BootInv, BootTypeOK
<1>2. Running /\ hp.st = "running"
  BY DEF Serving, Called, Running
<1>3. boot.by # "main"
  <2>1. main.at # "booting"
    BY DEF Serving, Prepared
  <2> QED
    BY <2>1 DEF BootInv, BootHeld
<1>4. /\ Keeps(hp') /\ hp'.thread = hp.thread
      /\ hp'.allocs = hp.allocs /\ hp'.fakes = hp.fakes /\ hp'.calls = hp.calls
      /\ block' \in Blocks /\ block'.ready = block.ready /\ event' \in {event, hp.gen}
  BY <1>1, InitWrites
<1>5. \/ main.step = 3 /\ w[2] = "path"
      \/ main.step = 8 /\ w[2] = "args"
  BY <1>1, <1>2, StepNumbers DEF Serving, Called
<1>6. main' \in Mains /\ main'.at \in {"enter", "ended"} /\ main'.step = main.step
      /\ main'.gaveUp
  BY <1>1, FailedStep
<1>7. /\ ghost' \in Ghosts /\ ghost'.stray = ghost.stray /\ ghost'.unread = ghost.unread
      /\ ghost'.native = ghost.native
  <2>1. \A b \in BOOLEAN : LET q == [ghost EXCEPT !.lost = b]
                           IN  /\ q \in Ghosts /\ q.stray = ghost.stray
                               /\ q.unread = ghost.unread /\ q.native = ghost.native
    BY <1>1 DEF Ghosts
  <2>2. TRUE \in BOOLEAN
    OBVIOUS
  <2> QED
    BY <2>1, <2>2, Zenon DEF Forgotten
<1>8. Served
  BY <1>1, <1>4, <1>6, <1>7 DEF Served
<1>9. ghost.stray
  BY <1>2, <1>5 DEF IsWithinRedirectAllocation, BootInv, Known
<1>10. Known' /\ CallsCounted'
  BY <1>4, <1>6, <1>7, <1>9 DEF BootInv, Known, CallsCounted, Alive, Keeps
<1>11. LaunchStaysInside' /\ NothingForgotten' /\ GameSurvives'
  BY <1>7, <1>9 DEF BootInv, LaunchStaysInside, NothingForgotten, GameSurvives
<1> QED
  BY <1>2, <1>3, <1>8, <1>10, <1>11, ServedKeeps DEF BootInv

(* A write within them is served. *)
LEMMA StubWriteProcessMemorySafe ==
  ASSUME BootInv, StubWriteProcessMemory
  PROVE  BootInv'
<1> PICK w \in {<<"WritePath", "path">>, <<"WriteArgs", "args">>} :
      /\ Serving(w[1]) /\ IsWithinRedirectAllocation(w[2])
      /\ InitWritten(w[1]) /\ Next1
      /\ UNCHANGED <<wine, session, boot, init, watch, signaled, ghost>>
  BY Zenon DEF StubWriteProcessMemory
<1>1. /\ hp \in Helpers /\ main \in Mains /\ block \in Blocks /\ ghost \in Ghosts
      /\ event \in 0 .. MaxStarts
  BY DEF BootInv, BootTypeOK
<1>2. Running /\ hp.st = "running"
  BY DEF Serving, Called, Running
<1>3. boot.by # "main"
  <2>1. main.at # "booting"
    BY DEF Serving, Prepared
  <2> QED
    BY <2>1 DEF BootInv, BootHeld
<1>4. /\ Keeps(hp') /\ hp'.thread = hp.thread
      /\ hp'.allocs = hp.allocs /\ hp'.fakes = hp.fakes /\ hp'.calls = hp.calls
      /\ block' \in Blocks /\ block'.ready = block.ready /\ event' \in {event, hp.gen}
  BY <1>1, InitWrites
<1>5. \/ main.step = 3 /\ w[2] = "path"
      \/ main.step = 8 /\ w[2] = "args"
  BY <1>1, <1>2, StepNumbers DEF Serving, Called
<1>6. main' \in Mains /\ main'.at = "enter" /\ main'.step = main.step + 1
      /\ main'.gaveUp = main.gaveUp
  BY <1>1, <1>2, NextStep
<1>7. Served
  BY <1>1, <1>4, <1>6 DEF Served
<1>8. Known' /\ CallsCounted'
  BY <1>2, <1>4, <1>5, <1>6, <1>7 DEF BootInv, Known, CallsCounted, Alive, Keeps,
    IsWithinRedirectAllocation
<1> QED
  BY <1>2, <1>3, <1>7, <1>8, ServedKeeps DEF BootInv, LaunchStaysInside, NothingForgotten,
    GameSurvives

(* The first thread created is not taken for init, and leaves for the *)
(* system only after a stray.                                         *)
LEMMA StubCreateLoadThreadSafe ==
  ASSUME BootInv, StubCreateLoadThread
  PROVE  BootInv'
<1>1. /\ hp \in Helpers /\ main \in Mains /\ block \in Blocks /\ ghost \in Ghosts
      /\ event \in 0 .. MaxStarts
  BY DEF BootInv, BootTypeOK
<1>2. Running /\ hp.st = "running"
  BY DEF StubCreateLoadThread, Serving, Called, Running
<1>3. boot.by # "main"
  <2>1. main.at # "booting"
    BY DEF StubCreateLoadThread, Serving, Prepared
  <2> QED
    BY <2>1 DEF BootInv, BootHeld
<1>4. main.step = 4 /\ ~main.gaveUp
  BY <1>1, <1>2, StepNumbers DEF StubCreateLoadThread, Serving, Called
<1>5. hp.calls = 0 /\ hp.calls \in 0 .. 1
  BY <1>2, <1>4 DEF BootInv, CallsCounted, Alive
<1>6. ~IsLikelyInitThreadCall
  BY <1>5 DEF IsLikelyInitThreadCall
<1>7. /\ \/ /\ ~Context /\ Native("CreateRemoteThread") /\ Fails1 /\ Hit /\ event' = event
            /\ hp' = [hp EXCEPT !.calls = @ + 1]
         \/ Context /\ Hit /\ CreateFakeThread("load", "base") /\ UNCHANGED <<event, ghost>>
      /\ UNCHANGED <<wine, session, boot, init, watch, signaled>>
  BY <1>6, Zenon DEF StubCreateLoadThread
<1>8. ASSUME Fails1, hp' = [hp EXCEPT !.calls = @ + 1]
      PROVE  /\ Keeps(hp') /\ main' \in Mains /\ main'.at \in {"enter", "ended"}
             /\ ghost'.stray = ghost.stray => Known' /\ CallsCounted'
  <2>1. /\ Keeps(hp') /\ hp'.thread = hp.thread /\ hp'.allocs = hp.allocs
        /\ hp'.fakes = hp.fakes
    BY <1>1, <1>5, <1>8, CallCounted
  <2>2. /\ main' \in Mains /\ main'.at \in {"enter", "ended"} /\ main'.step = main.step
        /\ main'.gaveUp
    BY <1>1, <1>8, FailedStep
  <2> QED
    BY <1>2, <2>1, <2>2 DEF BootInv, Known, CallsCounted, Alive, Keeps
<1>9. CASE /\ ~Context /\ Native("CreateRemoteThread") /\ Fails1 /\ Hit /\ event' = event
           /\ hp' = [hp EXCEPT !.calls = @ + 1]
  <2>1. ghost.stray
    BY <1>2, <1>9 DEF BootInv, ReadyIsOver, BootOver, Alive
  <2>2. /\ ghost' \in Ghosts /\ ghost'.stray = ghost.stray /\ ghost'.unread = ghost.unread
        /\ ghost'.lost = ghost.lost /\ ghost'.native = ghost.native \cup {"CreateRemoteThread"}
    BY <1>1, <1>9 DEF Native, Ghosts
  <2>3. Served
    BY <1>1, <1>7, <1>8, <1>9, <2>2, HitWrites DEF Served
  <2>4. LaunchStaysInside' /\ NothingForgotten' /\ GameSurvives'
    BY <2>1, <2>2 DEF BootInv, LaunchStaysInside, NothingForgotten, GameSurvives
  <2> QED
    BY <1>2, <1>3, <1>8, <1>9, <2>2, <2>3, <2>4, ServedKeeps DEF BootInv
<1>10. CASE Context /\ Hit /\ CreateFakeThread("load", "base") /\ UNCHANGED <<event, ghost>>
  <2>1. CASE /\ hp' = [hp EXCEPT !.fakes = @ \cup {<<"load", "base">>}, !.calls = @ + 1]
             /\ Next1
    <3>1. /\ Keeps(hp') /\ hp'.thread = hp.thread /\ hp'.allocs = hp.allocs
          /\ hp'.fakes = hp.fakes \cup {<<"load", "base">>} /\ hp'.calls = 1
      BY <1>1, <1>5, <2>1, FakeThreadKept
    <3>2. main' \in Mains /\ main'.at = "enter" /\ main'.step = 5 /\ main'.gaveUp = main.gaveUp
      BY <1>1, <1>2, <1>4, <2>1, NextStep
    <3>3. Served
      BY <1>1, <1>7, <1>10, <3>1, <3>2, HitWrites DEF Served
    <3>4. Known' /\ CallsCounted'
      BY <1>2, <1>4, <1>10, <3>1, <3>2 DEF BootInv, Known, CallsCounted, Alive, Keeps
    <3> QED
      BY <1>2, <1>3, <1>10, <3>3, <3>4, ServedKeeps
        DEF BootInv, LaunchStaysInside, NothingForgotten, GameSurvives
  <2>2. CASE hp' = [hp EXCEPT !.calls = @ + 1] /\ Fails1
    <3>1. Served
      BY <1>1, <1>7, <1>8, <1>10, <2>2, HitWrites DEF Served
    <3> QED
      BY <1>2, <1>3, <1>8, <1>10, <2>2, <3>1, ServedKeeps
        DEF BootInv, LaunchStaysInside, NothingForgotten, GameSurvives
  <2> QED
    BY <1>10, <2>1, <2>2 DEF CreateFakeThread
<1> QED
  BY <1>7, <1>9, <1>10

(* The second one is. *)
LEMMA StubCreateInitThreadSafe ==
  ASSUME BootInv, StubCreateInitThread
  PROVE  BootInv'
<1>1. /\ hp \in Helpers /\ main \in Mains /\ block \in Blocks /\ ghost \in Ghosts
      /\ event \in 0 .. MaxStarts
  BY DEF BootInv, BootTypeOK
<1>2. Running /\ hp.st = "running"
  BY DEF StubCreateInitThread, Serving, Called, Running
<1>3. boot.by # "main"
  <2>1. main.at # "booting"
    BY DEF StubCreateInitThread, Serving, Prepared
  <2> QED
    BY <2>1 DEF BootInv, BootHeld
<1>4. main.step = 9 /\ ~main.gaveUp
  BY <1>1, <1>2, StepNumbers DEF StubCreateInitThread, Serving, Called
<1>5. hp.calls \in 0 .. 1
  BY <1>1, <1>2, <1>4 DEF BootInv, CallsCounted, Alive, Helpers
<1>6. /\ Keeps(hp') /\ hp'.thread = hp.thread /\ hp'.allocs = hp.allocs
      /\ main' \in Mains /\ main'.at \in {"enter", "ended"}
      /\ \/ /\ hp'.fakes = hp.fakes \cup {<<"init", "init">>}
            /\ main'.step = 10 /\ main'.gaveUp = main.gaveUp
         \/ hp'.fakes = hp.fakes /\ main'.step = 9 /\ main'.gaveUp
  <2>1. CASE /\ hp' = [hp EXCEPT !.fakes = @ \cup {<<"init", "init">>}, !.calls = @ + 1]
             /\ Next1
    <3>1. /\ Keeps(hp') /\ hp'.thread = hp.thread /\ hp'.allocs = hp.allocs
          /\ hp'.fakes = hp.fakes \cup {<<"init", "init">>}
      BY <1>1, <1>5, <2>1, FakeThreadKept
    <3> QED
      BY <1>1, <1>2, <1>4, <2>1, <3>1, NextStep
  <2>2. CASE hp' = [hp EXCEPT !.calls = @ + 1] /\ Fails1
    <3>1. /\ Keeps(hp') /\ hp'.thread = hp.thread /\ hp'.allocs = hp.allocs
          /\ hp'.fakes = hp.fakes
      BY <1>1, <1>5, <2>2, CallCounted
    <3> QED
      BY <1>1, <1>4, <2>2, <3>1, FailedStep
  <2> QED
    BY <2>1, <2>2 DEF StubCreateInitThread, CreateFakeThread
<1>7. Served /\ ghost' = ghost
  BY <1>1, <1>6, HandshakeWrites DEF StubCreateInitThread, Served
<1>8. Known' /\ CallsCounted'
  BY <1>2, <1>4, <1>6, <1>7 DEF BootInv, Known, CallsCounted, Alive, Keeps
<1> QED
  BY <1>2, <1>3, <1>7, <1>8, ServedKeeps DEF BootInv, LaunchStaysInside, NothingForgotten,
    GameSurvives

(* A thread handed out is found again, but for a stray. *)
LEMMA StubGetExitCodeThreadSafe ==
  ASSUME BootInv, StubGetExitCodeThread
  PROVE  BootInv'
<1> PICK r \in {<<"LoadResult", "load", "base">>, <<"InitResult", "init", "init">>} :
      /\ Called(r[1]) /\ main.at = "enter"
      /\ IF LookupFakeThread(r[2], r[3]) THEN Next1 /\ ghost' = ghost ELSE Forgotten /\ Fails1
      /\ UNCHANGED <<wine, session, block, event, hp, boot, init, watch, signaled>>
  BY Zenon DEF StubGetExitCodeThread
<1>1. /\ hp \in Helpers /\ main \in Mains /\ block \in Blocks /\ ghost \in Ghosts
      /\ event \in 0 .. MaxStarts
  BY DEF BootInv, BootTypeOK
<1>2. Running /\ hp.st = "running"
  BY DEF Called, Running
<1>3. boot.by # "main"
  BY DEF BootInv, BootHeld
<1>4. \/ main.step = 5 /\ r[2] = "load" /\ r[3] = "base"
      \/ main.step = 10 /\ r[2] = "init" /\ r[3] = "init"
  BY <1>1, <1>2, StepNumbers DEF Called
<1>5. \/ LookupFakeThread(r[2], r[3]) /\ Next1 /\ ghost' = ghost
      \/ ~LookupFakeThread(r[2], r[3]) /\ Forgotten /\ Fails1
  BY Zenon
<1>6. CASE LookupFakeThread(r[2], r[3]) /\ Next1 /\ ghost' = ghost
  <2>1. main' \in Mains /\ main'.at = "enter" /\ main'.step = main.step + 1
        /\ main'.gaveUp = main.gaveUp
    BY <1>1, <1>2, <1>6, NextStep
  <2>2. Served
    BY <1>1, <1>6, <2>1 DEF Served, Keeps
  <2>3. Known' /\ CallsCounted'
    BY <1>2, <1>4, <1>6, <2>1 DEF BootInv, Known, CallsCounted, Alive, LookupFakeThread
  <2> QED
    BY <1>2, <1>3, <1>6, <2>2, <2>3, ServedKeeps
      DEF BootInv, LaunchStaysInside, NothingForgotten, GameSurvives
<1>7. CASE ~LookupFakeThread(r[2], r[3]) /\ Forgotten /\ Fails1
  <2>1. ghost.stray
    BY <1>2, <1>4, <1>7 DEF BootInv, Known, LookupFakeThread
  <2>2. /\ ghost' \in Ghosts /\ ghost'.stray = ghost.stray /\ ghost'.unread = ghost.unread
        /\ ghost'.native = ghost.native
    <3>1. \A b \in BOOLEAN : LET q == [ghost EXCEPT !.lost = b]
                             IN  /\ q \in Ghosts /\ q.stray = ghost.stray
                                 /\ q.unread = ghost.unread /\ q.native = ghost.native
      BY <1>1 DEF Ghosts
    <3>2. TRUE \in BOOLEAN
      OBVIOUS
    <3> QED
      BY <1>7, <3>1, <3>2, Zenon DEF Forgotten
  <2>3. main' \in Mains /\ main'.at \in {"enter", "ended"} /\ main'.step = main.step
        /\ main'.gaveUp
    BY <1>1, <1>7, FailedStep
  <2>4. Served
    BY <1>1, <2>2, <2>3 DEF Served, Keeps
  <2>5. Known' /\ CallsCounted'
    BY <2>1, <2>2, <2>3 DEF BootInv, Known, CallsCounted, Alive
  <2>6. LaunchStaysInside' /\ NothingForgotten' /\ GameSurvives'
    BY <2>1, <2>2 DEF BootInv, LaunchStaysInside, NothingForgotten, GameSurvives
  <2> QED
    BY <1>2, <1>3, <2>4, <2>5, <2>6, ServedKeeps DEF BootInv
<1> QED
  BY <1>5, <1>6, <1>7

(* So is the main thread of the child. *)
LEMMA StubResumeThreadSafe ==
  ASSUME BootInv, StubResumeThread
  PROVE  BootInv'
<1>1. /\ hp \in Helpers /\ main \in Mains /\ block \in Blocks /\ ghost \in Ghosts
      /\ event \in 0 .. MaxStarts
  BY DEF BootInv, BootTypeOK
<1>2. Running /\ hp.st = "running"
  BY DEF StubResumeThread, Serving, Called, Running
<1>3. boot.by # "main"
  <2>1. main.at # "booting"
    BY DEF StubResumeThread, Serving, Prepared
  <2> QED
    BY <2>1 DEF BootInv, BootHeld
<1>4. main.step = 11
  BY <1>1, <1>2, StepNumbers DEF StubResumeThread, Serving, Called
<1>5. main' \in Mains /\ main'.at = "enter" /\ main'.step = 12 /\ main'.gaveUp = main.gaveUp
  BY <1>1, <1>2, <1>4, NextStep DEF StubResumeThread
<1>6. \/ Context /\ hp.thread /\ ghost' = ghost
      \/ ~(Context /\ hp.thread) /\ Forgotten
  BY Zenon DEF StubResumeThread
<1>7. ghost.stray \/ ghost' = ghost
  BY <1>2, <1>4, <1>6 DEF BootInv, Known, ReadyIsOver, BootOver, Alive
<1>8. /\ ghost' \in Ghosts /\ ghost'.stray = ghost.stray /\ ghost'.unread = ghost.unread
      /\ ghost'.native = ghost.native
      /\ ghost' = ghost \/ ghost.stray
  <2>1. \A b \in BOOLEAN : LET q == [ghost EXCEPT !.lost = b]
                           IN  /\ q \in Ghosts /\ q.stray = ghost.stray
                               /\ q.unread = ghost.unread /\ q.native = ghost.native
    BY <1>1 DEF Ghosts
  <2>2. TRUE \in BOOLEAN
    OBVIOUS
  <2> QED
    BY <1>1, <1>6, <1>7, <2>1, <2>2, Zenon DEF Forgotten
<1>9. Served /\ UNCHANGED hp
  BY <1>1, <1>5, <1>8 DEF StubResumeThread, Served, Keeps
<1>10. Known' /\ CallsCounted'
  BY <1>2, <1>4, <1>5, <1>8, <1>9 DEF BootInv, Known, CallsCounted, Alive
<1>11. LaunchStaysInside' /\ NothingForgotten' /\ GameSurvives'
  BY <1>8 DEF BootInv, LaunchStaysInside, NothingForgotten, GameSurvives
<1> QED
  BY <1>2, <1>3, <1>9, <1>10, <1>11, ServedKeeps DEF BootInv

(* A main thread that serves is bound: the stub knows its host. *)
LEMMA StubTerminateProcessSafe ==
  ASSUME BootInv, StubTerminateProcess
  PROVE  BootInv'
<1>1. /\ hp \in Helpers /\ main \in Mains /\ block \in Blocks /\ ghost \in Ghosts
      /\ event \in 0 .. MaxStarts
  BY DEF BootInv, BootTypeOK
<1>2. Running /\ hp.st = "running"
  BY DEF StubTerminateProcess, Running
<1>3. boot.by # "main"
  <2>1. main.at # "booting"
    BY DEF StubTerminateProcess, Prepared
  <2> QED
    BY <2>1 DEF BootInv, BootHeld
<1>4. main' \in Mains /\ main'.at = "ended" /\ main'.step = main.step
      /\ main'.gaveUp = main.gaveUp
  BY <1>1 DEF StubTerminateProcess, Mains
<1>5. KnowsHost
  BY DEF StubTerminateProcess, Prepared, KnowsHost, Context, BootInv, ServesBound
<1>6. ghost' = ghost /\ UNCHANGED <<wine, session, block, event, hp, boot, init, watch, signaled>>
  BY <1>5, Zenon DEF StubTerminateProcess
<1>7. Served
  BY <1>1, <1>4, <1>6 DEF Served, Keeps
<1>8. Known' /\ CallsCounted'
  BY <1>4, <1>6 DEF BootInv, Known, CallsCounted, Alive
<1> QED
  BY <1>2, <1>3, <1>6, <1>7, <1>8, ServedKeeps DEF BootInv, LaunchStaysInside, NothingForgotten,
    GameSurvives

--------------------------------------------------------------------------------
(* The helper ends, and other copies. *)

(* The helper exits on its own. *)
LEMMA ShutdownInjectedSafe ==
  ASSUME BootInv, ShutdownInjected
  PROVE  BootInv'
<1>1. Gone /\ Alive /\ UNCHANGED <<wine, session, event, watch, signaled, ghost>>
  BY DEF ShutdownInjected, Alive
<1>2. session.pc # "idle"
  BY <1>1 DEF BootInv, BootTypeOK, HelperOfSession, Helpers, Alive
<1>3. block' \in Blocks
  <2>1. block \in Blocks /\ [block EXCEPT !.ready = FALSE] \in Blocks
    BY BlockWrites, MaxStartsAssumption DEF BootInv, BootTypeOK
  <2> QED
    BY <2>1, Zenon DEF ShutdownInjected
<1> QED
  BY <1>1, <1>2, <1>3, HelperGone

(* The helper is killed. *)
LEMMA DiesSafe ==
  ASSUME BootInv, Dies
  PROVE  BootInv'
<1>1. Gone /\ Alive /\ UNCHANGED <<wine, session, block, event, watch, signaled, ghost>>
  BY DEF Dies
<1>2. session.pc # "idle"
  BY <1>1 DEF BootInv, BootTypeOK, HelperOfSession, Helpers, Alive
<1> QED
  BY <1>1, <1>2, HelperGone DEF BootInv, BootTypeOK

(* A stray readiness excuses what it may cause. *)
LEMMA OtherCopySafe ==
  ASSUME BootInv, OtherCopy
  PROVE  BootInv'
<1>1. block \in Blocks /\ ghost \in Ghosts /\ hp \in Helpers
  BY DEF BootInv, BootTypeOK
<1>2. block' \in Blocks
  BY <1>1, MaxStartsAssumption DEF OtherCopy, Blocks, NoBlock, Helpers
<1>3. ghost' \in Ghosts
  BY <1>1, MaxStartsAssumption DEF OtherCopy, Ghosts
<1>4. Prepares'
  BY DEF BootInv, BootTypeOK, OtherCopy, Prepares, Alive, Spawned, HelperOfSession, NotRunning,
    Sessions, Helpers, Ghosts, Boots, NoBoot
<1>5. ReadyIsOver'
  BY DEF BootInv, BootTypeOK, OtherCopy, ReadyIsOver, BootOver, Context, Alive, HelperOfSession,
    NotRunning, BootHeld, Prepares, Spawned, NoBlock, Ghosts, Helpers, Blocks, Sessions, Boots,
    NoBoot, Mains, Unstarted
<1>6. Known'
  BY DEF BootInv, BootTypeOK, OtherCopy, Known, ReadyIsOver, BootOver, Alive, NotRunning,
    CallsCounted, Steps, Ghosts, Helpers, Mains, Unstarted
<1>7. LaunchStaysInside' /\ NothingForgotten' /\ GameSurvives'
  BY DEF BootInv, BootTypeOK, OtherCopy, LaunchStaysInside, Prepares, ReadyIsOver, BootOver,
    HelperOfSession, Alive, Context, Ghosts, NothingForgotten, Known, GameSurvives, ServesBound
<1>8. UNCHANGED <<wine, session, event, hp, main, boot, init, watch, signaled>>
  BY DEF OtherCopy
<1> QED
  BY <1>2, <1>3, <1>4, <1>5, <1>6, <1>7, <1>8 DEF BootInv, BootTypeOK, HelperOfSession,
    NotRunning, BootHeld, ServesBound, CallsCounted, EventIsOwn, InitIsOwn, WatchIsOwn,
    ExitSignalIsOwn, Alive, Intercepted, Context

--------------------------------------------------------------------------------
(* The theorem. *)

(* The invariant holds before the first start. *)
LEMMA BootInitIsSafe == BootInit => BootInv
<1> SUFFICES ASSUME BootInit
             PROVE  BootInv
  OBVIOUS
<1>1. 0 \in 0 .. MaxStarts /\ FALSE \in BOOLEAN
  BY MaxStartsAssumption
<1>2. hp \in Helpers /\ hp.st = "dead" /\ hp.gen = 0
  <2>1. \A b \in BOOLEAN, n \in 0 .. MaxStarts, k \in 0 .. 2 :
          LET q == [st |-> "suspended", gen |-> n, dll |-> "no", patched |-> "no",
                    bound |-> b, ready |-> b, serving |-> b, lazy |-> "idle",
                    allocs |-> {}, fakes |-> {}, thread |-> b, calls |-> k, captured |-> b]
          IN  /\ [q EXCEPT !.st = "dead"] \in Helpers
              /\ [q EXCEPT !.st = "dead"].st = "dead" /\ [q EXCEPT !.st = "dead"].gen = n
    BY DEF Helpers
  <2>2. 0 \in 0 .. 2
    OBVIOUS
  <2> QED
    BY <1>1, <2>1, <2>2, Zenon DEF BootInit, NoHelper, Spawned
<1>3. session \in Sessions /\ session.pc = "idle" /\ session.applied = 0
  BY <1>1 DEF BootInit, Sessions
<1>4. ghost \in Ghosts /\ ghost.native = {} /\ ~ghost.lost
  <2>1. \A b \in BOOLEAN :
          LET q == [native |-> {}, lost |-> b, stray |-> b, unread |-> b]
          IN  q \in Ghosts /\ q.native = {} /\ q.lost = b
    BY DEF Ghosts
  <2> QED
    BY <1>1, <2>1, Zenon DEF BootInit
<1>5. BootTypeOK
  BY <1>1, <1>2, <1>3, <1>4, UnstartedIsMain, NoBlockIsBlock
    DEF BootInit, BootTypeOK, Boots, NoBoot
<1>6. HelperOfSession /\ NotRunning /\ Prepares /\ BootHeld
  BY <1>2, <1>3, UnstartedIsMain
    DEF BootInit, HelperOfSession, NotRunning, Prepares, BootHeld, Alive, NoBoot
<1>7. ReadyIsOver /\ ServesBound /\ Known /\ CallsCounted
  BY <1>2, UnstartedIsMain
    DEF BootInit, ReadyIsOver, ServesBound, Known, CallsCounted, Alive
<1>8. EventIsOwn /\ WatchIsOwn /\ InitIsOwn /\ ExitSignalIsOwn
  BY <1>3 DEF BootInit, EventIsOwn, WatchIsOwn, InitIsOwn, ExitSignalIsOwn
<1>9. LaunchStaysInside /\ NothingForgotten /\ GameSurvives
  BY <1>4 DEF LaunchStaysInside, NothingForgotten, GameSurvives
<1> QED
  BY <1>5, <1>6, <1>7, <1>8, <1>9 DEF BootInv

(* A step that changes nothing keeps it. *)
LEMMA BootIdle ==
  ASSUME BootInv, UNCHANGED bootVars
  PROVE  BootInv'
BY DEF BootInv, BootTypeOK, HelperOfSession, NotRunning, Prepares, BootHeld, ReadyIsOver, BootOver,
  Context, ServesBound, Known, CallsCounted, EventIsOwn, WatchIsOwn, LaunchStaysInside,
  NothingForgotten, InitIsOwn, ExitSignalIsOwn, GameSurvives, Alive, Intercepted, bootVars

(* Every step of the start worker keeps it. *)
LEMMA StartWorkerSafe ==
  ASSUME BootInv, StartWorker
  PROVE  BootInv'
<1>1. CASE StartRefused \/ Spawn \/ InjectSelf \/ InjectFails \/ InjectDone
  BY <1>1, StartRefusedSafe, SpawnSafe, InjectSelfSafe, InjectFailsSafe, InjectDoneSafe
<1>2. CASE PatchIat \/ PatchFails \/ Payload \/ WaitOver \/ WaitFails
  BY <1>2, PatchIatSafe, PatchFailsSafe, PayloadSafe, WaitOverSafe, WaitFailsSafe
<1>3. CASE Resume \/ ResumeFails \/ StartPeerProcessExitWatch \/ WatchFails
  BY <1>3, ResumeSafe, ResumeFailsSafe, StartPeerProcessExitWatchSafe, WatchFailsSafe
<1> QED
  BY <1>1, <1>2, <1>3, Zenon DEF StartWorker

(* Every stub keeps it. *)
LEMMA StubsSafe ==
  ASSUME BootInv, Stubs
  PROVE  BootInv'
<1>1. CASE StubCreateProcessA \/ StubVirtualAllocEx \/ StubVirtualFreeEx
  BY <1>1, StubCreateProcessASafe, StubVirtualAllocExSafe, StubVirtualFreeExSafe
<1>2. CASE StubWriteBlocked \/ StubWriteProcessMemory
  BY <1>2, StubWriteBlockedSafe, StubWriteProcessMemorySafe
<1>3. CASE StubCreateLoadThread \/ StubCreateInitThread
  BY <1>3, StubCreateLoadThreadSafe, StubCreateInitThreadSafe
<1>4. CASE StubGetExitCodeThread \/ StubResumeThread
  BY <1>4, StubGetExitCodeThreadSafe, StubResumeThreadSafe
<1> QED
  BY <1>1, <1>2, <1>3, <1>4, Zenon DEF Stubs

(* Every thread of the helper keeps it. *)
LEMMA HelperThreadsSafe ==
  ASSUME BootInv, InjectedInit \/ MainThread \/ BlockedChild \/ DllMain
  PROVE  BootInv'
<1>1. CASE InjectedInit
  BY <1>1, InitThreadEntersSafe, InitOpensSafe, InitPublishesSafe DEF InjectedInit
<1>2. CASE LazyBootstrap \/ LazyEnters \/ LazyBind \/ Stubs
  BY <1>2, LazyBootstrapSafe, LazyEntersSafe, LazyBindSafe, StubsSafe
<1>3. CASE StubTerminateProcess \/ RealLaunch
  BY <1>3, StubTerminateProcessSafe, RealLaunchSafe
<1>4. CASE BlockedChild \/ DllMain
  BY <1>4, BlockedChildSafe, DllMainSafe
<1> QED
  BY <1>1, <1>2, <1>3, <1>4, Zenon DEF MainThread

(* The invariant is inductive. *)
LEMMA BootInductive == BootInv /\ [BootNext]_bootVars => BootInv'
<1> SUFFICES ASSUME BootInv, [BootNext]_bootVars
             PROVE  BootInv'
  OBVIOUS
<1>1. CASE StartWorker
  BY <1>1, StartWorkerSafe
<1>2. CASE BeginStart \/ LatePatch \/ TickTakesInit \/ Ends
  BY <1>2, BeginStartSafe, LatePatchSafe, TickTakesInitSafe, EndsSafe
<1>3. CASE PeerProcessExitWatchMain
  BY <1>3, WatchWakesSafe, WatchStoresSafe DEF PeerProcessExitWatchMain
<1>4. CASE InjectedInit \/ MainThread \/ BlockedChild \/ DllMain
  BY <1>4, HelperThreadsSafe
<1>5. CASE ShutdownInjected \/ Dies \/ OtherCopy
  BY <1>5, ShutdownInjectedSafe, DiesSafe, OtherCopySafe
<1>6. CASE UNCHANGED bootVars
  BY <1>6, BootIdle
<1> QED
  BY <1>1, <1>2, <1>3, <1>4, <1>5, <1>6, Zenon DEF BootNext

(* It says what is claimed of the launch. *)
LEMMA BootInvIsSafe == BootInv => BootSafe
BY DEF BootInv, BootTypeOK, BootSafe, NoHelperLeft, HelperOfSession, Helpers, Alive

(* For any number of sessions, with or without another copy of the game:    *)
(* the launch stays inside the helper and nothing the stubs handed out is   *)
(* forgotten, but for an unread import or a stray; the init that is applied *)
(* and the exit signal are of this session; a session that is over leaves   *)
(* no helper running; and a helper that gives up never ends the game        *)
(* (StartSession, InitializeInjected, the stubs).                           *)
THEOREM BootSafety == BootSpec => []BootSafe
<1>1. BootSpec => []BootInv
  BY BootInitIsSafe, BootInductive, PTL DEF BootSpec
<1> QED
  BY <1>1, BootInvIsSafe, PTL

--------------------------------------------------------------------------------
(* Adoption.                                                                 *)

(* An attachment that is staged and then decided. *)
Ours == Tournament \/ External
(* What the mod has not taken, begun or set up. *)
Untaken(m) == ~m.guard /\ ~m.own
Unbegun(m) == ~m.initFn /\ m.role = "Unknown" /\ m.gen = 0 /\ m.attach = "Idle"
Unhooked(m) ==
  /\ ~m.armed /\ ~m.tick /\ ~m.frame /\ ~m.iat /\ ~m.intercepted /\ ~m.observed
  /\ m.cleanup = "Inactive" /\ m.inits = 0
(* Before the staging. *)
Early == adopter.pc \in {"start", "poll", "found", "guarded"} \/ (adopter.pc = "ipc" /\ ~Tournament)
(* What the mod holds at each stage up to the hooks. *)
Begun ==
  /\ adopter.pc \in {"start", "poll", "found"} => Untaken(mod)
  /\ Early => Unbegun(mod)
  /\ Early \/ adopter.pc = "hooks" => Unhooked(mod)
  /\ adopter.pc \in {"found", "guarded", "ipc"} => mod.disp = adopter.snap.disp
  /\ adopter.pc \in {"start", "poll"} => mod.disp = "DirectGameHost"
  /\ adopter.pc = "guarded" => External /\ mod.guard /\ ~mod.own
  /\ adopter.pc = "ipc" /\ ~Tournament => External /\ mod.guard /\ mod.own
LeftClean ==
  adopter.pc = "done" /\ mod.disp = "PassiveFailClosed" =>
    Untaken(mod) /\ Unbegun(mod) /\ Unhooked(mod)
(* The attachment is pending exactly from its staging to its decision, with what *)
(* was taken for it.                                                            *)
Staged ==
  \/ adopter.pc \in {"hooks", "boundary", "early", "revalidate"}
  \/ adopter.pc = "ipc" /\ Tournament
  \/ adopter.pc = "ui" /\ Ours
StagedIsPending ==
  /\ adopter.pc \in {"hooks", "boundary", "early", "revalidate"} => Ours
  /\ adopter.pc = "early" => Tournament
  /\ mod.attach = "Pending" <=> Staged
  /\ Staged => mod.disp = adopter.snap.disp /\ (External => mod.guard /\ mod.own)
  /\ mod.attach \in {"Commit", "Quarantine"} => adopter.pc = "done"
UnattachedAtUi ==
  adopter.pc = "ui" /\ ~Ours =>
    /\ mod.disp = adopter.snap.disp
    /\ mod.disp \in {"DirectGameHost", "AttachExistingPractice"}
    /\ ~mod.own /\ ~mod.intercepted
(* Without the tick hook the game just runs; with it, it parks at its next tick  *)
(* while the attachment is pending, and skips ticks only after the decision.    *)
FrameInv ==
  /\ mod.attach = "Pending" => frameThread \in {"between", "native", "parked"}
  /\ mod.attach = "Pending" => (mod.observed <=> frameThread = "parked")
  /\ ~mod.tick => frameThread \in {"between", "native"}
  /\ frameThread = "post" => adopter.pc = "done" /\ mod.attach = "Idle"
(* What the last look saw is still there: the game has been parked since.        *)
Untouched ==
  /\ \/ adopter.pc \in {"early", "revalidate"}
     \/ adopter.pc = "ipc" /\ Tournament
     => mod.observed
  /\ adopter.pc = "ui" /\ Ours /\ mod.tick /\ ~mod.intercepted =>
       mod.observed /\ nat.ready /\ (External => nat.bound)
(* A cleanup begins after a quarantine, with the local initialisation to come.    *)
CleanupOnce ==
  /\ adopter.pc # "done" \/ mod.attach # "Idle" => mod.cleanup = "Inactive" /\ mod.inits = 0
  /\ mod.cleanup \in {"RestoreExe", "InitializeLocal"} => mod.inits = 0
  /\ mod.inits \in {0, 1}
Dispositions == Managed \cup {"PassiveFailClosed", "AwaitExternalSession", "DirectGameHost"}
AdoptPlaces ==
  {"start", "poll", "found", "guarded", "ipc", "hooks", "boundary", "early", "revalidate", "ui",
   "done"}
SnapType ==
  [disp : Dispositions \cup {"none"}, gen : 0 .. MaxGen, kind : Roles \cup {"None", "Unknown"},
   role : Roles \cup {"Unknown"}, ready : BOOLEAN]
NatType ==
  [dll : {"none", "exact", "foreign", "unknown"}, boot : BOOLEAN, role : Roles \cup {"Unknown"},
   kind : Roles \cup {"None", "Unknown"}, gen : 0 .. MaxGen, ready : BOOLEAN, bound : BOOLEAN]
AdopterType == [pc : AdoptPlaces, snap : SnapType, polls : 0 .. MaxPolls, withParent : BOOLEAN]
Attaches == {"Idle", "Pending", "Commit", "Quarantine"}
Cleanups ==
  {"Inactive", "RestoreExe", "InitializeLocal", "RestoreDll", "PublishTitle", "Quarantined"}
ModType ==
  [disp : Dispositions, allowed : BOOLEAN, initFn : BOOLEAN, role : Roles \cup {"Unknown"},
   gen : 0 .. MaxGen, guard : BOOLEAN, own : BOOLEAN, armed : BOOLEAN, tick : BOOLEAN,
   frame : BOOLEAN, iat : BOOLEAN, intercepted : BOOLEAN, attach : Attaches, observed : BOOLEAN,
   cleanup : Cleanups, inits : Nat, ui : {"none"}]
AdoptTypes ==
  /\ parent \in [kind : {"none", "named", "exact"}, alive : BOOLEAN]
  /\ nat \in NatType
  /\ adopter \in AdopterType
  /\ mod \in ModType
  /\ frameThread \in {"between", "parked", "decide", "native", "post"}
  /\ fails \in 0 .. MaxFailures
(* The inductive invariant. *)
StagesInv ==
  /\ Begun /\ LeftClean /\ StagedIsPending /\ UnattachedAtUi /\ FrameInv /\ Untouched
  /\ CleanupOnce /\ CommitIsExact /\ AdoptedIsBound
AdoptInv == AdoptTypes /\ StagesInv
(* A snapshot is well-formed, and one that admits an adoption saw the session  *)
(* bound to this game's launcher.                                              *)
LEMMA Snapshots ==
  ASSUME nat \in NatType, NEW w \in BOOLEAN
  PROVE  /\ Snapshot(w) \in SnapType
         /\ Snapshot(w).disp \in Dispositions
         /\ Snapshot(w).disp \in Adopted => nat.bound
         /\ Snapshot(w).ready = nat.ready
<1> DEFINE e == [parent |-> w, dll |-> TRUE, exact |-> TRUE,
                 boot |-> IsNativeFrameBootstrapInstalled, session |-> nat.kind # "None",
                 kind |-> nat.kind, role |-> nat.role, bound |-> ValidateParentBinding(w)]
<1>1. e.bound = ValidateParentBinding(w)
  OBVIOUS
<1> HIDE DEF e
<1>2. ClassifyObject(e) \in Dispositions /\ (ClassifyObject(e) \in Adopted => e.bound)
  BY DEF ClassifyObject, Dispositions, Managed, Adopted
<1>3. ClassifyLaunch(e) \in Dispositions /\ (ClassifyLaunch(e) \in Adopted => e.bound)
  BY <1>2 DEF ClassifyLaunch, Dispositions, Managed, Adopted
<1>4. Snapshot(w) = [disp |-> ClassifyLaunch(e), gen |-> nat.gen, kind |-> nat.kind,
                     role |-> nat.role, ready |-> nat.ready]
  BY DEF Snapshot, e, ReadSessionReadiness
<1>5. /\ nat.gen \in 0 .. MaxGen /\ nat.kind \in Roles \cup {"None", "Unknown"}
      /\ nat.role \in Roles \cup {"Unknown"} /\ nat.ready \in BOOLEAN
  BY DEF NatType
<1>6. ValidateParentBinding(w) => nat.bound
  BY DEF ValidateParentBinding
<1> QED BY <1>1, <1>3, <1>4, <1>5, <1>6 DEF SnapType

(* What a step that moves the thread leaves of its record.                    *)
LEMMA Goes ==
  ASSUME adopter \in AdopterType, NEW p \in AdoptPlaces, Go(p)
  PROVE  /\ adopter' \in AdopterType
         /\ adopter'.pc = p /\ adopter'.snap = adopter.snap
         /\ adopter'.withParent = adopter.withParent
  BY DEF Go, AdopterType

(* The probe ends with a disposition, and the mod has nothing yet.            *)
LEMMA FoundKeeps ==
  ASSUME AdoptInv, adopter.pc \in {"start", "poll"}, UNCHANGED <<parent, nat, frameThread, fails>>,
         NEW d \in Dispositions, NEW s \in SnapType, NEW w \in BOOLEAN, Found(d, s, w)
  PROVE  AdoptInv'
<1>1. [s EXCEPT !.disp = d] \in SnapType /\ [s EXCEPT !.disp = d].disp = d
  BY DEF SnapType
<1>2. adopter \in AdopterType /\ mod \in ModType
  BY DEF AdoptInv, AdoptTypes
<1>3. [adopter EXCEPT !.pc = "found", !.snap = [s EXCEPT !.disp = d], !.withParent = w]
        \in AdopterType
  BY <1>1, <1>2 DEF AdopterType, AdoptPlaces
<1>4. [mod EXCEPT !.disp = d] \in ModType
  BY <1>2, Zenon DEF ModType
<1>5. AdoptTypes'
  BY <1>3, <1>4 DEF AdoptInv, AdoptTypes, Found
<1>6. adopter'.pc = "found" /\ adopter'.snap.disp = d
  BY <1>1, <1>2 DEF Found, AdopterType
<1>7. StagesInv'
  BY <1>6 DEF AdoptInv, AdoptTypes, AdopterType, ModType, NatType, StagesInv, Begun, LeftClean,
    StagedIsPending, UnattachedAtUi, FrameInv, Untouched, CleanupOnce, CommitIsExact,
    AdoptedIsBound, Staged, Ours, Tournament, External, Untaken, Unbegun, Unhooked, Early,
    Adopted, Managed, Found
<1> QED BY <1>5, <1>7 DEF AdoptInv

(* So does the probe of a Revival that was loaded without a parent.           *)
LEMMA ProbeKeeps ==
  ASSUME AdoptInv, adopter.pc \in {"start", "poll"}, UNCHANGED <<parent, nat, frameThread, fails>>,
         NEW d \in Dispositions, ProbePreloaded(d)
  PROVE  AdoptInv'
<1>1. NoSnapshot \in SnapType /\ "PassiveFailClosed" \in Dispositions
  BY AdoptionAssumption DEF NoSnapshot, SnapType, Dispositions
<1>2. Snapshot(FALSE) \in SnapType /\ Snapshot(FALSE).disp \in Dispositions
  BY Snapshots DEF AdoptInv, AdoptTypes
<1>3. \/ Found(d, NoSnapshot, FALSE)
      \/ Found("PassiveFailClosed", NoSnapshot, FALSE)
      \/ Found(Snapshot(FALSE).disp, Snapshot(FALSE), FALSE)
  BY DEF ProbePreloaded
<1> QED BY <1>1, <1>2, <1>3, FoundKeeps

(* An attachment that fails closed before the hooks are in place, having      *)
(* given back what it took.                                                   *)
LEMMA FailClosedKeeps ==
  ASSUME AdoptInv, UNCHANGED <<parent, nat, frameThread, fails>>,
         Early \/ adopter.pc = "hooks",
         NEW m \in ModType, Untaken(m), Unbegun(m), Unhooked(m), FailClosed(m)
  PROVE  AdoptInv'
<1>1. adopter' = [adopter EXCEPT !.pc = "done"]
  BY DEF FailClosed, Returns
<1>2. [m EXCEPT !.allowed = FALSE, !.disp = "PassiveFailClosed"] \in ModType
  BY Zenon DEF ModType, Dispositions
<1>3. AdoptTypes' /\ adopter'.pc = "done" /\ adopter'.snap = adopter.snap
  BY <1>1, <1>2, Goes DEF AdoptInv, AdoptTypes, FailClosed, Go, AdoptPlaces
<1>4. /\ Untaken(mod') /\ Unbegun(mod') /\ Unhooked(mod')
  BY DEF FailClosed, ModType, Untaken, Unbegun, Unhooked
<1>5. ~mod.tick
  BY DEF AdoptInv, StagesInv, Begun, Unhooked
<1>6. StagesInv'
  BY <1>3, <1>4, <1>5 DEF AdoptInv, AdoptTypes, AdopterType, ModType, NatType, StagesInv, Begun,
    LeftClean, StagedIsPending, UnattachedAtUi, FrameInv, Untouched, CleanupOnce, CommitIsExact,
    AdoptedIsBound, Staged, Ours, Tournament, External, Untaken, Unbegun, Unhooked, Early,
    Adopted, Managed
<1> QED BY <1>3, <1>6 DEF AdoptInv

(* A staged attachment that cannot go on is marked for recovery.              *)
LEMMA RecoveryKeeps ==
  ASSUME AdoptInv, UNCHANGED <<parent, nat, frameThread, fails>>,
         Staged, adopter.pc \notin {"hooks", "ui"}, NEW b \in BOOLEAN,
         \/ RequestManagedAttachRecovery(mod)
         \/ RequestManagedAttachRecovery([mod EXCEPT !.iat = b])
  PROVE  AdoptInv'
<1>1. adopter' = [adopter EXCEPT !.pc = "ui"]
  BY DEF RequestManagedAttachRecovery, Returns
<1>2. mod \in ModType
  BY DEF AdoptInv, AdoptTypes
<1>3. [mod EXCEPT !.intercepted = TRUE] \in ModType
  BY <1>2, Zenon DEF ModType
<1>4. [[mod EXCEPT !.iat = b] EXCEPT !.intercepted = TRUE] \in ModType
  <2>1. [mod EXCEPT !.iat = b] \in ModType
    BY <1>2, Zenon DEF ModType
  <2> QED BY <2>1, Zenon DEF ModType
<1>5. AdoptTypes' /\ adopter'.pc = "ui" /\ adopter'.snap = adopter.snap
  BY <1>1, <1>3, <1>4, Goes DEF AdoptInv, AdoptTypes, RequestManagedAttachRecovery, Go, AdoptPlaces
<1>6. /\ mod'.intercepted
      /\ mod'.disp = mod.disp /\ mod'.attach = mod.attach /\ mod'.guard = mod.guard
      /\ mod'.own = mod.own /\ mod'.tick = mod.tick /\ mod'.observed = mod.observed
      /\ mod'.cleanup = mod.cleanup /\ mod'.inits = mod.inits
  BY <1>2 DEF RequestManagedAttachRecovery, ModType
<1>7. StagesInv'
  BY <1>5, <1>6 DEF AdoptInv, AdoptTypes, AdopterType, ModType, NatType, StagesInv, Begun,
    LeftClean, StagedIsPending, UnattachedAtUi, FrameInv, Untouched, CleanupOnce, CommitIsExact,
    AdoptedIsBound, Staged, Ours, Tournament, External, Untaken, Unbegun, Unhooked, Early,
    Adopted, Managed
<1> QED BY <1>5, <1>7 DEF AdoptInv

(* A further look that found everything as it was admitted.                   *)
LEMMA RevalidatedFacts ==
  ASSUME AdoptInv, Revalidated
  PROVE  /\ adopter.snap.disp \in Adopted => nat.bound
         /\ adopter.snap.disp # "AttachExistingPractice" => nat.ready
  BY Snapshots DEF AdoptInv, AdoptTypes, AdopterType, Revalidated, SnapshotNow

(* The probe begins to poll, or has found what it can.                      *)
LEMMA CaptureExactParentKeeps ==
  ASSUME AdoptInv, CaptureExactParent
  PROVE  AdoptInv'
<1>1. CASE Go("poll") /\ UNCHANGED mod
  <2>1. AdoptTypes' /\ adopter'.pc = "poll" /\ adopter'.snap = adopter.snap
    BY <1>1, Goes DEF AdoptInv, AdoptTypes, CaptureExactParent, AdoptPlaces
  <2>2. StagesInv'
    BY <1>1, <2>1 DEF AdoptInv, AdoptTypes, AdopterType, ModType, NatType, StagesInv, Begun,
      LeftClean, StagedIsPending, UnattachedAtUi, FrameInv, Untouched, CleanupOnce, CommitIsExact,
      AdoptedIsBound, Staged, Ours, Tournament, External, Untaken, Unbegun, Unhooked, Early,
      Adopted, Managed, CaptureExactParent
  <2> QED BY <2>1, <2>2 DEF AdoptInv
<1>2. CASE ProbePreloaded(IF parent.kind = "none" THEN "DirectGameHost" ELSE "PassiveFailClosed")
  <2>1. (IF parent.kind = "none" THEN "DirectGameHost" ELSE "PassiveFailClosed") \in Dispositions
    BY DEF Dispositions
  <2> QED BY <1>2, <2>1, ProbeKeeps DEF CaptureExactParent
<1> QED BY <1>1, <1>2 DEF CaptureExactParent

(* A round of the probe that does not end it changes nothing of the mod.    *)
LEMMA PollKeeps ==
  ASSUME AdoptInv, Poll
  PROVE  AdoptInv'
<1> DEFINE s == Snapshot(TRUE)
<1>1. /\ s \in SnapType /\ s.disp \in Dispositions
      /\ NoSnapshot \in SnapType /\ "PassiveFailClosed" \in Dispositions
  <2>1. s \in SnapType /\ s.disp \in Dispositions
    BY Snapshots DEF AdoptInv, AdoptTypes
  <2>2. NoSnapshot \in SnapType /\ "PassiveFailClosed" \in Dispositions
    BY AdoptionAssumption DEF NoSnapshot, SnapType, Dispositions
  <2> QED BY <2>1, <2>2
<1>2. \/ ProbePreloaded("PassiveFailClosed")
      \/ Found("PassiveFailClosed", NoSnapshot, FALSE)
      \/ Found(s.disp, s, TRUE)
      \/ /\ adopter.polls > 0
         /\ adopter' = [adopter EXCEPT !.polls = @ - 1] /\ UNCHANGED mod
  BY DEF Poll
<1>3. CASE adopter.polls > 0 /\ adopter' = [adopter EXCEPT !.polls = @ - 1] /\ UNCHANGED mod
  <2>1. adopter \in AdopterType /\ adopter.polls - 1 \in 0 .. MaxPolls
    BY <1>3, AdoptionAssumption DEF AdoptInv, AdoptTypes, AdopterType
  <2>2. /\ adopter' \in AdopterType /\ adopter'.pc = adopter.pc /\ adopter'.snap = adopter.snap
        /\ adopter'.withParent = adopter.withParent
    BY <1>3, <2>1 DEF AdopterType
  <2>3. AdoptTypes'
    BY <1>3, <2>2 DEF AdoptInv, AdoptTypes, Poll
  <2>4. StagesInv'
    BY <1>3, <2>2 DEF AdoptInv, AdoptTypes, AdopterType, ModType, NatType, StagesInv, Begun,
      LeftClean, StagedIsPending, UnattachedAtUi, FrameInv, Untouched, CleanupOnce, CommitIsExact,
      AdoptedIsBound, Staged, Ours, Tournament, External, Untaken, Unbegun, Unhooked, Early,
      Adopted, Managed, Poll
  <2> QED BY <2>3, <2>4 DEF AdoptInv
<1>4. adopter.pc = "poll" /\ UNCHANGED <<parent, nat, frameThread, fails>>
  BY DEF Poll
<1> HIDE DEF s
<1> QED BY <1>1, <1>2, <1>3, <1>4, FoundKeeps, ProbeKeeps

(* A Revival of the mod's own is no session: nothing is staged.             *)
LEMMA LoadOwnKeeps ==
  ASSUME AdoptInv, LoadOwn
  PROVE  AdoptInv'
<1>1. CASE Returns(FALSE) /\ UNCHANGED <<mod, nat>>
  <2>1. AdoptTypes' /\ adopter'.pc = "done" /\ adopter'.snap = adopter.snap
    BY <1>1, Goes DEF AdoptInv, AdoptTypes, LoadOwn, Returns, Go, AdoptPlaces
  <2>2. StagesInv'
    BY <1>1, <2>1 DEF AdoptInv, AdoptTypes, AdopterType, ModType, NatType, StagesInv, Begun,
      LeftClean, StagedIsPending, UnattachedAtUi, FrameInv, Untouched, CleanupOnce, CommitIsExact,
      AdoptedIsBound, Staged, Ours, Tournament, External, Untaken, Unbegun, Unhooked, Early,
      Adopted, Managed, LoadOwn
  <2> QED BY <2>1, <2>2 DEF AdoptInv
<1>2. ASSUME NEW h \in BOOLEAN, NEW i \in BOOLEAN,
             nat' = [nat EXCEPT !.dll = "exact", !.role = "Practice", !.boot = TRUE],
             mod' = [mod EXCEPT !.initFn = TRUE, !.role = "Practice", !.tick = h, !.iat = h /\ i],
             Returns(h)
      PROVE  AdoptInv'
  <2>1. mod \in ModType /\ nat \in NatType
    BY DEF AdoptInv, AdoptTypes
  <2>2. nat' \in NatType
    BY <1>2, <2>1 DEF NatType, Roles
  <2>3. mod' \in ModType
    <3>1. (h /\ i) \in BOOLEAN
      OBVIOUS
    <3>2. \A j \in BOOLEAN :
            [mod EXCEPT !.initFn = TRUE, !.role = "Practice", !.tick = h, !.iat = j] \in ModType
      BY <2>1, Zenon DEF ModType, Roles
    <3> QED BY <1>2, <3>1, <3>2, Zenon
  <2>4. adopter' \in AdopterType /\ adopter'.pc = (IF h THEN "ui" ELSE "done")
        /\ adopter'.snap = adopter.snap
    BY <1>2, Goes DEF AdoptInv, AdoptTypes, Returns, Go, AdoptPlaces
  <2>5. AdoptTypes'
    BY <2>2, <2>3, <2>4 DEF AdoptInv, AdoptTypes, LoadOwn
  <2>6. /\ mod'.tick = h /\ mod'.attach = mod.attach /\ mod'.disp = mod.disp
        /\ mod'.own = mod.own /\ mod'.intercepted = mod.intercepted
        /\ mod'.cleanup = mod.cleanup /\ mod'.inits = mod.inits
    BY <1>2, <2>1 DEF ModType
  <2>7. StagesInv'
    <3>1. CASE h
      <4>1. /\ mod.attach = "Idle" /\ mod.disp = "DirectGameHost" /\ ~mod.own /\ ~mod.intercepted
            /\ mod.cleanup = "Inactive" /\ mod.inits = 0 /\ ~Ours /\ ~Ours'
            /\ frameThread \in {"between", "native"} /\ frameThread' = frameThread
            /\ adopter.snap.disp = "DirectGameHost"
        BY <2>4 DEF AdoptInv, StagesInv, Begun, Early, Untaken, Unbegun, Unhooked, FrameInv,
          LoadOwn, Ours, Tournament, External, Adopted
      <4>2. adopter'.pc = "ui" /\ mod'.attach = "Idle"
        BY <2>4, <2>6, <3>1, <4>1
      <4> QED BY <2>4, <2>6, <4>1, <4>2 DEF StagesInv, Begun, LeftClean, StagedIsPending,
        UnattachedAtUi, FrameInv, Untouched, CleanupOnce, CommitIsExact, AdoptedIsBound, Staged,
        Ours, Tournament, External, Untaken, Unbegun, Unhooked, Early, Adopted, Managed
    <3>2. CASE ~h
      BY <1>2, <2>4, <2>6, <3>2 DEF AdoptInv, AdoptTypes, AdopterType, ModType, NatType,
        StagesInv, Begun, LeftClean, StagedIsPending, UnattachedAtUi, FrameInv, Untouched,
        CleanupOnce, CommitIsExact, AdoptedIsBound, Staged, Ours, Tournament, External, Untaken,
        Unbegun, Unhooked, Early, Adopted, Managed, LoadOwn
    <3> QED BY <3>1, <3>2
  <2> QED BY <2>5, <2>7 DEF AdoptInv
<1> QED BY <1>1, <1>2 DEF LoadOwn

(* Nothing was taken when the mod stays passive.                            *)
LEMMA StayPassiveKeeps ==
  ASSUME AdoptInv, StayPassive
  PROVE  AdoptInv'
<1>1. mod \in ModType
  BY DEF AdoptInv, AdoptTypes
<1>2. [mod EXCEPT !.allowed = FALSE] \in ModType
  BY <1>1, Zenon DEF ModType
<1>3. AdoptTypes' /\ adopter'.pc = "done" /\ adopter'.snap = adopter.snap
  BY <1>2, Goes DEF AdoptInv, AdoptTypes, StayPassive, Returns, Go, AdoptPlaces
<1>4. StagesInv'
  BY <1>3 DEF AdoptInv, AdoptTypes, AdopterType, ModType, NatType, StagesInv, Begun, LeftClean,
    StagedIsPending, UnattachedAtUi, FrameInv, Untouched, CleanupOnce, CommitIsExact,
    AdoptedIsBound, Staged, Ours, Tournament, External, Untaken, Unbegun, Unhooked, Early,
    Adopted, Managed, StayPassive
<1> QED BY <1>3, <1>4 DEF AdoptInv

(* The mod as it stands may fail closed while nothing is taken.               *)
LEMMA NothingTaken ==
  ASSUME AdoptInv, adopter.pc = "found"
  PROVE  mod \in ModType /\ Early /\ Untaken(mod) /\ Unbegun(mod) /\ Unhooked(mod)
  BY DEF AdoptInv, AdoptTypes, StagesInv, Begun, Early

(* A practice session is used as it stands, without staging.                *)
LEMMA AttachPracticeKeeps ==
  ASSUME AdoptInv, AttachPractice
  PROVE  AdoptInv'
<1>1. CASE FailClosed(mod)
  BY <1>1, NothingTaken, FailClosedKeeps DEF AttachPractice
<1>2. CASE /\ mod' = [mod EXCEPT !.initFn = TRUE, !.role = adopter.snap.role,
                                 !.gen = adopter.snap.gen]
           /\ Returns(TRUE)
  <2>1. mod \in ModType /\ adopter.snap.role \in Roles \cup {"Unknown"}
        /\ adopter.snap.gen \in 0 .. MaxGen
    BY DEF AdoptInv, AdoptTypes, AdopterType, SnapType
  <2>2. mod' \in ModType
    BY <1>2, <2>1, Zenon DEF ModType
  <2>3. AdoptTypes' /\ adopter'.pc = "ui" /\ adopter'.snap = adopter.snap
    BY <1>2, <2>2, Goes DEF AdoptInv, AdoptTypes, AttachPractice, Returns, Go, AdoptPlaces
  <2>4. StagesInv'
    BY <1>2, <2>1, <2>3 DEF AdoptInv, AdoptTypes, AdopterType, ModType, NatType, StagesInv, Begun,
      LeftClean, StagedIsPending, UnattachedAtUi, FrameInv, Untouched, CleanupOnce, CommitIsExact,
      AdoptedIsBound, Staged, Ours, Tournament, External, Untaken, Unbegun, Unhooked, Early,
      Adopted, Managed, AttachPractice
  <2> QED BY <2>3, <2>4 DEF AdoptInv
<1> QED BY <1>1, <1>2 DEF AttachPractice

(* An exact module that has changed since the probe is left alone.           *)
LEMMA ModuleChangedKeeps ==
  ASSUME AdoptInv, ModuleChanged
  PROVE  AdoptInv'
<1>1. adopter' = [adopter EXCEPT !.pc = "done"]
  BY DEF ModuleChanged, Returns
<1>2. [mod EXCEPT !.allowed = FALSE] \in ModType
  BY NothingTaken, Zenon DEF ModuleChanged, ModType
<1>3. AdoptTypes' /\ adopter'.pc = "done" /\ adopter'.snap = adopter.snap
  BY <1>1, <1>2, Goes DEF AdoptInv, AdoptTypes, ModuleChanged, Go, AdoptPlaces
<1>4. /\ Untaken(mod') /\ Unbegun(mod') /\ Unhooked(mod') /\ mod'.disp = mod.disp
  BY NothingTaken DEF ModuleChanged, ModType, Untaken, Unbegun, Unhooked
<1>5. ~mod.tick /\ UNCHANGED <<parent, nat, frameThread, fails>>
  BY NothingTaken DEF Unhooked, ModuleChanged
<1>6. StagesInv'
  BY <1>3, <1>4, <1>5 DEF AdoptInv, AdoptTypes, AdopterType, ModType, NatType, StagesInv, Begun,
    LeftClean, StagedIsPending, UnattachedAtUi, FrameInv, Untouched, CleanupOnce, CommitIsExact,
    AdoptedIsBound, Staged, Ours, Tournament, External, Untaken, Unbegun, Unhooked, Early,
    Adopted, Managed
<1> QED BY <1>3, <1>6 DEF AdoptInv

(* An attachment is staged: a tournament at once, an online session after the  *)
(* shared block.                                                              *)
LEMMA StagingKeeps ==
  ASSUME AdoptInv, UNCHANGED <<parent, nat, frameThread, fails>>, Go("hooks"),
         \/ adopter.pc = "found" /\ Tournament
         \/ adopter.pc = "ipc" /\ External,
         mod' = [mod EXCEPT !.initFn = TRUE, !.role = adopter.snap.role, !.gen = adopter.snap.gen,
                            !.intercepted = FALSE, !.attach = "Pending", !.observed = FALSE]
  PROVE  AdoptInv'
<1>1. mod \in ModType /\ adopter.snap.role \in Roles \cup {"Unknown"}
      /\ adopter.snap.gen \in 0 .. MaxGen
  BY DEF AdoptInv, AdoptTypes, AdopterType, SnapType
<1>2. mod' \in ModType
  BY <1>1, Zenon DEF ModType, Attaches
<1>3. AdoptTypes' /\ adopter'.pc = "hooks" /\ adopter'.snap = adopter.snap
  BY <1>2, Goes DEF AdoptInv, AdoptTypes, AdoptPlaces
<1>4. /\ mod'.attach = "Pending" /\ ~mod'.observed /\ ~mod'.intercepted
      /\ mod'.disp = mod.disp /\ mod'.guard = mod.guard /\ mod'.own = mod.own
      /\ mod'.armed = mod.armed /\ mod'.tick = mod.tick /\ mod'.frame = mod.frame
      /\ mod'.iat = mod.iat /\ mod'.cleanup = mod.cleanup /\ mod'.inits = mod.inits
  BY <1>1 DEF ModType
<1>5. StagesInv'
  BY <1>3, <1>4 DEF AdoptInv, AdoptTypes, AdopterType, ModType, NatType, StagesInv, Begun,
    LeftClean, StagedIsPending, UnattachedAtUi, FrameInv, Untouched, CleanupOnce, CommitIsExact,
    AdoptedIsBound, Staged, Ours, Tournament, External, Untaken, Unbegun, Unhooked, Early,
    Adopted, Managed
<1> QED BY <1>3, <1>5 DEF AdoptInv

(* A tournament is staged at once, with nothing taken before.               *)
LEMMA StageTournamentKeeps ==
  ASSUME AdoptInv, StageTournament
  PROVE  AdoptInv'
<1>1. CASE FailClosed(mod)
  BY <1>1, NothingTaken, FailClosedKeeps DEF StageTournament
<1>2. CASE Go("hooks") /\ ~FailClosed(mod)
  BY <1>2, StagingKeeps DEF StageTournament
<1> QED BY <1>1, <1>2 DEF StageTournament

(* The guard is the first thing taken.                                      *)
LEMMA InstallGuardKeeps ==
  ASSUME AdoptInv, InstallGuard
  PROVE  AdoptInv'
<1>1. mod \in ModType
  BY DEF AdoptInv, AdoptTypes
<1>2. CASE FailClosed([mod EXCEPT !.guard = FALSE])
  <2> DEFINE m == [mod EXCEPT !.guard = FALSE]
  <2>1. m \in ModType
    BY <1>1, Zenon DEF ModType
  <2>2. Early /\ Untaken(m) /\ Unbegun(m) /\ Unhooked(m)
    BY <1>1, NothingTaken DEF InstallGuard, ModType, Untaken, Unbegun, Unhooked
  <2> HIDE DEF m
  <2>3. FailClosed(m)
    BY <1>2 DEF m
  <2> QED BY <2>1, <2>2, <2>3, FailClosedKeeps DEF InstallGuard
<1>3. CASE mod' = [mod EXCEPT !.guard = TRUE] /\ Go("guarded")
  <2>1. mod' \in ModType
    BY <1>1, <1>3, Zenon DEF ModType
  <2>2. AdoptTypes' /\ adopter'.pc = "guarded" /\ adopter'.snap = adopter.snap
    BY <1>3, <2>1, Goes DEF AdoptInv, AdoptTypes, InstallGuard, AdoptPlaces
  <2>3. StagesInv'
    BY <1>1, <1>3, <2>2 DEF AdoptInv, AdoptTypes, AdopterType, ModType, NatType, StagesInv, Begun,
      LeftClean, StagedIsPending, UnattachedAtUi, FrameInv, Untouched, CleanupOnce, CommitIsExact,
      AdoptedIsBound, Staged, Ours, Tournament, External, Untaken, Unbegun, Unhooked, Early,
      Adopted, Managed, InstallGuard
  <2> QED BY <2>2, <2>3 DEF AdoptInv
<1> QED BY <1>2, <1>3 DEF InstallGuard

(* The handle is the second, and a failure gives back the first.            *)
LEMMA OwnParentKeeps ==
  ASSUME AdoptInv, OwnParent
  PROVE  AdoptInv'
<1>1. mod \in ModType
  BY DEF AdoptInv, AdoptTypes
<1>2. CASE FailClosed([mod EXCEPT !.guard = FALSE])
  <2> DEFINE m == [mod EXCEPT !.guard = FALSE]
  <2>1. m \in ModType
    BY <1>1, Zenon DEF ModType
  <2>2. Early /\ Untaken(m) /\ Unbegun(m) /\ Unhooked(m)
    BY <1>1 DEF AdoptInv, StagesInv, Begun, Early, OwnParent, ModType, Untaken, Unbegun, Unhooked
  <2> HIDE DEF m
  <2>3. FailClosed(m)
    BY <1>2 DEF m
  <2> QED BY <2>1, <2>2, <2>3, FailClosedKeeps DEF OwnParent
<1>3. CASE mod' = [mod EXCEPT !.own = TRUE] /\ Go("ipc")
  <2>1. mod' \in ModType
    BY <1>1, <1>3, Zenon DEF ModType
  <2>2. AdoptTypes' /\ adopter'.pc = "ipc" /\ adopter'.snap = adopter.snap
    BY <1>3, <2>1, Goes DEF AdoptInv, AdoptTypes, OwnParent, AdoptPlaces
  <2>3. StagesInv'
    BY <1>1, <1>3, <2>2 DEF AdoptInv, AdoptTypes, AdopterType, ModType, NatType, StagesInv, Begun,
      LeftClean, StagedIsPending, UnattachedAtUi, FrameInv, Untouched, CleanupOnce, CommitIsExact,
      AdoptedIsBound, Staged, Ours, Tournament, External, Untaken, Unbegun, Unhooked, Early,
      Adopted, Managed, OwnParent
  <2> QED BY <2>2, <2>3 DEF AdoptInv
<1> QED BY <1>2, <1>3 DEF OwnParent

(* The shared block is the third; a tournament is staged by then.           *)
LEMMA StageIpcKeeps ==
  ASSUME AdoptInv, StageIpc
  PROVE  AdoptInv'
<1>1. mod \in ModType
  BY DEF AdoptInv, AdoptTypes
<1>2. CASE Tournament /\ Go("revalidate") /\ UNCHANGED mod
  <2>1. AdoptTypes' /\ adopter'.pc = "revalidate" /\ adopter'.snap = adopter.snap
    BY <1>2, Goes DEF AdoptInv, AdoptTypes, StageIpc, AdoptPlaces
  <2>2. StagesInv'
    BY <1>2, <2>1 DEF AdoptInv, AdoptTypes, AdopterType, ModType, NatType, StagesInv, Begun,
      LeftClean, StagedIsPending, UnattachedAtUi, FrameInv, Untouched, CleanupOnce, CommitIsExact,
      AdoptedIsBound, Staged, Ours, Tournament, External, Untaken, Unbegun, Unhooked, Early,
      Adopted, Managed, StageIpc
  <2> QED BY <2>1, <2>2 DEF AdoptInv
<1>3. CASE Tournament /\ RequestManagedAttachRecovery(mod)
  BY <1>3, RecoveryKeeps DEF StageIpc, Staged
<1>4. CASE External /\ FailIpc
  <2> DEFINE m == [mod EXCEPT !.own = FALSE, !.guard = FALSE]
  <2>1. m \in ModType
    BY <1>1, Zenon DEF ModType
  <2>2. ~Tournament
    BY <1>4 DEF External, Tournament, Adopted
  <2>3. Early /\ Untaken(m) /\ Unbegun(m) /\ Unhooked(m)
    BY <1>1, <2>2 DEF AdoptInv, StagesInv, Begun, Early, StageIpc, ModType, Untaken, Unbegun,
      Unhooked
  <2> HIDE DEF m
  <2>4. FailClosed(m)
    BY <1>4 DEF m, FailIpc
  <2> QED BY <2>1, <2>3, <2>4, FailClosedKeeps DEF StageIpc
<1>5. CASE /\ External /\ Go("hooks")
           /\ mod' = [mod EXCEPT !.initFn = TRUE, !.role = adopter.snap.role,
                                 !.gen = adopter.snap.gen, !.intercepted = FALSE,
                                 !.attach = "Pending", !.observed = FALSE]
  BY <1>5, StagingKeeps DEF StageIpc
<1> QED BY <1>2, <1>3, <1>4, <1>5 DEF StageIpc

(* Without any hook nothing is left; with one, nothing ran under it yet.    *)
LEMMA InstallHooksKeeps ==
  ASSUME AdoptInv, InstallHooks
  PROVE  AdoptInv'
<1>1. mod \in ModType
  BY DEF AdoptInv, AdoptTypes
<1>2. Unhooked(mod) /\ Ours /\ (External => mod.guard /\ mod.own) /\ mod.attach = "Pending"
      /\ mod.disp = adopter.snap.disp
  BY DEF AdoptInv, StagesInv, Begun, StagedIsPending, Staged, InstallHooks
<1> DEFINE m == [mod EXCEPT !.armed = External]
<1>3. m \in ModType
  <2>1. External \in BOOLEAN
    BY DEF External
  <2> QED BY <1>1, <2>1, Zenon DEF ModType
<1>4. /\ m.attach = mod.attach /\ m.disp = mod.disp /\ m.guard = mod.guard /\ m.own = mod.own
      /\ m.tick = mod.tick /\ m.frame = mod.frame /\ m.iat = mod.iat
      /\ m.intercepted = mod.intercepted /\ m.observed = mod.observed
      /\ m.cleanup = mod.cleanup /\ m.inits = mod.inits
  BY <1>1 DEF ModType
<1>5. adopter.pc = "hooks" /\ UNCHANGED <<parent, nat, frameThread, fails>>
  BY DEF InstallHooks
<1> HIDE DEF m
<1>6. CASE FailClosed([Unstaged(m) EXCEPT !.own = FALSE, !.guard = FALSE])
  <2>1. Unstaged(m) \in ModType
    <3>1. 0 \in 0 .. MaxGen
      BY AdoptionAssumption
    <3> QED BY <1>3, <3>1, Zenon DEF ModType, Unstaged, Attaches
  <2>2. /\ Unbegun(Unstaged(m)) /\ ~Unstaged(m).armed
        /\ Unstaged(m).tick = m.tick /\ Unstaged(m).frame = m.frame /\ Unstaged(m).iat = m.iat
        /\ ~Unstaged(m).intercepted /\ Unstaged(m).observed = m.observed
        /\ Unstaged(m).cleanup = m.cleanup /\ Unstaged(m).inits = m.inits
    BY <1>3 DEF ModType, Unstaged, Unbegun
  <2> DEFINE u == Unstaged(m)
  <2> DEFINE v == [u EXCEPT !.own = FALSE, !.guard = FALSE]
  <2> HIDE DEF u
  <2>3. u \in ModType
    BY <2>1 DEF u
  <2>4. v \in ModType
    BY <2>3, Zenon DEF ModType
  <2>5. Unhooked(u) /\ Unbegun(u)
    BY <1>2, <1>4, <2>2 DEF u, Unhooked
  <2>6. Untaken(v) /\ Unbegun(v) /\ Unhooked(v)
    BY <2>3, <2>5 DEF ModType, Untaken, Unbegun, Unhooked
  <2>7. FailClosed(v)
    BY <1>6 DEF u
  <2> HIDE DEF v
  <2> QED BY <1>5, <2>4, <2>6, <2>7, FailClosedKeeps
<1>7. ASSUME NEW h \in BOOLEAN, NEW f \in BOOLEAN,
             mod' = [m EXCEPT !.tick = h, !.frame = f], Go("boundary")
      PROVE  AdoptInv'
  <2>1. mod' \in ModType
    BY <1>3, <1>7, Zenon DEF ModType
  <2>2. AdoptTypes' /\ adopter'.pc = "boundary" /\ adopter'.snap = adopter.snap
    BY <1>5, <1>7, <2>1, Goes DEF AdoptInv, AdoptTypes, AdoptPlaces
  <2>3. /\ mod'.attach = mod.attach /\ mod'.disp = mod.disp /\ mod'.guard = mod.guard
        /\ mod'.own = mod.own /\ mod'.observed = mod.observed
        /\ mod'.cleanup = mod.cleanup /\ mod'.inits = mod.inits
    BY <1>3, <1>4, <1>7 DEF ModType
  <2>4. StagesInv'
    BY <1>2, <1>5, <2>2, <2>3 DEF AdoptInv, AdoptTypes, AdopterType, ModType, NatType, StagesInv,
      Begun, LeftClean, StagedIsPending, UnattachedAtUi, FrameInv, Untouched, CleanupOnce,
      CommitIsExact, AdoptedIsBound, Staged, Ours, Tournament, External, Untaken, Unbegun,
      Unhooked, Early, Adopted, Managed
  <2> QED BY <2>2, <2>4 DEF AdoptInv
<1> QED BY <1>6, <1>7 DEF InstallHooks, m

(* The exits are patched in a game that is parked.                          *)
LEMMA PatchExitsKeeps ==
  ASSUME AdoptInv, PatchExits
  PROVE  AdoptInv'
<1>1. mod \in ModType /\ Staged /\ adopter.pc \notin {"hooks", "ui"}
  BY DEF AdoptInv, AdoptTypes, Staged, PatchExits
<1>2. CASE /\ mod.tick /\ BoundaryObserved
           /\ mod' = [mod EXCEPT !.iat = TRUE, !.armed = TRUE]
           /\ Go(IF Tournament THEN "early" ELSE "revalidate")
  <2>1. mod' \in ModType
    BY <1>1, <1>2, Zenon DEF ModType
  <2>2. (IF Tournament THEN "early" ELSE "revalidate") \in AdoptPlaces
    BY DEF AdoptPlaces
  <2>3. AdoptTypes' /\ adopter'.pc \in {"early", "revalidate"} /\ adopter'.snap = adopter.snap
        /\ (adopter'.pc = "early" => Tournament)
    BY <1>2, <2>1, <2>2, Goes DEF AdoptInv, AdoptTypes, PatchExits
  <2>4. /\ mod'.attach = mod.attach /\ mod'.disp = mod.disp /\ mod'.guard = mod.guard
        /\ mod'.own = mod.own /\ mod'.observed = mod.observed /\ mod'.tick = mod.tick
        /\ mod'.cleanup = mod.cleanup /\ mod'.inits = mod.inits
    BY <1>1, <1>2 DEF ModType
  <2>5. StagesInv'
    BY <1>2, <2>3, <2>4 DEF AdoptInv, AdoptTypes, AdopterType, ModType, NatType, StagesInv, Begun,
      LeftClean, StagedIsPending, UnattachedAtUi, FrameInv, Untouched, CleanupOnce, CommitIsExact,
      AdoptedIsBound, Staged, Ours, Tournament, External, Untaken, Unbegun, Unhooked, Early,
      Adopted, Managed, PatchExits, BoundaryObserved
  <2> QED BY <2>3, <2>5 DEF AdoptInv
<1>3. ASSUME NEW b \in BOOLEAN, RequestManagedAttachRecovery([mod EXCEPT !.iat = b])
      PROVE  AdoptInv'
  BY <1>1, <1>3, RecoveryKeeps DEF PatchExits
<1>4. CASE ~mod.tick /\ Returns(TRUE) /\ UNCHANGED mod
  <2>1. AdoptTypes' /\ adopter'.pc = "ui" /\ adopter'.snap = adopter.snap
    BY <1>4, Goes DEF AdoptInv, AdoptTypes, PatchExits, Returns, Go, AdoptPlaces
  <2>2. StagesInv'
    BY <1>4, <2>1 DEF AdoptInv, AdoptTypes, AdopterType, ModType, NatType, StagesInv, Begun,
      LeftClean, StagedIsPending, UnattachedAtUi, FrameInv, Untouched, CleanupOnce, CommitIsExact,
      AdoptedIsBound, Staged, Ours, Tournament, External, Untaken, Unbegun, Unhooked, Early,
      Adopted, Managed, PatchExits
  <2> QED BY <2>1, <2>2 DEF AdoptInv
<1>5. {FALSE, mod.observed} \subseteq BOOLEAN
  BY <1>1 DEF ModType
<1>6. CASE RequestManagedAttachRecovery(mod)
  BY <1>1, <1>6, RecoveryKeeps DEF PatchExits
<1> QED BY <1>2, <1>3, <1>4, <1>5, <1>6 DEF PatchExits

(* The first of a tournament's two looks before the user interface.         *)
LEMMA RevalidateEarlyKeeps ==
  ASSUME AdoptInv, RevalidateEarly
  PROVE  AdoptInv'
<1>1. CASE Go("ipc") /\ UNCHANGED mod
  <2>1. AdoptTypes' /\ adopter'.pc = "ipc" /\ adopter'.snap = adopter.snap
    BY <1>1, Goes DEF AdoptInv, AdoptTypes, RevalidateEarly, AdoptPlaces
  <2>2. StagesInv'
    BY <1>1, <2>1 DEF AdoptInv, AdoptTypes, AdopterType, ModType, NatType, StagesInv, Begun,
      LeftClean, StagedIsPending, UnattachedAtUi, FrameInv, Untouched, CleanupOnce, CommitIsExact,
      AdoptedIsBound, Staged, Ours, Tournament, External, Untaken, Unbegun, Unhooked, Early,
      Adopted, Managed, RevalidateEarly
  <2> QED BY <2>1, <2>2 DEF AdoptInv
<1>2. CASE RequestManagedAttachRecovery(mod)
  BY <1>2, RecoveryKeeps DEF RevalidateEarly, Staged
<1> QED BY <1>1, <1>2 DEF RevalidateEarly

(* What the last look saw holds until the commit: the game is parked.       *)
LEMMA RevalidateLastKeeps ==
  ASSUME AdoptInv, RevalidateLast
  PROVE  AdoptInv'
<1>1. CASE Revalidated /\ Returns(TRUE) /\ UNCHANGED mod
  <2>1. AdoptTypes' /\ adopter'.pc = "ui" /\ adopter'.snap = adopter.snap
    BY <1>1, Goes DEF AdoptInv, AdoptTypes, RevalidateLast, Returns, Go, AdoptPlaces
  <2>2. (External => nat.bound) /\ (Ours => nat.ready)
    BY <1>1, RevalidatedFacts DEF External, Ours, Tournament, Adopted
  <2>3. StagesInv'
    BY <1>1, <2>1, <2>2 DEF AdoptInv, AdoptTypes, AdopterType, ModType, NatType, StagesInv, Begun,
      LeftClean, StagedIsPending, UnattachedAtUi, FrameInv, Untouched, CleanupOnce, CommitIsExact,
      AdoptedIsBound, Staged, Ours, Tournament, External, Untaken, Unbegun, Unhooked, Early,
      Adopted, Managed, RevalidateLast
  <2> QED BY <2>1, <2>3 DEF AdoptInv
<1>2. CASE RequestManagedAttachRecovery(mod)
  BY <1>2, RecoveryKeeps DEF RevalidateLast, Staged
<1> QED BY <1>1, <1>2 DEF RevalidateLast

(* The thread ends, and what is still pending is quarantined.                 *)
LEMMA EndsKeeps ==
  ASSUME AdoptInv, UNCHANGED <<parent, nat, frameThread, fails>>, Go("done"),
         adopter.pc \in AdoptPlaces \ {"start", "done"},
         IF mod.attach = "Pending" THEN Quarantine ELSE UNCHANGED mod
  PROVE  AdoptInv'
<1>1. mod \in ModType
  BY DEF AdoptInv, AdoptTypes
<1>2. CASE mod.attach = "Pending"
  <2>1. mod' = [mod EXCEPT !.intercepted = TRUE, !.attach = "Quarantine"]
    BY <1>2 DEF Quarantine
  <2>2. mod' \in ModType
    BY <1>1, <2>1, Zenon DEF ModType, Attaches
  <2>3. AdoptTypes' /\ adopter'.pc = "done" /\ adopter'.snap = adopter.snap
    BY <2>2, Goes DEF AdoptInv, AdoptTypes, AdoptPlaces
  <2>4. /\ mod'.attach = "Quarantine" /\ mod'.disp = mod.disp /\ mod'.tick = mod.tick
        /\ mod'.cleanup = mod.cleanup /\ mod'.inits = mod.inits
    BY <1>1, <2>1 DEF ModType
  <2>5. mod.disp # "PassiveFailClosed"
    BY <1>2 DEF AdoptInv, StagesInv, StagedIsPending, Staged, Ours, Tournament, External, Adopted
  <2>6. StagesInv'
    BY <1>2, <2>3, <2>4, <2>5 DEF AdoptInv, AdoptTypes, AdopterType, ModType, NatType, StagesInv,
      Begun, LeftClean, StagedIsPending, UnattachedAtUi, FrameInv, Untouched, CleanupOnce,
      CommitIsExact, AdoptedIsBound, Staged, Ours, Tournament, External, Untaken, Unbegun,
      Unhooked, Early, Adopted, Managed
  <2> QED BY <2>3, <2>6 DEF AdoptInv
<1>3. CASE mod.attach # "Pending"
  <2>1. AdoptTypes' /\ adopter'.pc = "done" /\ adopter'.snap = adopter.snap
    BY <1>3, Goes DEF AdoptInv, AdoptTypes, AdoptPlaces
  <2>2. mod.disp = "PassiveFailClosed" => adopter.pc = "found"
    BY <1>3 DEF AdoptInv, StagesInv, Begun, StagedIsPending, UnattachedAtUi, Staged, Ours,
      Tournament, External, Adopted, AdoptPlaces
  <2>3. StagesInv'
    BY <1>3, <2>1, <2>2 DEF AdoptInv, AdoptTypes, AdopterType, ModType, NatType, StagesInv, Begun,
      LeftClean, StagedIsPending, UnattachedAtUi, FrameInv, Untouched, CleanupOnce, CommitIsExact,
      AdoptedIsBound, Staged, Ours, Tournament, External, Untaken, Unbegun, Unhooked, Early,
      Adopted, Managed
  <2> QED BY <2>1, <2>3 DEF AdoptInv
<1> QED BY <1>2, <1>3

(* An exception leaves nothing pending.                                     *)
LEMMA EmergencyQuarantineKeeps ==
  ASSUME AdoptInv, EmergencyQuarantine
  PROVE  AdoptInv'
<1>1. adopter.pc \in AdoptPlaces
  BY DEF AdoptInv, AdoptTypes, AdopterType
<1> QED BY <1>1, EndsKeeps DEF EmergencyQuarantine

(* The last look decides: committed, and then nothing has run since the one   *)
(* before, or quarantined.                                                    *)
LEMMA CompleteUiAttachmentKeeps ==
  ASSUME AdoptInv, CompleteUiAttachment
  PROVE  AdoptInv'
<1>1. mod \in ModType /\ adopter.pc = "ui" /\ Go("done")
      /\ UNCHANGED <<parent, nat, frameThread, fails>>
  BY DEF AdoptInv, AdoptTypes, CompleteUiAttachment
<1>2. mod.attach = "Pending" <=> Ours
  BY <1>1 DEF AdoptInv, StagesInv, StagedIsPending, Staged
<1>3. CASE ~Ours /\ UNCHANGED mod
  BY <1>1, <1>2, <1>3, EndsKeeps DEF AdoptPlaces
<1>4. CASE Ours /\ Quarantine
  BY <1>1, <1>2, <1>4, EndsKeeps DEF AdoptPlaces
<1>5. ASSUME Ours, NEW hooks \in BOOLEAN, NEW handoff \in BOOLEAN, Exact(hooks, handoff),
             mod' = [mod EXCEPT !.attach = "Commit"]
      PROVE  AdoptInv'
  <2>1. mod' \in ModType
    BY <1>1, <1>5, Zenon DEF ModType, Attaches
  <2>2. AdoptTypes' /\ adopter'.pc = "done" /\ adopter'.snap = adopter.snap
    BY <1>1, <2>1, Goes DEF AdoptInv, AdoptTypes, AdoptPlaces
  <2>3. /\ mod'.attach = "Commit" /\ mod'.disp = mod.disp /\ mod'.guard = mod.guard
        /\ mod'.own = mod.own /\ mod'.tick = mod.tick /\ mod'.iat = mod.iat
        /\ mod'.gen = mod.gen /\ mod'.role = mod.role
        /\ mod'.cleanup = mod.cleanup /\ mod'.inits = mod.inits
    BY <1>1, <1>5 DEF ModType
  <2>4. nat.gen = mod.gen /\ nat.kind = mod.role /\ nat.role = mod.role /\ mod.iat /\ mod.tick
        /\ ~mod.intercepted
    BY <1>5 DEF Exact
  <2>5. /\ mod.observed /\ nat.ready /\ (External => nat.bound) /\ frameThread = "parked"
        /\ mod.disp = adopter.snap.disp /\ (External => mod.guard /\ mod.own)
    BY <1>1, <1>2, <1>5, <2>4 DEF AdoptInv, StagesInv, Untouched, FrameInv, StagedIsPending, Staged
  <2>6. StagesInv'
    BY <1>1, <1>2, <1>5, <2>2, <2>3, <2>4, <2>5 DEF AdoptInv, AdoptTypes, AdopterType, ModType,
      NatType, StagesInv, Begun, LeftClean, StagedIsPending, UnattachedAtUi, FrameInv, Untouched,
      CleanupOnce, CommitIsExact, AdoptedIsBound, Staged, Ours, Tournament, External, Untaken,
      Unbegun, Unhooked, Early, Adopted, Managed
  <2> QED BY <2>2, <2>6 DEF AdoptInv
<1> QED BY <1>3, <1>4, <1>5 DEF CompleteUiAttachment, Ours

(* A session of the mod's own adds hooks, and nothing staged is left then.  *)
LEMMA PrepareManagedSessionKeeps ==
  ASSUME AdoptInv, PrepareManagedSession
  PROVE  AdoptInv'
<1>1. mod \in ModType
  BY DEF AdoptInv, AdoptTypes
<1>2. \A t, i \in BOOLEAN : \A d \in Dispositions :
        [mod EXCEPT !.tick = t, !.iat = i, !.disp = d] \in ModType
  BY <1>1, Zenon DEF ModType
<1>3. mod' \in ModType
  <2>1. PICK h \in BOOLEAN, p \in BOOLEAN :
          mod' = [mod EXCEPT !.tick = mod.tick \/ h,
                             !.iat = mod.iat \/ ((mod.tick \/ h) /\ p),
                             !.disp = IF (mod.tick \/ h) /\ (mod.iat \/ ((mod.tick \/ h) /\ p))
                                      THEN "DirectGameHost" ELSE @]
    BY DEF PrepareManagedSession
  <2> DEFINE t == mod.tick \/ h
  <2> DEFINE i == mod.iat \/ (t /\ p)
  <2> DEFINE d == IF t /\ i THEN "DirectGameHost" ELSE mod.disp
  <2>2. t \in BOOLEAN /\ i \in BOOLEAN /\ d \in Dispositions
    BY <1>1 DEF ModType, Dispositions
  <2>3. mod' = [mod EXCEPT !.tick = t, !.iat = i, !.disp = d]
    BY <2>1
  <2> HIDE DEF t, i, d
  <2> QED BY <1>2, <2>2, <2>3, Zenon
<1>4. AdoptTypes'
  BY <1>3 DEF AdoptInv, AdoptTypes, PrepareManagedSession
<1>5. StagesInv'
  BY <1>1 DEF AdoptInv, AdoptTypes, AdopterType, ModType, NatType, StagesInv, Begun, LeftClean,
    StagedIsPending, UnattachedAtUi, FrameInv, Untouched, CleanupOnce, CommitIsExact,
    AdoptedIsBound, Staged, Ours, Tournament, External, Untaken, Unbegun, Unhooked, Early,
    Adopted, Managed, PrepareManagedSession
<1> QED BY <1>4, <1>5 DEF AdoptInv

(* The game parks at its first tick under a pending attachment.             *)
LEMMA FrameTickKeeps ==
  ASSUME AdoptInv, FrameTick
  PROVE  AdoptInv'
<1>1. [mod EXCEPT !.observed = TRUE] \in ModType
  BY Zenon DEF AdoptInv, AdoptTypes, ModType
<1>2. AdoptTypes'
  BY <1>1 DEF AdoptInv, AdoptTypes, FrameTick
<1>3. StagesInv'
  BY DEF AdoptInv, AdoptTypes, AdopterType, ModType, NatType, StagesInv, Begun, LeftClean,
    StagedIsPending, UnattachedAtUi, FrameInv, Untouched, CleanupOnce, CommitIsExact,
    AdoptedIsBound, Staged, Ours, Tournament, External, Untaken, Unbegun, Unhooked, Early,
    Adopted, Managed, FrameTick
<1> QED BY <1>2, <1>3 DEF AdoptInv

(* It goes on once the attachment is decided, and the commit is over.       *)
LEMMA UnparkKeeps ==
  ASSUME AdoptInv, Unpark
  PROVE  AdoptInv'
<1>1. mod' \in ModType
  <2>1. mod \in ModType
    BY DEF AdoptInv, AdoptTypes
  <2>2. (IF mod.attach = "Commit" THEN "Idle" ELSE mod.attach) \in Attaches
    BY <2>1 DEF ModType, Attaches
  <2>3. \A a \in Attaches : [mod EXCEPT !.attach = a] \in ModType
    BY <2>1, Zenon DEF ModType
  <2> QED BY <2>2, <2>3 DEF Unpark
<1>2. AdoptTypes'
  BY <1>1 DEF AdoptInv, AdoptTypes, Unpark
<1>3. StagesInv'
  BY DEF AdoptInv, AdoptTypes, AdopterType, ModType, NatType, StagesInv, Begun, LeftClean,
    StagedIsPending, UnattachedAtUi, FrameInv, Untouched, CleanupOnce, CommitIsExact,
    AdoptedIsBound, Staged, Ours, Tournament, External, Untaken, Unbegun, Unhooked, Early,
    Adopted, Managed, Unpark
<1> QED BY <1>2, <1>3 DEF AdoptInv

(* A tick that is skipped belongs to a session whose attachment is decided.   *)
LEMMA DecideKeeps ==
  ASSUME AdoptInv, Decide
  PROVE  AdoptInv'
<1>1. mod \in ModType
  BY DEF AdoptInv, AdoptTypes
<1> DEFINE a == IF mod.attach = "Quarantine" THEN "Idle" ELSE mod.attach
<1>2. a \in Attaches /\ ArmTournamentReturnCleanup \in Cleanups
  BY <1>1 DEF ModType, Attaches, Cleanups, ArmTournamentReturnCleanup
<1>3. mod' = [mod EXCEPT !.attach = a, !.cleanup = ArmTournamentReturnCleanup]
  BY DEF Decide
<1> HIDE DEF a
<1>4. mod' \in ModType
  BY <1>1, <1>2, <1>3, Zenon DEF ModType
<1>5. AdoptTypes'
  BY <1>4 DEF AdoptInv, AdoptTypes, Decide
<1>6. /\ mod'.attach = a /\ mod'.cleanup = ArmTournamentReturnCleanup
      /\ mod'.disp = mod.disp /\ mod'.guard = mod.guard /\ mod'.own = mod.own
      /\ mod'.tick = mod.tick /\ mod'.observed = mod.observed /\ mod'.inits = mod.inits
      /\ mod'.intercepted = mod.intercepted /\ mod'.initFn = mod.initFn /\ mod'.role = mod.role
      /\ mod'.gen = mod.gen /\ mod'.armed = mod.armed /\ mod'.frame = mod.frame
      /\ mod'.iat = mod.iat
  BY <1>1, <1>2, <1>3 DEF ModType
<1>7. /\ frameThread = "decide" /\ frameThread' \in {"post", "native"}
      /\ UNCHANGED <<parent, nat, adopter, fails>>
  BY DEF Decide
<1>8. mod.tick /\ mod.attach \notin {"Pending", "Commit"}
  BY <1>1, <1>7 DEF AdoptInv, StagesInv, FrameInv, CommitIsExact, ModType
<1>9. a = "Idle"
  BY <1>1, <1>8 DEF a, ModType, Attaches
<1>10. frameThread' = "post" => adopter.pc = "done"
  <2>1. SUFFICES ASSUME frameThread' = "post", adopter.pc # "done" PROVE FALSE
    OBVIOUS
  <2>2. mod.intercepted \/ mod.own \/ mod.attach = "Quarantine"
    BY <2>1 DEF Decide
  <2>3. adopter.pc = "ui" /\ ~Ours
    BY <1>8, <2>1 DEF AdoptInv, AdoptTypes, AdopterType, AdoptPlaces, StagesInv, StagedIsPending,
      Staged, Begun, Early, Unhooked
  <2> QED BY <2>1, <2>2, <2>3 DEF AdoptInv, StagesInv, UnattachedAtUi, StagedIsPending
<1>11. /\ Begun' /\ LeftClean' /\ StagedIsPending' /\ UnattachedAtUi' /\ FrameInv'
       /\ CommitIsExact' /\ AdoptedIsBound' /\ Untouched'
  <2>1. Begun' /\ LeftClean'
    BY <1>6, <1>7, <1>8 DEF AdoptInv, StagesInv, Begun, LeftClean, StagedIsPending,
      UnattachedAtUi, FrameInv, Untouched, CleanupOnce, CommitIsExact, AdoptedIsBound, Staged,
      Ours, Tournament, External, Untaken, Unbegun, Unhooked, Early, Adopted, Managed
  <2>2. StagedIsPending' /\ UnattachedAtUi'
    BY <1>6, <1>7, <1>8, <1>9 DEF AdoptInv, StagesInv, Begun, LeftClean, StagedIsPending,
      UnattachedAtUi, FrameInv, Untouched, CleanupOnce, CommitIsExact, AdoptedIsBound, Staged,
      Ours, Tournament, External, Untaken, Unbegun, Unhooked, Early, Adopted, Managed
  <2>3. FrameInv' /\ CommitIsExact' /\ AdoptedIsBound'
    BY <1>6, <1>7, <1>8, <1>9, <1>10 DEF FrameInv, CommitIsExact, AdoptedIsBound
  <2>4. Untouched'
    BY <1>6, <1>7 DEF AdoptInv, StagesInv, Untouched, Ours, Tournament, External
  <2> QED BY <2>1, <2>2, <2>3, <2>4
<1>12. CleanupOnce'
  BY <1>6, <1>7, <1>8, <1>9 DEF AdoptInv, StagesInv, StagedIsPending, CleanupOnce,
    ArmTournamentReturnCleanup
<1> QED BY <1>5, <1>11, <1>12 DEF AdoptInv, StagesInv

(* Revival changes in a native tick only, and none runs in a parked game.     *)
LEMMA NativeTickKeeps ==
  ASSUME AdoptInv, NativeTick
  PROVE  AdoptInv'
<1>1. nat \in NatType
  BY DEF AdoptInv, AdoptTypes
<1>2. nat' \in NatType
  <2>1. \A d \in {"exact", "foreign", "unknown"} : [nat EXCEPT !.dll = d] \in NatType
    BY <1>1 DEF NatType
  <2>2. \A r \in Roles : [nat EXCEPT !.role = r, !.boot = TRUE] \in NatType
    BY <1>1 DEF NatType
  <2>3. nat.gen < MaxGen =>
          \A k \in {nat.role, "Unknown"}, b \in BOOLEAN :
            [nat EXCEPT !.kind = k, !.gen = nat.gen + 1, !.ready = FALSE, !.bound = b] \in NatType
    <3>1. nat.gen < MaxGen => nat.gen + 1 \in 0 .. MaxGen
      BY <1>1, AdoptionAssumption DEF NatType
    <3>2. {nat.role, "Unknown"} \subseteq Roles \cup {"None", "Unknown"}
      BY <1>1 DEF NatType
    <3> QED BY <1>1, <3>1, <3>2 DEF NatType
  <2>4. [nat EXCEPT !.ready = TRUE] \in NatType
    BY <1>1 DEF NatType
  <2>5. \/ nat' = nat
        \/ \E d \in {"exact", "foreign", "unknown"} : nat' = [nat EXCEPT !.dll = d]
        \/ \E r \in Roles : nat' = [nat EXCEPT !.role = r, !.boot = TRUE]
        \/ nat.gen < MaxGen /\ \E k \in {nat.role, "Unknown"}, b \in BOOLEAN :
             nat' = [nat EXCEPT !.kind = k, !.gen = nat.gen + 1, !.ready = FALSE, !.bound = b]
        \/ nat' = [nat EXCEPT !.ready = TRUE]
    <3> DEFINE loads == IF nat.dll = "none" /\ parent.kind # "none"
                        THEN {[nat EXCEPT !.dll = d] : d \in {"exact", "foreign", "unknown"}}
                        ELSE {}
    <3> DEFINE initializes == IF nat.dll = "exact" /\ nat.role = "Unknown"
                              THEN {[nat EXCEPT !.role = r, !.boot = TRUE] : r \in Roles}
                              ELSE {}
    <3> DEFINE creates == IF nat.boot /\ nat.gen < MaxGen
                          THEN {[nat EXCEPT !.kind = k, !.gen = @ + 1, !.ready = FALSE,
                                            !.bound = b] :
                                  k \in {nat.role, "Unknown"}, b \in BOOLEAN}
                          ELSE {}
    <3> DEFINE settles == IF nat.kind # "None" /\ ~nat.ready
                          THEN {[nat EXCEPT !.ready = TRUE]} ELSE {}
    <3>1. NativeSteps = UNION {loads, initializes, creates, settles}
      BY DEF NativeSteps
    <3>2. \A n \in loads : \E d \in {"exact", "foreign", "unknown"} : n = [nat EXCEPT !.dll = d]
      OBVIOUS
    <3>3. \A n \in initializes : \E r \in Roles : n = [nat EXCEPT !.role = r, !.boot = TRUE]
      OBVIOUS
    <3>4. \A n \in creates : nat.gen < MaxGen /\ \E k \in {nat.role, "Unknown"}, b \in BOOLEAN :
            n = [nat EXCEPT !.kind = k, !.gen = nat.gen + 1, !.ready = FALSE, !.bound = b]
      <4> DEFINE made(k, b) ==
            [nat EXCEPT !.kind = k, !.gen = nat.gen + 1, !.ready = FALSE, !.bound = b]
      <4>1. creates = IF nat.boot /\ nat.gen < MaxGen
                      THEN {made(k, b) : k \in {nat.role, "Unknown"}, b \in BOOLEAN} ELSE {}
        OBVIOUS
      <4> HIDE DEF creates, made
      <4>2. \A n \in creates : nat.gen < MaxGen /\ \E k \in {nat.role, "Unknown"}, b \in BOOLEAN :
              n = made(k, b)
        BY <4>1
      <4> QED BY <4>2 DEF made
    <3>5. \A n \in settles : n = [nat EXCEPT !.ready = TRUE]
      OBVIOUS
    <3> HIDE DEF loads, initializes, creates, settles
    <3>6. \/ nat' = nat
          \/ nat' \in loads \/ nat' \in initializes \/ nat' \in creates \/ nat' \in settles
      BY <3>1 DEF NativeTick
    <3> QED BY <3>2, <3>3, <3>4, <3>5, <3>6, Zenon
  <2> QED BY <1>1, <2>1, <2>2, <2>3, <2>4, <2>5
<1>3. AdoptTypes'
  BY <1>2 DEF AdoptInv, AdoptTypes, NativeTick
<1>4. StagesInv'
  BY DEF AdoptInv, AdoptTypes, AdopterType, ModType, NatType, StagesInv, Begun, LeftClean,
    StagedIsPending, UnattachedAtUi, FrameInv, Untouched, CleanupOnce, CommitIsExact,
    AdoptedIsBound, Staged, Ours, Tournament, External, Untaken, Unbegun, Unhooked, Early,
    Adopted, Managed, NativeTick
<1> QED BY <1>3, <1>4 DEF AdoptInv

(* The cleanup goes from stage to stage; the local initialisation is left      *)
(* behind whether it worked or not.                                           *)
LEMMA CleanupStageKeeps ==
  ASSUME AdoptInv, CleanupStage
  PROVE  AdoptInv'
<1>1. mod \in ModType /\ nat \in NatType /\ mod.inits \in {0, 1}
  BY DEF AdoptInv, AdoptTypes, StagesInv, CleanupOnce
<1>2. /\ adopter.pc = "done" /\ mod.attach = "Idle" /\ mod.tick /\ frameThread = "post"
      /\ mod.cleanup \in Cleanups \ {"Inactive", "Quarantined"} /\ UNCHANGED <<parent, adopter>>
  BY <1>1 DEF AdoptInv, StagesInv, FrameInv, CleanupStage, ModType
<1> DEFINE inits == IF mod.cleanup = "InitializeLocal" THEN mod.inits + 1 ELSE mod.inits
<1> DEFINE next == CompleteTournamentCleanupStep(mod.cleanup)
<1>3. /\ inits \in {0, 1} /\ inits \in Nat
      /\ mod.cleanup = "RestoreExe" => inits = 0
  BY <1>1 DEF AdoptInv, StagesInv, CleanupOnce
<1>4. /\ next \in Cleanups \ {"Quarantined", "RestoreExe"}
      /\ next = "InitializeLocal" => mod.cleanup = "RestoreExe"
      /\ next = "Inactive" => mod.cleanup # "InitializeLocal"
  BY <1>2 DEF Cleanups, CompleteTournamentCleanupStep
<1>5. mod.disp # "PassiveFailClosed"
  BY <1>2 DEF AdoptInv, StagesInv, LeftClean, Unhooked
<1>6. CASE /\ next = "Inactive"
           /\ mod' = [mod EXCEPT !.cleanup = next, !.role = "Practice", !.intercepted = FALSE,
                                 !.disp = "DirectGameHost"]
           /\ frameThread' = "between" /\ UNCHANGED <<fails, nat>>
  <2>1. mod' \in ModType
    BY <1>1, <1>6, Zenon DEF ModType, Cleanups, Roles, Dispositions
  <2>2. AdoptTypes'
    BY <1>2, <1>6, <2>1 DEF AdoptInv, AdoptTypes
  <2>3. /\ mod'.cleanup = "Inactive" /\ mod'.disp = "DirectGameHost" /\ mod'.tick
        /\ mod'.attach = "Idle" /\ mod'.inits = mod.inits
    BY <1>1, <1>2, <1>6 DEF ModType
  <2>4. StagesInv'
    BY <1>1, <1>2, <1>6, <2>3 DEF AdoptInv, AdoptTypes, AdopterType, ModType, NatType, StagesInv,
      Begun, LeftClean, StagedIsPending, UnattachedAtUi, FrameInv, Untouched, CleanupOnce,
      CommitIsExact, AdoptedIsBound, Staged, Ours, Tournament, External, Untaken, Unbegun,
      Unhooked, Early, Adopted, Managed
  <2> QED BY <2>2, <2>4 DEF AdoptInv
<1>7. CASE /\ next # "Inactive"
           /\ mod' = [mod EXCEPT !.cleanup = next, !.inits = inits]
           /\ frameThread' = "post" /\ UNCHANGED fails
           /\ nat' = IF mod.cleanup = "InitializeLocal"
                     THEN [nat EXCEPT !.role = "Practice", !.kind = "None"] ELSE nat
  <2> HIDE DEF next, inits
  <2>1. mod' \in ModType
    BY <1>1, <1>3, <1>4, <1>7, Zenon DEF ModType
  <2>2. nat' \in NatType
    BY <1>1, <1>7 DEF NatType, Roles
  <2>3. AdoptTypes'
    BY <1>2, <1>7, <2>1, <2>2 DEF AdoptInv, AdoptTypes
  <2>4. /\ mod'.cleanup = next /\ mod'.disp = mod.disp /\ mod'.tick
        /\ mod'.attach = "Idle" /\ mod'.inits = inits
    BY <1>1, <1>2, <1>7 DEF ModType
  <2>5. StagesInv'
    BY <1>2, <1>3, <1>4, <1>5, <1>7, <2>4 DEF AdoptInv, AdoptTypes, AdopterType, ModType, NatType,
      StagesInv, Begun, LeftClean, StagedIsPending, UnattachedAtUi, FrameInv, Untouched,
      CleanupOnce, CommitIsExact, AdoptedIsBound, Staged, Ours, Tournament, External, Untaken,
      Unbegun, Unhooked, Early, Adopted, Managed
  <2> QED BY <2>3, <2>5 DEF AdoptInv
<1>8. CASE /\ fails < MaxFailures
           /\ mod' = [mod EXCEPT !.cleanup = FailedCleanup(mod.cleanup), !.inits = inits,
                                 !.intercepted = TRUE]
           /\ frameThread' = "between" /\ fails' = fails + 1 /\ UNCHANGED nat
  <2>1. /\ FailedCleanup(mod.cleanup) \in Cleanups
        /\ FailedCleanup(mod.cleanup) # "InitializeLocal"
        /\ FailedCleanup(mod.cleanup) = "RestoreExe" => inits = 0
    BY <1>2, <1>3 DEF FailedCleanup, Cleanups
  <2> DEFINE c == FailedCleanup(mod.cleanup)
  <2>2. mod' = [mod EXCEPT !.cleanup = c, !.inits = inits, !.intercepted = TRUE]
    BY <1>8
  <2> HIDE DEF next, inits, c
  <2>3. mod' \in ModType
    BY <1>1, <1>3, <2>1, <2>2, Zenon DEF ModType, c
  <2>4. fails + 1 \in 0 .. MaxFailures
    BY <1>8, AdoptionAssumption DEF AdoptInv, AdoptTypes
  <2>5. AdoptTypes'
    BY <1>2, <1>8, <2>3, <2>4 DEF AdoptInv, AdoptTypes
  <2>6. /\ mod'.cleanup = c /\ mod'.disp = mod.disp /\ mod'.tick
        /\ mod'.attach = "Idle" /\ mod'.inits = inits
    BY <1>1, <1>2, <2>2 DEF ModType
  <2>7. c # "InitializeLocal" /\ (c = "RestoreExe" => inits = 0)
    BY <2>1 DEF c
  <2>8. StagesInv'
    BY <1>2, <1>3, <1>5, <1>8, <2>6, <2>7 DEF AdoptInv, AdoptTypes, AdopterType, ModType, NatType,
      StagesInv, Begun, LeftClean, StagedIsPending, UnattachedAtUi, FrameInv, Untouched,
      CleanupOnce, CommitIsExact, AdoptedIsBound, Staged, Ours, Tournament, External, Untaken,
      Unbegun, Unhooked, Early, Adopted, Managed
  <2> QED BY <2>5, <2>8 DEF AdoptInv
<1>9. next = "Inactive" => mod.cleanup # "InitializeLocal"
  BY <1>4
<1> HIDE DEF next, inits
<1> QED BY <1>6, <1>7, <1>8, <1>9 DEF CleanupStage, next, inits

(* The recovery gives back the guard and the handle, after the decision.    *)
LEMMA RecoverSessionKeeps ==
  ASSUME AdoptInv, RecoverSession
  PROVE  AdoptInv'
<1>1. mod' \in ModType
  BY Zenon DEF AdoptInv, AdoptTypes, ModType, RecoverSession, Roles, Dispositions
<1>2. nat' \in NatType
  BY DEF AdoptInv, AdoptTypes, NatType, RecoverSession, Roles
<1>3. AdoptTypes'
  BY <1>1, <1>2 DEF AdoptInv, AdoptTypes, RecoverSession
<1>4. StagesInv'
  BY DEF AdoptInv, AdoptTypes, AdopterType, ModType, NatType, StagesInv, Begun, LeftClean,
    StagedIsPending, UnattachedAtUi, FrameInv, Untouched, CleanupOnce, CommitIsExact,
    AdoptedIsBound, Staged, Ours, Tournament, External, Untaken, Unbegun, Unhooked, Early,
    Adopted, Managed, RecoverSession
<1> QED BY <1>3, <1>4 DEF AdoptInv

(* A tick without effect, and the end of the parent.                        *)
LEMMA OtherStepsKeep ==
  ASSUME AdoptInv, Idle \/ ParentExits \/ UNCHANGED adoptVars
  PROVE  AdoptInv'
<1>1. AdoptTypes'
  BY DEF AdoptInv, AdoptTypes, Idle, ParentExits, adoptVars
<1>2. StagesInv'
  BY DEF AdoptInv, AdoptTypes, AdopterType, ModType, NatType, StagesInv, Begun, LeftClean,
    StagedIsPending, UnattachedAtUi, FrameInv, Untouched, CleanupOnce, CommitIsExact,
    AdoptedIsBound, Staged, Ours, Tournament, External, Untaken, Unbegun, Unhooked, Early,
    Adopted, Managed, Idle, ParentExits, adoptVars
<1> QED BY <1>1, <1>2 DEF AdoptInv

(* The initial states satisfy the invariant.                                  *)
LEMMA AdoptInitially ==
  ASSUME AdoptInit
  PROVE  AdoptInv
<1>1. 0 \in 0 .. MaxGen /\ MaxPolls \in 0 .. MaxPolls /\ 0 \in 0 .. MaxFailures
  BY AdoptionAssumption
<1>2. mod \in ModType
  BY <1>1, Zenon DEF AdoptInit, Blank, ModType, Dispositions, Attaches, Cleanups
<1>3. adopter \in AdopterType
  <2>1. NoSnapshot \in SnapType
    BY <1>1 DEF NoSnapshot, SnapType
  <2> QED BY <1>1, <2>1 DEF AdoptInit, AdopterType, AdoptPlaces
<1>4. nat \in NatType
  BY <1>1 DEF AdoptInit, NatType
<1>5. AdoptTypes
  BY <1>1, <1>2, <1>3, <1>4 DEF AdoptInit, AdoptTypes
<1>6. StagesInv
  BY DEF AdoptInit, Blank, StagesInv, Begun, LeftClean, StagedIsPending, UnattachedAtUi, FrameInv,
    Untouched, CleanupOnce, CommitIsExact, AdoptedIsBound, Staged, Ours, Tournament, External,
    Untaken, Unbegun, Unhooked, Early, Adopted, Managed
<1> QED BY <1>5, <1>6 DEF AdoptInv

(* Every step keeps it.                                                       *)
LEMMA AdoptStep ==
  ASSUME AdoptInv, [AdoptNext]_adoptVars
  PROVE  AdoptInv'
<1>1. CASE InitThread
  BY <1>1, CaptureExactParentKeeps, PollKeeps, LoadOwnKeeps, StayPassiveKeeps,
    AttachPracticeKeeps, ModuleChangedKeeps, StageTournamentKeeps, InstallGuardKeeps, OwnParentKeeps, StageIpcKeeps,
    InstallHooksKeeps, PatchExitsKeeps, RevalidateEarlyKeeps, RevalidateLastKeeps,
    CompleteUiAttachmentKeeps DEF InitThread
<1>2. CASE GameThread
  BY <1>2, FrameTickKeeps, UnparkKeeps, DecideKeeps, NativeTickKeeps, CleanupStageKeeps,
    RecoverSessionKeeps, OtherStepsKeep DEF GameThread
<1>3. CASE EmergencyQuarantine \/ PrepareManagedSession \/ ParentExits \/ UNCHANGED adoptVars
  BY <1>3, EmergencyQuarantineKeeps, PrepareManagedSessionKeeps, OtherStepsKeep
<1> QED BY <1>1, <1>2, <1>3 DEF AdoptNext

(* The mod's record is known by its fields (the last of them never changes).   *)
LEMMA SameMod ==
  ASSUME NEW a \in ModType, NEW b \in ModType,
         a.disp = b.disp, a.allowed = b.allowed, a.initFn = b.initFn, a.role = b.role,
         a.gen = b.gen, a.guard = b.guard, a.own = b.own, a.armed = b.armed, a.tick = b.tick,
         a.frame = b.frame, a.iat = b.iat, a.intercepted = b.intercepted, a.attach = b.attach,
         a.observed = b.observed, a.cleanup = b.cleanup, a.inits = b.inits
  PROVE  a = b
  BY DEF ModType

(* The invariant gives the properties.                                        *)
LEMMA AdoptProperties ==
  ASSUME AdoptInv
  PROVE  AdoptionSafe
<1>1. AdoptTypeOK
  BY DEF AdoptInv, AdoptTypes, AdoptTypeOK, NatType, ModType, AdopterType, Attaches, Cleanups
<1>2. FailClosedIsClean
  <2>1. SUFFICES ASSUME adopter.pc = "done", mod.disp = "PassiveFailClosed"
        PROVE  mod = [Blank EXCEPT !.disp = "PassiveFailClosed", !.allowed = mod.allowed]
    BY DEF FailClosedIsClean
  <2>2. Untaken(mod) /\ Unbegun(mod) /\ Unhooked(mod) /\ mod \in ModType
    BY <2>1 DEF AdoptInv, AdoptTypes, StagesInv, LeftClean
  <2> DEFINE clean == [Blank EXCEPT !.disp = "PassiveFailClosed", !.allowed = mod.allowed]
  <2>3. Blank \in ModType
    <3>1. 0 \in 0 .. MaxGen /\ 0 \in Nat
      BY AdoptionAssumption
    <3> QED BY <3>1, Zenon DEF Blank, ModType, Dispositions, Attaches, Cleanups
  <2>4. clean \in ModType
    <3>1. mod.allowed \in BOOLEAN
      BY <2>2 DEF ModType
    <3> QED BY <2>3, <3>1, Zenon DEF ModType, Dispositions
  <2>5. /\ clean.disp = "PassiveFailClosed" /\ clean.allowed = mod.allowed
        /\ clean.initFn = FALSE /\ clean.role = "Unknown" /\ clean.gen = 0
        /\ clean.guard = FALSE /\ clean.own = FALSE /\ clean.armed = FALSE
        /\ clean.tick = FALSE /\ clean.frame = FALSE /\ clean.iat = FALSE
        /\ clean.intercepted = FALSE /\ clean.attach = "Idle" /\ clean.observed = FALSE
        /\ clean.cleanup = "Inactive" /\ clean.inits = 0
    BY DEF Blank
  <2> HIDE DEF clean
  <2>6. /\ mod.initFn = FALSE /\ mod.guard = FALSE /\ mod.own = FALSE /\ mod.armed = FALSE
        /\ mod.tick = FALSE /\ mod.frame = FALSE /\ mod.iat = FALSE /\ mod.intercepted = FALSE
        /\ mod.observed = FALSE
    BY <2>2 DEF ModType, Untaken, Unbegun, Unhooked
  <2>7. mod = clean
    BY <2>1, <2>2, <2>4, <2>5, <2>6, SameMod DEF Unbegun, Unhooked
  <2> QED BY <2>7 DEF clean
<1>3. InitializedOnce
  BY DEF AdoptInv, StagesInv, CleanupOnce, InitializedOnce
<1> QED BY <1>1, <1>2, <1>3 DEF AdoptInv, StagesInv, AdoptionSafe

(* Exactly the session that was admitted is adopted, or nothing of the mod is  *)
(* left, and no cleanup initializes twice.                                    *)
THEOREM AdoptionSafety == AdoptSpec => []AdoptionSafe
<1>1. AdoptSpec => []AdoptInv
  BY AdoptInitially, AdoptStep, PTL DEF AdoptSpec
<1> QED BY <1>1, AdoptProperties, PTL
================================================================================
