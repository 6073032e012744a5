----------------------------- MODULE HostingProofs -----------------------------
(***************************************************************************)
(* Proofs about Hosting, for any numbers of requests, starts and serials,  *)
(* any cooldown, and with or without cancels from companion mods.          *)
(*                                                                         *)
(* Three facts carry them.  A challenge that waits to be sent was set with *)
(* the start it waits for, and no discovery is under way beside it, so no  *)
(* other start can come between (Pending).  What the overlay and the task  *)
(* remember of a retry bounds the starts that can still follow (Budget).   *)
(* And a connecting session that async_host does not track, or no longer   *)
(* after the next tick, is on the screen of the menu (Accounted).          *)
(***************************************************************************)
EXTENDS Hosting, TLAPS

USE HostingAssumption

Waiting == {"Connecting", "DelaySetup"}
MenuHandlers == {"discovery", "observe", "drain", "flow"}

Observation == [serial : 0..MaxSerial, kind : Kinds \cup {"none"}, pid : 0..MaxStarts]
Startup == [st : {"Inactive", "Waiting", "Stabilizing", "Ready", "Failed"},
            mismatch : {"Disabled", "Available", "Deferred"},
            candidate : 0..MaxSerial, waited : BOOLEAN]
Task == [attempt : 0..MaxAttempts, owner : Owners, retried : BOOLEAN, done : BOOLEAN]

---------------------------------------------------------------------------
(* The inductive invariant. *)

ScreenTypes ==
  /\ screen \in {"menu", "title", "game"}
  /\ pc \in {"frame", "tick", "async", "background"} \cup MenuHandlers

BridgeTypes ==
  /\ phase \in {"Idle"} \cup Waiting \cup Terminal
  /\ start \in {"idle", "rejected", "running", "cancelled"}
  /\ starts \in 0..MaxStarts /\ statusPid \in 0..MaxStarts /\ helper \in 0..MaxStarts
  /\ obs \in Observation /\ prompt \in 0..MaxSerial

AsyncTypes ==
  /\ state \in {"Idle", "Hosting", "PeerFoundHeld", "Accepted", "TimedOut"}
  /\ origin \in Owners /\ listener \in Startup
  /\ lastPrompt \in 0..MaxSerial /\ cooldown \in 0..CooldownTicks

OverTypes ==
  /\ overlay \in {"Hidden", "Discovering", "AwaitingListener", "Listening", "Failed",
                  "FailedAwaitingCancel"}
  /\ debounce \in 0..MaxSerial /\ ovWait \in {"off", "running", "elapsed"}
  /\ task \in Task /\ publish \in 0..MaxAttempts

HistoryTypes ==
  /\ attempt \in 0..MaxAttempts /\ startedFor \in 0..MaxAttempts
  /\ startsOf \in {0, 1, 2}

AsyncFlags ==
  /\ ended \in BOOLEAN /\ minimized \in BOOLEAN /\ peerWasAlive \in BOOLEAN
  /\ returnKey \in BOOLEAN /\ cfgRetried \in BOOLEAN
OverFlags == challengeMode \in BOOLEAN /\ retryAllowed \in BOOLEAN /\ retried \in BOOLEAN
LobbyFlags ==
  submenu \in BOOLEAN /\ targetIdle \in BOOLEAN /\ abandoned \in BOOLEAN /\ backgrounded \in BOOLEAN

\* The menu's handlers run in the menu.
InMenu == pc \in MenuHandlers => screen = "menu"

\* What waits for a listener or a peer without async_host is on the screen.
Accounted ==
  state \in {"Idle", "Accepted"} /\ (screen # "menu" \/ minimized) => phase \notin Waiting

\* A challenge that waits to be sent waits for the latest start.
Pending == publish # None => publish = startedFor /\ task = NoTask

\* What may still start without being the second retry of a request.
Budget ==
  /\ retryAllowed /\ ~retried => startsOf \in {0, 1}
  /\ task # NoTask => startsOf \in {0, 1}
  /\ task # NoTask /\ ~task.retried => startsOf = 0

Shell == ScreenTypes /\ LobbyFlags /\ InMenu
Inner == BridgeTypes /\ AsyncTypes /\ AsyncFlags /\ Accounted
Outer == OverTypes /\ OverFlags /\ HistoryTypes /\ Pending /\ Budget /\ SentForOwnListener
IInv == Shell /\ Inner /\ Outer

---------------------------------------------------------------------------
(* What the operators of several handlers do. *)

\* The initial state satisfies the invariant.
LEMMA InitIInv == Init => IInv
<1> SUFFICES ASSUME Init PROVE IInv
  OBVIOUS
<1> USE DEF Init, None
<1>1. Shell
  BY DEF Shell, ScreenTypes, LobbyFlags, MenuHandlers, InMenu
<1>2. BridgeTypes /\ Accounted
  BY DEF BridgeTypes, NoObservation, Observation, Kinds, Accounted, Waiting
<1>3. AsyncTypes
  BY DEF AsyncTypes, Inactive, Startup, Owners
<1>4. OverTypes /\ HistoryTypes /\ Pending /\ Budget /\ SentForOwnListener
  BY DEF OverTypes, NoTask, Task, Owners, HistoryTypes, Pending, Budget, SentForOwnListener
<1>5. AsyncFlags /\ OverFlags
  BY DEF AsyncFlags, OverFlags
<1> QED
  BY <1>1, <1>2, <1>3, <1>4, <1>5 DEF IInv, Inner, Outer

\* A cancel keeps the bridge's types and ends what waits.
LEMMA Cancels ==
  ASSUME BridgeTypes, NEW reason, BridgeCancel(reason)
  PROVE  BridgeTypes' /\ phase' \notin Waiting /\ starts' = starts
BY DEF BridgeTypes, BridgeCancel, Observation, NoObservation, Kinds, Waiting, Terminal, None

\* An accepted start keeps the types.
LEMMA Starts ==
  ASSUME BridgeTypes, BridgeStart, helper' \in {helper, None}
  PROVE  BridgeTypes'
BY DEF BridgeTypes, BridgeStart, Observation, NoObservation, Kinds, Waiting, None

\* A refused start leaves no one waiting.
LEMMA Refuses ==
  ASSUME BridgeTypes, BridgeStartRefused
  PROVE  BridgeTypes' /\ phase' \notin Waiting /\ starts' = starts
BY DEF BridgeTypes, BridgeStartRefused, Observation, NoObservation, Kinds, Waiting, Terminal, None

\* The bridge and async_host are left alone, and the menu is not left.
LEMMA InnerSame ==
  ASSUME Inner, UNCHANGED <<bridge, async>>, screen' \in {screen, "menu"}
  PROVE  Inner'
BY DEF Inner, BridgeTypes, AsyncTypes, AsyncFlags, Accounted, bridge, async

\* Reset: what still waits is in the menu, where nothing is minimized now.
LEMMA Resets ==
  ASSUME Inner, BridgeTypes', AsyncReset, cooldown' \in {0, cooldown, CooldownLeft},
         ended' \in BOOLEAN, phase' \notin Waiting \/ screen' = "menu"
  PROVE  Inner'
<1>1. AsyncTypes'
  <2>1. cooldown' \in 0..CooldownTicks
    BY DEF Inner, AsyncTypes, CooldownLeft
  <2> QED
    BY <2>1 DEF AsyncReset, AsyncTypes, Inactive, Startup, Owners
<1>2. AsyncFlags' /\ minimized' = FALSE
  BY DEF AsyncReset, AsyncFlags
<1> QED
  BY <1>1, <1>2 DEF Inner, Accounted

\* A cancel with a reset, in any order of the two.
LEMMA ResetAndCancels ==
  ASSUME Inner, NEW reason, BridgeCancel(reason), AsyncReset,
         cooldown' \in {0, cooldown, CooldownLeft}, ended' \in BOOLEAN
  PROVE  Inner'
<1>1. BridgeTypes' /\ phase' \notin Waiting
  BY Cancels DEF Inner
<1> QED
  BY <1>1, Resets

\* What a start tells async_host.
LEMMA Tracks ==
  ASSUME Inner, BridgeTypes', NEW owner \in Owners, NEW again \in BOOLEAN,
         OnHostStarted(owner, again)
  PROVE  Inner'
<1>1. listener' \in Startup
  BY DEF OnHostStarted, Startup
<1>2. lastPrompt' \in 0..MaxSerial /\ cooldown' \in 0..CooldownTicks
  BY DEF BridgeTypes, OnHostStarted
<1>3. AsyncTypes'
  BY <1>1, <1>2 DEF AsyncTypes, OnHostStarted
<1>4. AsyncFlags' /\ state' = "Hosting"
  BY DEF OnHostStarted, AsyncFlags
<1> QED
  BY <1>3, <1>4 DEF Inner, Accounted

\* Overlay and history are left alone.
LEMMA OuterSame ==
  ASSUME Outer, UNCHANGED <<over, history>>
  PROVE  Outer'
BY DEF Outer, OverTypes, OverFlags, HistoryTypes, Pending, Budget, SentForOwnListener, over, history

\* The overlay is hidden, or shows a failure: nothing waits to be sent or started.
Closed ==
  /\ OverTypes' /\ publish' = None /\ task' = NoTask
  /\ retryAllowed' = FALSE /\ retried' = FALSE /\ challengeMode' = FALSE

LEMMA Hides == ResetOverlay => Closed
BY DEF ResetOverlay, DropPending, Closed, OverTypes, NoTask, Task, Owners, None

LEMMA Shows ==
  ASSUME NEW cancel \in BOOLEAN, ShowFailure(cancel)
  PROVE  Closed
BY DEF ShowFailure, DropPending, Closed, OverTypes, NoTask, Task, Owners, None

LEMMA ClosedOwes ==
  ASSUME Outer, Closed, UNCHANGED history
  PROVE  Outer'
BY DEF Outer, Closed, OverFlags, HistoryTypes, Pending, Budget, SentForOwnListener, history

\* A discovery is under way.
LEMMA Discovers ==
  ASSUME NEW owner \in Owners, NEW again \in BOOLEAN, NEW request \in 0..MaxAttempts,
         BeginDiscovery(owner, again, request)
  PROVE  /\ OverTypes' /\ publish' = None /\ task'.retried = again
         /\ retried' = again /\ retryAllowed' = TRUE /\ challengeMode' \in BOOLEAN
BY DEF BeginDiscovery, DropPending, OverTypes, Task, None

\* The retry of a request that was started at most once.
LEMMA Retries ==
  ASSUME Inner, Outer, FamilyRetry, UNCHANGED <<ended, cooldown, history>>
  PROVE  Inner' /\ Outer'
<1>1. retryAllowed /\ ~retried /\ AsyncReset /\ BridgeCancel("host_family_retry")
  BY DEF FamilyRetry
<1>2. Inner'
  BY <1>1, ResetAndCancels DEF Inner, AsyncFlags
<1>3. CASE ShowFailure(TRUE)
  BY <1>2, <1>3, Shows, ClosedOwes
<1>4. ASSUME NEW owner \in Owners, BeginDiscovery(owner, TRUE, attempt)
      PROVE  Outer'
  <2>1. /\ OverTypes' /\ publish' = None /\ task'.retried = TRUE
        /\ retried' = TRUE /\ retryAllowed' = TRUE /\ challengeMode' \in BOOLEAN
    BY <1>4, Discovers DEF Outer, HistoryTypes
  <2>2. startsOf' \in {0, 1}
    BY <1>1 DEF Outer, Budget, history
  <2>3. OverFlags' /\ Pending' /\ Budget'
    BY <2>1, <2>2 DEF OverFlags, Pending, Budget
  <2>4. HistoryTypes' /\ SentForOwnListener'
    BY DEF Outer, HistoryTypes, SentForOwnListener, history
  <2> QED
    BY <2>1, <2>3, <2>4 DEF Outer
<1>5. ShowFailure(TRUE) \/ \E owner \in Owners : BeginDiscovery(owner, TRUE, attempt)
  BY DEF FamilyRetry, Owners
<1> QED
  BY <1>2, <1>3, <1>4, <1>5

---------------------------------------------------------------------------
(* The handlers. *)

\* The title poll and the bridge's tick.
LEMMA TickKeeps ==
  ASSUME IInv, TitlePoll \/ TickSkipped \/ BridgeTick
  PROVE  IInv'
<1>1. /\ UNCHANGED <<screen, submenu, async, over, lobby, history>>
      /\ pc' \in {"tick", "async", NextHandler}
  BY DEF TitlePoll, TickSkipped, BridgeTick
<1>2. Shell'
  BY <1>1 DEF IInv, Shell, ScreenTypes, LobbyFlags, InMenu, MenuHandlers, NextHandler, lobby
<1>3. BridgeTypes' /\ (phase' \in Waiting => phase \in Waiting)
  BY DEF IInv, Inner, BridgeTypes, TitlePoll, TickSkipped, BridgeTick, Waiting, Terminal, bridge
<1>4. Inner'
  BY <1>1, <1>3 DEF IInv, Inner, AsyncTypes, AsyncFlags, Accounted, async
<1> QED
  BY <1>1, <1>2, <1>4, OuterSame DEF IInv

\* async_host's tick: every way through it.
LEMMA AsyncKeeps ==
  ASSUME IInv, AsyncTick
  PROVE  IInv'
<1> USE DEF IInv
<1>1. UNCHANGED <<screen, submenu, over, lobby, history>> /\ pc' = NextHandler
  BY DEF AsyncTick, AsyncIdle, AsyncDeferMismatch, AsyncMismatch, AsyncFatal, AsyncStartFailed,
         AsyncTimeout, AsyncChallengeEnded, AsyncAutoRehost, AsyncSessionIdle, AsyncContinue,
         AsyncHandoff, history
<1>2. Shell' /\ Outer'
  <2>1. Shell'
    BY <1>1 DEF Shell, ScreenTypes, LobbyFlags, InMenu, MenuHandlers, NextHandler, lobby
  <2> QED
    BY <1>1, <2>1, OuterSame
<1> SUFFICES Inner'
  BY <1>2
<1>3. CooldownLeft \in 0..CooldownTicks
  BY DEF Inner, AsyncTypes, CooldownLeft
<1>4. \A l \in Looks : l \in Startup
  BY DEF Inner, AsyncTypes, BridgeTypes, Looks, Startup, Observation, Acknowledged
<1>5. \A s \in {"Waiting", "Failed", "Ready"}, l \in Startup : [l EXCEPT !.st = s] \in Startup
  BY DEF Startup
<1>6. CASE AsyncIdle
  BY <1>6, <1>1, InnerSame DEF AsyncIdle
<1>7. CASE AsyncDeferMismatch
  <2>1. listener' \in Startup
    BY <1>7 DEF AsyncDeferMismatch, Inner, AsyncTypes, Startup
  <2>2. BridgeTypes' /\ AsyncTypes' /\ Accounted'
    BY <1>7, <1>3, <2>1 DEF AsyncDeferMismatch, Inner, AsyncTypes, BridgeTypes, Accounted, bridge
  <2>3. AsyncFlags'
    BY <1>7 DEF AsyncDeferMismatch, Inner, AsyncFlags
  <2> QED
    BY <2>2, <2>3 DEF Inner
<1>8. CASE AsyncMismatch \/ AsyncTimeout
  <2>1. BridgeTypes' /\ phase' \notin Waiting
    BY <1>8, Cancels DEF AsyncMismatch, AsyncTimeout, Inner
  <2>2. listener' \in Startup
    BY <1>8, <1>4, <1>5 DEF AsyncMismatch, AsyncTimeout, Inner, AsyncTypes
  <2>3. AsyncTypes'
    BY <1>8, <1>3, <2>2 DEF AsyncMismatch, AsyncTimeout, Inner, AsyncTypes
  <2>4. AsyncFlags'
    BY <1>8 DEF AsyncMismatch, AsyncTimeout, Inner, AsyncFlags
  <2> QED
    BY <2>1, <2>3, <2>4 DEF Inner, Accounted
<1>9. CASE AsyncStartFailed
  <2>1. listener' \in Startup
    BY <1>9, <1>5 DEF AsyncStartFailed, Inner, AsyncTypes
  <2>2. BridgeTypes' /\ AsyncTypes' /\ Accounted'
    BY <1>9, <1>3, <2>1
    DEF AsyncStartFailed, Inner, AsyncTypes, BridgeTypes, Accounted, bridge
  <2>3. AsyncFlags'
    BY <1>9 DEF AsyncStartFailed, Inner, AsyncFlags
  <2> QED
    BY <2>2, <2>3 DEF Inner
<1>10. CASE AsyncFatal \/ AsyncSessionIdle
  <2>1. BridgeTypes' /\ phase' \notin Waiting
    BY <1>10 DEF AsyncFatal, AsyncSessionIdle, Inner, BridgeTypes, Waiting, bridge
  <2> QED
    BY <1>10, <2>1, Resets DEF AsyncFatal, AsyncSessionIdle, Inner, AsyncFlags
<1>11. CASE AsyncHandoff
  <2>1. BridgeTypes' /\ (phase' \notin Waiting \/ screen' = "menu")
    BY <1>11 DEF AsyncHandoff, Inner, BridgeTypes, Accounted, bridge
  <2> QED
    BY <1>11, <2>1, Resets DEF AsyncHandoff, Inner, AsyncFlags
<1>12. CASE AsyncChallengeEnded
  BY <1>12, ResetAndCancels DEF AsyncChallengeEnded, Inner
<1>13. CASE AsyncAutoRehost
  <2>1. BridgeTypes'
    <3>1. CASE BridgeStart
      BY <1>13, <3>1, Starts DEF AsyncAutoRehost, Inner
    <3>2. CASE ~BridgeStart
      BY <1>13, <3>2
      DEF AsyncAutoRehost, Inner, BridgeTypes, Observation, NoObservation, Kinds, Terminal, None
    <3> QED
      BY <3>1, <3>2
  <2>2. AsyncTypes' /\ state' = "Hosting"
    <3>1. listener' \in Startup
      <4>1. Inactive \in Startup
        BY DEF Inactive, Startup
      <4> QED
        BY <1>5, <1>13, <4>1 DEF AsyncAutoRehost
    <3>2. lastPrompt' \in 0..MaxSerial /\ cooldown' \in 0..CooldownTicks
      BY <1>13 DEF AsyncAutoRehost, Inner, AsyncTypes
    <3> QED
      BY <1>13, <3>1, <3>2 DEF AsyncAutoRehost, Inner, AsyncTypes
  <2>3. AsyncFlags'
    BY <1>13 DEF AsyncAutoRehost, Inner, AsyncFlags
  <2> QED
    BY <2>1, <2>2, <2>3 DEF Inner, Accounted
<1>14. CASE AsyncContinue
  <2>1. BridgeTypes' /\ phase' = phase
    BY <1>14 DEF AsyncContinue, Inner, BridgeTypes, bridge
  <2>2. AsyncTypes'
    BY <1>14, <1>3, <1>4 DEF AsyncContinue, Inner, AsyncTypes, BridgeTypes
  <2>3. AsyncFlags'
    BY <1>14 DEF AsyncContinue, Inner, AsyncFlags
  <2>4. Accounted'
    BY <1>14, <1>1, <2>1 DEF AsyncContinue, Inner, Accounted
  <2> QED
    BY <2>1, <2>2, <2>3, <2>4 DEF Inner
<1> QED
  BY <1>6, <1>7, <1>8, <1>9, <1>10, <1>11, <1>12, <1>13, <1>14 DEF AsyncTick

\* The discovery pump.
LEMMA DiscoveryKeeps ==
  ASSUME IInv, DiscoveryPending \/ DiscoveryRejected \/ DiscoveryStarts \/ DiscoveryStartRefused
  PROVE  IInv'
<1> USE DEF IInv
<1>1. /\ UNCHANGED <<screen, submenu, lobby>>
      /\ pc = "discovery" /\ pc' = "observe"
  BY DEF DiscoveryPending, DiscoveryRejected, DiscoveryStarts, DiscoveryStartRefused, DiscoveryDue
<1>2. Shell'
  BY <1>1 DEF Shell, ScreenTypes, LobbyFlags, InMenu, MenuHandlers, lobby
<1>3. CASE DiscoveryPending
  BY <1>2, <1>3, InnerSame, OuterSame DEF DiscoveryPending
<1>4. CASE DiscoveryRejected
  <2>1. Inner'
    BY <1>4, InnerSame DEF DiscoveryRejected
  <2>2. Outer'
    BY <1>4, Shows, ClosedOwes DEF DiscoveryRejected
  <2> QED
    BY <1>2, <2>1, <2>2
<1>5. CASE DiscoveryStartRefused
  <2>1. Outer'
    BY <1>5, Shows, ClosedOwes DEF DiscoveryStartRefused
  <2>2. BridgeTypes' /\ phase' \notin Waiting
    BY <1>5, Refuses DEF DiscoveryStartRefused, Inner
  <2>3. Inner'
    BY <1>5, <2>2 DEF DiscoveryStartRefused, Inner, AsyncTypes, AsyncFlags, Accounted, async
  <2> QED
    BY <1>2, <2>1, <2>3
<1>6. CASE DiscoveryStarts
  <2>1. task \in Task /\ task # NoTask
    BY <1>6 DEF DiscoveryStarts, DiscoveryDue, Outer, OverTypes
  <2>2. task.owner \in Owners /\ task.retried \in BOOLEAN /\ task.attempt \in 0..MaxAttempts
    BY <2>1 DEF Task
  <2>3. Inner'
    BY <1>6, <2>2, Starts, Tracks DEF DiscoveryStarts, Inner
  <2>4. publish = None
    BY <2>1 DEF Outer, Pending
  <2>5. /\ task' = NoTask /\ publish' \in {None, task.attempt} /\ startedFor' = task.attempt
        /\ retried' = task.retried /\ attempt' = attempt /\ sent' = sent
        /\ overlay' = "AwaitingListener" /\ debounce' = 0 /\ ovWait' \in {"running", "off"}
    BY <1>6, <2>4 DEF DiscoveryStarts, AwaitListener
  <2>6. OverTypes'
    BY <2>2, <2>5 DEF OverTypes, NoTask, Task, Owners, None
  <2>7. OverFlags'
    BY <1>6, <2>2 DEF DiscoveryStarts, AwaitListener, OverFlags
  <2>8. startsOf' \in {1, 2} /\ (~task.retried => startsOf' = 1)
    <3>1. startsOf' = startsOf + 1
      BY <1>6 DEF DiscoveryStarts
    <3>2. startsOf \in {0, 1} /\ (~task.retried => startsOf = 0)
      BY <2>1 DEF Outer, Budget
    <3> QED
      BY <3>1, <3>2
  <2>9. HistoryTypes' /\ Pending' /\ Budget' /\ SentForOwnListener'
    BY <2>2, <2>5, <2>8 DEF Outer, HistoryTypes, Pending, Budget, SentForOwnListener
  <2> QED
    BY <1>2, <2>3, <2>6, <2>7, <2>9 DEF Outer
<1> QED
  BY <1>3, <1>4, <1>5, <1>6

\* The listener observation of the overlay.
LEMMA ObserveKeeps ==
  ASSUME IInv, ObserveChallengeTimeout \/ ObserveNothing \/ ObserveSettled
  PROVE  IInv'
<1> USE DEF IInv
<1>1. /\ UNCHANGED <<screen, submenu, lobby>>
      /\ pc = "observe" /\ pc' = "drain"
  BY DEF ObserveChallengeTimeout, ObserveNothing, ObserveSettled, ObservePortMismatch,
         ObserveFamilyMismatch, ObserveTargetGone, ObserveReady, ObservationSettled, Observing
<1>2. Shell'
  BY <1>1 DEF Shell, ScreenTypes, LobbyFlags, InMenu, MenuHandlers, lobby
<1> SUFFICES Inner' /\ Outer'
  BY <1>2
<1>3. ASSUME NEW reason, NEW cancel \in BOOLEAN,
             AsyncReset, BridgeCancel(reason), ShowFailure(cancel),
             UNCHANGED <<ended, cooldown, history>>
      PROVE  Inner' /\ Outer'
  <2>1. Inner'
    BY <1>3, ResetAndCancels DEF Inner, AsyncFlags
  <2> QED
    BY <1>3, <2>1, Shows, ClosedOwes
<1>4. CASE ObserveChallengeTimeout
  BY <1>3, <1>4 DEF ObserveChallengeTimeout
<1>5. CASE ObservePortMismatch
  BY <1>3, <1>5 DEF ObservePortMismatch
<1>6. CASE ObserveTargetGone
  BY <1>3, <1>6 DEF ObserveTargetGone
<1>7. CASE ObserveFamilyMismatch
  BY <1>3, <1>7, Retries DEF ObserveFamilyMismatch
<1>8. CASE ObserveNothing
  <2>1. Inner'
    BY <1>1, <1>8, InnerSame DEF ObserveNothing
  <2>2. overlay' \in {overlay, "AwaitingListener"} /\ debounce' \in {debounce, obs.serial}
    BY <1>8 DEF ObserveNothing, OverlayNow
  <2>3. OverTypes'
    BY <1>8, <2>2 DEF ObserveNothing, Outer, OverTypes, Inner, BridgeTypes, Observation
  <2>4. OverFlags' /\ HistoryTypes' /\ Pending' /\ Budget' /\ SentForOwnListener'
    BY <1>8 DEF ObserveNothing, Outer, OverFlags, HistoryTypes, Pending, Budget,
                SentForOwnListener, history
  <2> QED
    BY <2>1, <2>3, <2>4 DEF Outer
<1>9. CASE ObserveReady
  <2>1. listener' \in Startup
    BY <1>9 DEF ObserveReady, Inner, AsyncTypes, Acknowledged, Startup
  <2>2. BridgeTypes' /\ AsyncTypes' /\ Accounted'
    BY <1>9, <2>1 DEF ObserveReady, Inner, BridgeTypes, AsyncTypes, Accounted, bridge
  <2>3. AsyncFlags'
    BY <1>9 DEF ObserveReady, Inner, AsyncFlags
  <2>4. OverTypes' /\ HistoryTypes'
    BY <1>9 DEF ObserveReady, Outer, OverTypes, HistoryTypes, None
  <2>7. OverFlags'
    BY <1>9 DEF ObserveReady, Outer, OverFlags
  <2>5. Pending' /\ Budget'
    BY <1>9 DEF ObserveReady, Outer, OverFlags, Pending, Budget
  <2>6. SentForOwnListener'
    BY <1>9 DEF ObserveReady, Outer, Pending, SentForOwnListener
  <2> QED
    BY <2>2, <2>3, <2>4, <2>5, <2>6, <2>7 DEF Inner, Outer
<1> QED
  BY <1>4, <1>5, <1>6, <1>7, <1>8, <1>9 DEF ObserveSettled

\* The ended challenge and the room outside the menu.
LEMMA DrainKeeps ==
  ASSUME IInv, Drain \/ BackgroundIdle \/ BackgroundDrain \/ BackgroundAbandoned
  PROVE  IInv'
<1> USE DEF IInv
<1>1. /\ UNCHANGED <<screen, submenu, targetIdle, backgrounded, history>> /\ abandoned' \in BOOLEAN
      /\ (pc = "drain" /\ pc' = "flow") \/ pc' = "frame"
  BY DEF Drain, BackgroundIdle, BackgroundDrain, BackgroundAbandoned, lobby, Shell, LobbyFlags
<1>2. Shell'
  BY <1>1 DEF Shell, ScreenTypes, LobbyFlags, InMenu, MenuHandlers
<1>3. Outer'
  BY <1>1, Hides, ClosedOwes, OuterSame
  DEF Drain, BackgroundIdle, BackgroundDrain, BackgroundAbandoned
<1>4. Inner'
  <2>1. CASE BackgroundIdle
    BY <2>1, InnerSame DEF BackgroundIdle
  <2>2. CASE BackgroundAbandoned
    BY <2>2, ResetAndCancels DEF BackgroundAbandoned
  <2>3. CASE Drain \/ BackgroundDrain
    <3>1. BridgeTypes' /\ AsyncTypes' /\ Accounted'
      BY <2>3 DEF Drain, BackgroundDrain, Inner, BridgeTypes, AsyncTypes, Accounted, bridge
    <3>2. AsyncFlags'
      BY <2>3 DEF Drain, BackgroundDrain, Inner, AsyncFlags
    <3> QED
      BY <3>1, <3>2 DEF Inner
  <2> QED
    BY <2>1, <2>2, <2>3
<1> QED
  BY <1>2, <1>3, <1>4

\* The menu's input: every branch leaves the handlers or stays in the menu.
FlowStep ==
  \/ FlowDiscovering \/ FlowSubmenu \/ FlowAbandoned \/ FlowTerminalRetry \/ FlowListenerFailed
  \/ FlowPromoteFailure \/ FlowNoOverlay \/ FlowFailureDialog \/ FlowUserCancel \/ FlowConnecting
  \/ FlowMenuIdle \/ FlowHostStart \/ FlowChallenge \/ FlowStopHosting \/ FlowLeaveMenu

LEMMA FlowShell ==
  ASSUME IInv, FlowStep
  PROVE  Shell' /\ screen = "menu" /\ (screen' = "menu" \/ FlowLeaveMenu)
<1>1. pc = "flow"
  BY DEF FlowStep, FlowDiscovering, FlowSubmenu, FlowAbandoned, FlowTerminalRetry,
         FlowListenerFailed, FlowPromoteFailure, FlowNoOverlay, FlowFailureDialog, FlowUserCancel,
         FlowConnecting, FlowMenuIdle, FlowHostStart, FlowChallenge, FlowStopHosting,
         FlowLeaveMenu, MenuOpen, ConnectingShown, FlowDue
<1>2. screen = "menu"
  BY <1>1 DEF IInv, Shell, InMenu, MenuHandlers
<1>3. CASE FlowLeaveMenu
  BY <1>2, <1>3 DEF FlowLeaveMenu, IInv, Shell, ScreenTypes, LobbyFlags, InMenu, MenuHandlers, lobby
<1> SUFFICES ASSUME ~FlowLeaveMenu PROVE Shell' /\ screen = "menu" /\ screen' = "menu"
  BY <1>2, <1>3
<1>5. screen' = screen
  BY DEF FlowStep, FlowDiscovering, FlowSubmenu, FlowAbandoned, FlowTerminalRetry,
         FlowListenerFailed, FlowPromoteFailure, FlowNoOverlay, FlowFailureDialog, FlowUserCancel,
         FlowConnecting, FlowMenuIdle, FlowHostStart, FlowChallenge, FlowStopHosting
<1>6. pc' \in {pc, "frame"}
  BY DEF FlowStep, FlowDiscovering, FlowSubmenu, FlowAbandoned, FlowTerminalRetry,
         FlowListenerFailed, FlowPromoteFailure, FlowNoOverlay, FlowFailureDialog, FlowUserCancel,
         FlowConnecting, FlowMenuIdle, FlowHostStart, FlowChallenge, FlowStopHosting,
         FlowLeaveMenu
<1>4. LobbyFlags'
  BY DEF FlowStep, FlowDiscovering, FlowSubmenu, FlowAbandoned, FlowTerminalRetry,
         FlowListenerFailed, FlowPromoteFailure, FlowNoOverlay, FlowFailureDialog, FlowUserCancel,
         FlowConnecting, FlowMenuIdle, FlowHostStart, FlowChallenge, FlowStopHosting,
         FlowLeaveMenu, IInv, Shell, LobbyFlags, OverFlags, Outer, lobby
<1> QED
  BY <1>1, <1>2, <1>4, <1>5, <1>6 DEF IInv, Shell, ScreenTypes, InMenu, MenuHandlers

LEMMA FlowKeeps ==
  ASSUME IInv, FlowStep
  PROVE  IInv'
<1> USE DEF IInv
<1>1. Shell' /\ screen = "menu" /\ (screen' = "menu" \/ FlowLeaveMenu)
  BY FlowShell
<1> SUFFICES Inner' /\ Outer'
  BY <1>1
<1>2. CASE FlowDiscovering \/ FlowSubmenu
  BY <1>2, InnerSame, OuterSame, Hides, ClosedOwes DEF FlowDiscovering, FlowSubmenu
<1>3. CASE FlowAbandoned
  <2>1. Outer'
    BY <1>3, Hides, ClosedOwes DEF FlowAbandoned
  <2>2. AsyncReset /\ cooldown' = cooldown /\ ended' \in BOOLEAN /\ screen' = "menu"
    BY <1>1, <1>3 DEF FlowAbandoned, Inner, AsyncFlags
  <2>3. CASE UNCHANGED bridge
    <3>1. BridgeTypes'
      BY <2>3 DEF Inner, BridgeTypes, bridge
    <3> QED
      BY <2>1, <2>2, <3>1, Resets
  <2>4. CASE BridgeCancel("challenge_target_left_lobby")
    BY <2>1, <2>2, <2>4, ResetAndCancels
  <2> QED
    BY <1>3, <2>3, <2>4 DEF FlowAbandoned
<1>4. CASE FlowTerminalRetry
  BY <1>4, Retries DEF FlowTerminalRetry
<1>5. CASE FlowListenerFailed
  BY <1>5, InnerSame, Shows, ClosedOwes DEF FlowListenerFailed
<1>6. CASE FlowPromoteFailure
  <2>1. BridgeTypes' /\ phase' \notin Waiting /\ ended' \in BOOLEAN
    BY <1>6 DEF FlowPromoteFailure, Inner, BridgeTypes, AsyncFlags, Waiting, Terminal, bridge
  <2>2. Inner'
    BY <1>6, <2>1, Resets DEF FlowPromoteFailure
  <2> QED
    BY <1>6, <2>2, Shows, ClosedOwes DEF FlowPromoteFailure
<1>7. CASE FlowNoOverlay
  <2>1. BridgeTypes' /\ phase' \notin Waiting
    BY <1>7, Cancels DEF FlowNoOverlay, Inner
  <2>2. Inner'
    BY <1>7, <2>1 DEF FlowNoOverlay, Inner, AsyncTypes, AsyncFlags, Accounted, async
  <2> QED
    BY <1>7, <2>2, OuterSame DEF FlowNoOverlay
<1>8. CASE FlowFailureDialog
  <2>1. CASE UNCHANGED <<bridge, async, over>>
    BY <1>8, <2>1, InnerSame, OuterSame DEF FlowFailureDialog
  <2>2. CASE ResetOverlay /\ AsyncReset /\ UNCHANGED <<ended, cooldown>>
    <3>1. Outer'
      BY <1>8, <2>2, Hides, ClosedOwes DEF FlowFailureDialog
    <3>2. ended' \in BOOLEAN /\ screen' = "menu"
      BY <1>1, <1>8, <2>2 DEF FlowFailureDialog, Inner, AsyncFlags
    <3>3. CASE UNCHANGED bridge
      <4>1. BridgeTypes'
        BY <3>3 DEF Inner, BridgeTypes, bridge
      <4> QED
        BY <2>2, <3>1, <3>2, <4>1, Resets
    <3>4. CASE BridgeCancel("dismissed_host_error")
      BY <2>2, <3>1, <3>2, <3>4, ResetAndCancels
    <3> QED
      BY <1>8, <2>2, <3>3, <3>4, <2>1 DEF FlowFailureDialog
  <2> QED
    BY <1>8, <2>1, <2>2 DEF FlowFailureDialog
<1>9. CASE FlowUserCancel \/ FlowStopHosting
  <2>1. Outer'
    BY <1>9, Hides, ClosedOwes DEF FlowUserCancel, FlowStopHosting
  <2> QED
    BY <1>9, <2>1, ResetAndCancels DEF FlowUserCancel, FlowStopHosting, Inner, AsyncFlags
<1>10. CASE FlowConnecting
  <2>1. BridgeTypes' /\ AsyncTypes'
    BY <1>10 DEF FlowConnecting, RequestAccept, Inner, BridgeTypes, AsyncTypes, bridge
  <2>2. AsyncFlags'
    BY <1>10 DEF FlowConnecting, Inner, AsyncFlags
  <2>3. Accounted'
    BY <1>1, <1>10 DEF FlowConnecting, ConnectingShown, RequestAccept, Accounted, bridge
  <2> QED
    BY <1>10, <2>1, <2>2, <2>3, OuterSame DEF FlowConnecting, Inner
<1>11. CASE FlowMenuIdle
  <2>1. BridgeTypes' /\ AsyncTypes'
    BY <1>11 DEF FlowMenuIdle, Inner, BridgeTypes, AsyncTypes, bridge
  <2>2. AsyncFlags'
    BY <1>11 DEF FlowMenuIdle, Inner, AsyncFlags
  <2>3. Accounted'
    BY <1>1, <1>11 DEF FlowMenuIdle, Inner, Accounted, bridge
  <2> QED
    BY <1>11, <2>1, <2>2, <2>3, OuterSame DEF FlowMenuIdle, Inner
<1>12. CASE FlowHostStart
  <2>1. Inner'
    BY <1>12, InnerSame DEF FlowHostStart
  <2>2. attempt + 1 \in 0..MaxAttempts
    BY <1>12 DEF FlowHostStart, Outer, HistoryTypes
  <2>3. /\ OverTypes' /\ publish' = None /\ challengeMode' \in BOOLEAN
        /\ retried' = FALSE /\ retryAllowed' = TRUE
    BY <1>12, <2>2, Discovers DEF FlowHostStart, Owners
  <2>4. OverFlags'
    BY <2>3 DEF OverFlags
  <2>5. HistoryTypes' /\ Pending' /\ Budget' /\ SentForOwnListener'
    BY <1>12, <2>2, <2>3
    DEF FlowHostStart, Outer, HistoryTypes, Pending, Budget, SentForOwnListener
  <2> QED
    BY <2>1, <2>3, <2>4, <2>5 DEF Outer
<1>13. CASE FlowChallenge
  <2>1. attempt + 1 \in 0..MaxAttempts /\ attempt' = attempt + 1
    BY <1>13 DEF FlowChallenge, Outer, HistoryTypes
  <2>2. CASE BridgeStartRefused /\ ShowFailure(TRUE) /\ startsOf' = 0 /\ UNCHANGED startedFor
    <3>1. BridgeTypes' /\ phase' \notin Waiting
      BY <2>2, Refuses DEF Inner
    <3>2. UNCHANGED <<async, sent>>
      BY <1>13, <2>2 DEF FlowChallenge
    <3>3. Inner'
      BY <3>1, <3>2 DEF Inner, AsyncTypes, AsyncFlags, Accounted, async
    <3>4. Closed
      BY <2>2, Shows
    <3>5. Outer'
      BY <2>1, <2>2, <3>2, <3>4
      DEF Outer, Closed, OverFlags, HistoryTypes, Pending, Budget, SentForOwnListener
    <3> QED
      BY <3>3, <3>5
  <2>3. CASE /\ BridgeStart /\ UNCHANGED helper /\ OnHostStarted("LobbyChallenge", FALSE)
             /\ AwaitListener("LobbyChallenge", FALSE, attempt + 1)
             /\ startedFor' = attempt + 1 /\ startsOf' = 1
    <3>1. Inner'
      BY <2>3, Starts, Tracks DEF Inner, Owners
    <3>2. OverTypes'
      BY <2>1, <2>3 DEF AwaitListener, OverTypes, NoTask, Task, Owners
    <3>3. OverFlags'
      BY <2>3 DEF AwaitListener, OverFlags
    <3>4. HistoryTypes' /\ Pending' /\ Budget' /\ SentForOwnListener'
      BY <1>13, <2>1, <2>3 DEF FlowChallenge, AwaitListener, Outer, HistoryTypes, Pending, Budget,
                               SentForOwnListener
    <3> QED
      BY <3>1, <3>2, <3>3, <3>4 DEF Outer
  <2> QED
    BY <1>13, <2>2, <2>3 DEF FlowChallenge
<1>14. CASE FlowLeaveMenu
  <2>1. Outer'
    BY <1>14, Hides, ClosedOwes, OuterSame DEF FlowLeaveMenu
  <2>2. CASE BridgeCancel("leave_menu")
    <3>1. BridgeTypes' /\ phase' \notin Waiting
      BY <2>2, Cancels DEF Inner
    <3> QED
      BY <1>14, <2>1, <3>1 DEF FlowLeaveMenu, Inner, AsyncTypes, AsyncFlags, Accounted, async
  <2>3. CASE UNCHANGED bridge
    <3>1. BridgeTypes' /\ AsyncTypes' /\ AsyncFlags'
      BY <1>14, <2>3 DEF FlowLeaveMenu, Inner, BridgeTypes, AsyncTypes, AsyncFlags, async, bridge
    <3>2. Accounted'
      BY <1>14, <2>3 DEF FlowLeaveMenu, MenuOpen, Inner, Accounted, Waiting, async, bridge
    <3> QED
      BY <2>1, <3>1, <3>2 DEF Inner
  <2> QED
    BY <1>14, <2>2, <2>3 DEF FlowLeaveMenu
<1> QED
  BY <1>2, <1>3, <1>4, <1>5, <1>6, <1>7, <1>8, <1>9, <1>10, <1>11, <1>12, <1>13, <1>14 DEF FlowStep

---------------------------------------------------------------------------
(* Everything else. *)

\* The player between frames.
LEMMA ScreenKeeps ==
  ASSUME IInv, EnterMenu \/ ChangeScreen
  PROVE  IInv'
<1> USE DEF IInv
<1>1. Shell'
  BY DEF EnterMenu, ChangeScreen, Shell, ScreenTypes, LobbyFlags, InMenu, MenuHandlers, lobby
<1>2. CASE ChangeScreen
  <2>1. BridgeTypes' /\ AsyncTypes' /\ AsyncFlags' /\ Accounted'
    BY <1>2 DEF ChangeScreen, Inner, BridgeTypes, AsyncTypes, AsyncFlags, Accounted, async, bridge
  <2> QED
    BY <1>1, <1>2, <2>1, OuterSame DEF ChangeScreen, Inner
<1>3. CASE EnterMenu
  <2>1. BridgeTypes' /\ AsyncTypes'
    BY <1>3 DEF EnterMenu, Inner, BridgeTypes, AsyncTypes, bridge
  <2>2. AsyncFlags'
    BY <1>3 DEF EnterMenu, Inner, AsyncFlags
  <2>3. Accounted'
    BY <1>3 DEF EnterMenu, Inner, Accounted, bridge
  <2>4. CASE ResetOverlay
    BY <1>1, <1>3, <2>1, <2>2, <2>3, <2>4, Hides, ClosedOwes DEF EnterMenu, Inner
  <2>5. CASE ~ResetOverlay
    <3>1. /\ overlay' \in {"Listening", "AwaitingListener"} /\ debounce' = 0 /\ ovWait' = "off"
          /\ task' = NoTask /\ publish' = None /\ retryAllowed' = FALSE /\ UNCHANGED history
      BY <1>3, <2>5 DEF EnterMenu, DropPending
    <3>2. OverFlags'
      BY <1>3, <2>5 DEF EnterMenu, OverFlags, Inner, AsyncFlags
    <3>3. OverTypes'
      BY <3>1 DEF OverTypes, NoTask, Task, Owners, None
    <3>4. HistoryTypes' /\ Pending' /\ Budget' /\ SentForOwnListener'
      BY <3>1 DEF Outer, HistoryTypes, Pending, Budget, SentForOwnListener, history
    <3> QED
      BY <1>1, <2>1, <2>2, <2>3, <3>2, <3>3, <3>4 DEF Inner, Outer
  <2> QED
    BY <2>4, <2>5
<1> QED
  BY <1>2, <1>3

\* Worker, helper, companion mod, clocks, lobby and the discovery thread.
LEMMA OthersKeep ==
  ASSUME IInv, Environment, ~EnterMenu, ~ChangeScreen
  PROVE  IInv'
<1> USE DEF IInv
<1>1. UNCHANGED <<screen, submenu, pc, backgrounded, history>>
  BY DEF Environment, StartWorker, DiscoveryThread, HelperListens, PeerConnects, HelperExit,
         ExternalCancel, ListenerWait, OverlayWait, TargetMoves, lobby
<1>2. LobbyFlags'
  BY <1>1 DEF Environment, StartWorker, DiscoveryThread, HelperListens, PeerConnects,
         HelperExit, ExternalCancel, ListenerWait, OverlayWait, TargetMoves, lobby, Shell,
         LobbyFlags
<1>3. Shell'
  BY <1>1, <1>2 DEF Shell, ScreenTypes, InMenu
<1>4. CASE UNCHANGED <<async, over>>
  <2>1. BridgeTypes' /\ (phase' \in Waiting => phase \in Waiting)
    <3>1. CASE ExternalCancel
      BY <3>1, Cancels DEF ExternalCancel, Inner
    <3>2. CASE StartWorker
      BY <3>2 DEF StartWorker, Inner, BridgeTypes, Waiting, Terminal
    <3>3. ASSUME NEW kind \in Kinds, HelperListens(kind)
          PROVE  BridgeTypes' /\ (phase' \in Waiting => phase \in Waiting)
      BY <3>3 DEF HelperListens, Inner, BridgeTypes, Observation
    <3>4. CASE PeerConnects \/ HelperExit
      BY <3>4 DEF PeerConnects, HelperExit, Inner, BridgeTypes, None
    <3>5. CASE UNCHANGED bridge
      BY <3>5 DEF Inner, BridgeTypes, bridge
    <3> QED
      BY <3>1, <3>2, <3>3, <3>4, <3>5
      DEF Environment, DiscoveryThread, ListenerWait, OverlayWait, TargetMoves
  <2>2. AsyncTypes' /\ AsyncFlags' /\ Accounted'
    BY <1>1, <1>4, <2>1 DEF Inner, AsyncTypes, AsyncFlags, Accounted, async
  <2> QED
    BY <1>1, <1>3, <1>4, <2>1, <2>2, OuterSame DEF Inner
<1>5. CASE ListenerWait
  <2>1. listener' \in Startup
    BY <1>5 DEF ListenerWait, Inner, AsyncTypes, Startup
  <2>2. BridgeTypes' /\ AsyncTypes' /\ Accounted'
    BY <1>5, <2>1 DEF ListenerWait, Inner, BridgeTypes, AsyncTypes, Accounted, bridge
  <2>3. AsyncFlags'
    BY <1>5 DEF ListenerWait, Inner, AsyncFlags
  <2> QED
    BY <1>3, <1>5, <2>2, <2>3, OuterSame DEF ListenerWait, Inner
<1>6. CASE DiscoveryThread
  <2>1. /\ task # NoTask /\ task' \in Task /\ task'.retried = task.retried
        /\ UNCHANGED <<overlay, debounce, ovWait, publish, startedFor, startsOf, sent>>
    BY <1>6 DEF DiscoveryThread, Outer, OverTypes, Task, history
  <2>2. OverTypes' /\ HistoryTypes' /\ Pending' /\ SentForOwnListener'
    BY <1>1, <2>1 DEF Outer, OverTypes, HistoryTypes, Pending, SentForOwnListener, history
  <2>3. OverFlags' /\ Budget'
    BY <1>6, <2>1 DEF DiscoveryThread, Outer, OverFlags, Budget
  <2> QED
    BY <1>3, <1>6, <2>2, <2>3, InnerSame DEF DiscoveryThread, Outer
<1>7. CASE OverlayWait
  <2>1. OverTypes'
    BY <1>7 DEF OverlayWait, Outer, OverTypes
  <2>2. OverFlags' /\ HistoryTypes' /\ Pending' /\ Budget' /\ SentForOwnListener'
    BY <1>7 DEF OverlayWait, Outer, OverFlags, HistoryTypes, Pending, Budget, SentForOwnListener,
                history
  <2> QED
    BY <1>3, <1>7, <2>1, <2>2, InnerSame DEF OverlayWait, Outer
<1> QED
  BY <1>4, <1>5, <1>6, <1>7
  DEF Environment, StartWorker, HelperListens, PeerConnects, HelperExit, ExternalCancel,
      TargetMoves

---------------------------------------------------------------------------
(* The theorems. *)

\* No step breaks the invariant.
LEMMA Inductive == IInv /\ [Next]_vars => IInv'
<1> SUFFICES ASSUME IInv, [Next]_vars PROVE IInv'
  OBVIOUS
<1>1. CASE UNCHANGED vars
  <2>1. UNCHANGED <<screen, submenu, pc, bridge, async, over, lobby, history>>
    BY <1>1 DEF vars
  <2>2. Shell'
    BY <2>1 DEF IInv, Shell, ScreenTypes, LobbyFlags, InMenu, lobby
  <2> QED
    BY <2>1, <2>2, InnerSame, OuterSame DEF IInv
<1>2. CASE GameThread
  BY <1>2, TickKeeps, AsyncKeeps, DiscoveryKeeps, ObserveKeeps, DrainKeeps, FlowKeeps
  DEF GameThread, FlowStep
<1>3. CASE Environment
  BY <1>3, ScreenKeeps, OthersKeep DEF Environment
<1> QED
  BY <1>1, <1>2, <1>3 DEF Next

\* The strengthened invariant holds in every reachable state.
THEOREM Invariance == Spec => []IInv
BY InitIInv, Inductive, PTL DEF Spec

\* The types of the model follow from those of the invariant.
LEMMA TypesFollow == IInv => TypeOK
<1> SUFFICES ASSUME IInv PROVE TypeOK
  OBVIOUS
<1> USE DEF IInv
<1>1. ScreenTypes /\ BridgeTypes /\ AsyncTypes /\ OverTypes /\ HistoryTypes
  BY DEF Shell, Inner, Outer
<1>2. {obs.pid} \subseteq 0..MaxStarts /\ {obs.serial} \subseteq 0..MaxSerial
  BY <1>1 DEF BridgeTypes, Observation
<1>3. {listener.candidate} \subseteq 0..MaxSerial
      /\ listener.st \in {"Inactive", "Waiting", "Stabilizing", "Ready", "Failed"}
  BY <1>1 DEF AsyncTypes, Startup
<1>4. task.attempt \in 0..MaxAttempts
  BY <1>1 DEF OverTypes, Task
<1>5. {ended, minimized, peerWasAlive, returnKey, cfgRetried, challengeMode, retryAllowed,
       retried, targetIdle, abandoned, backgrounded} \subseteq BOOLEAN
  BY DEF Shell, Inner, Outer, AsyncFlags, OverFlags, LobbyFlags
<1>6. /\ {starts, statusPid, helper, obs.pid} \subseteq 0..MaxStarts
      /\ {obs.serial, prompt, lastPrompt, debounce, listener.candidate} \subseteq 0..MaxSerial
      /\ {publish, attempt, startedFor, task.attempt} \subseteq 0..MaxAttempts
  BY <1>1, <1>2, <1>3, <1>4 DEF BridgeTypes, AsyncTypes, OverTypes, HistoryTypes
<1> QED
  BY <1>1, <1>3, <1>5, <1>6
  DEF TypeOK, ScreenTypes, BridgeTypes, AsyncTypes, OverTypes, Waiting, MenuHandlers

\* Hosting keeps its types; a challenge is sent for its own listener only
\* (PublishPendingLobbyChallenge); outside the menu nothing waits for a peer
\* that async_host does not track.
THEOREM HostingSafety == Spec => []HostingSafe
<1>1. IInv => HostingSafe
  <2>1. IInv => NoOrphanListener
    BY DEF IInv, Inner, Accounted, NoOrphanListener, Waiting
  <2>2. IInv => SentForOwnListener
    BY DEF IInv, Outer
  <2> QED
    BY <2>1, <2>2, TypesFollow DEF HostingSafe
<1> QED
  BY <1>1, Invariance, PTL

\* A request of the player is started at most twice, whichever of the two
\* triggers of the family retry fires and in whatever order.
THEOREM AtMostOneRetry == Spec => []OneFamilyRetry
<1>1. IInv => OneFamilyRetry
  BY DEF IInv, Outer, HistoryTypes, OneFamilyRetry
<1> QED
  BY <1>1, Invariance, PTL
=============================================================================
