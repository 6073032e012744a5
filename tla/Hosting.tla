------------------------------- MODULE Hosting -------------------------------
(***************************************************************************)
(* Hosting, from the menu's request to an accepted opponent: the hosting   *)
(* overlay and address discovery (src/netplay/hooks/title_flow.cpp), the   *)
(* async-host state machine (src/netplay/bridge/async_hosting.cpp,         *)
(* include/netplay/bridge/async_host_state.h) and the frame loops that     *)
(* drive both (src/netplay/hooks/menu_hooks.cpp, frontend_return.cpp).     *)
(*                                                                         *)
(* The game thread runs one handler at a time in the order of the frame,   *)
(* kept in pc; the start worker, the address-discovery thread, the helper  *)
(* process, the clock and the lobby take steps in between.  The bridge is  *)
(* kept to its phase and its start (module SessionStart has its inside).   *)
(***************************************************************************)
EXTENDS Naturals

CONSTANTS
  MaxStarts,       \* bound on the session starts of a behaviour
  MaxAttempts,     \* bound on the user's hosting requests
  MaxSerial,       \* bound on the serials a helper publishes
  ExternalCancels, \* may a companion mod call netbridge_CancelSession?
  CooldownTicks    \* g_autoRehostCooldownTicks after a rehost (96)

ASSUME HostingAssumption ==
  /\ MaxStarts \in Nat /\ MaxAttempts \in Nat /\ MaxSerial \in Nat /\ CooldownTicks \in Nat
  /\ ExternalCancels \in BOOLEAN

None == 0
NoObservation == [serial |-> 0, kind |-> "none", pid |-> None]
NoTask == [attempt |-> 0, owner |-> "Direct", retried |-> FALSE, done |-> FALSE]
Inactive == [st |-> "Inactive", mismatch |-> "Disabled", candidate |-> 0, waited |-> FALSE]
Owners == {"Direct", "LobbyChallenge"}
Kinds == {"match", "family", "port"}
Terminal == {"Failed", "SessionEnded"}

VARIABLES
  screen,        \* netplay menu, title screen, or an offline game screen
  submenu,       \* Options, Player Rooms or Battle Log has the input
  pc,            \* the next handler of the frame
  phase,         \* the bridge's phase
  start,         \* g_start: idle, rejected, running, cancelled
  starts,        \* number of starts so far: the id of the latest one
  statusPid,     \* g_status.processId
  helper,        \* the start whose helper process is alive
  obs,           \* the listener observation in the shared block
  prompt,        \* delayMetricsSerial
  state,         \* async_host g_state
  origin,        \* g_origin
  ended,         \* g_challengeEnded
  minimized,     \* g_minimized
  listener,      \* g_listener, with the 15 s wait as a flag
  cooldown,      \* g_autoRehostCooldownTicks
  lastPrompt,    \* g_lastPromptSerial
  peerWasAlive,  \* g_peerWasAlive
  returnKey,     \* g_returnKey: a return to the menu is pending
  cfgRetried,    \* g_networkConfig.automaticFamilyRetryAttempted
  overlay,       \* g_hostingOverlay's HostStartupPhase
  challengeMode, \* g_hostingOverlay.challengeMode
  retryAllowed,  \* g_hostingOverlay.familyRetryAllowed
  retried,       \* g_hostingOverlay.automaticFamilyRetryAttempted
  debounce,      \* g_hostingOverlay.listenerDebounce: the serial it holds
  ovWait,        \* listenerWaitStartTick: off, running, elapsed
  task,          \* g_pendingHostDiscovery
  publish,       \* g_pendingLobbyChallengePublish: the attempt it is for
  targetIdle,    \* the challenged player is idle in the polled lobby
  abandoned,     \* the lobby session reports the challenge abandoned
  backgrounded,  \* g_lobbyBackgrounded
  attempt,       \* number of the user's hosting requests (history)
  startedFor,    \* the request the latest start serves (history)
  startsOf,      \* starts made by the menu for this request (history)
  sent           \* the request and listener of the last challenge (history)

bridge == <<phase, start, starts, statusPid, helper, obs, prompt>>
async == <<state, origin, ended, minimized, listener, cooldown, lastPrompt, peerWasAlive,
           returnKey, cfgRetried>>
over == <<overlay, challengeMode, retryAllowed, retried, debounce, ovWait, task, publish>>
lobby == <<targetIdle, abandoned, backgrounded>>
history == <<attempt, startedFor, startsOf, sent>>
vars == <<screen, submenu, pc, bridge, async, over, lobby, history>>

Init ==
  /\ screen = "title" /\ submenu = FALSE /\ pc = "frame"
  /\ phase = "Idle" /\ start = "idle" /\ starts = 0 /\ statusPid = None /\ helper = None
  /\ obs = NoObservation /\ prompt = 0
  /\ state = "Idle" /\ origin = "Direct" /\ ended = FALSE /\ minimized = FALSE
  /\ listener = Inactive /\ cooldown = 0 /\ lastPrompt = 0 /\ peerWasAlive = FALSE
  /\ returnKey = FALSE /\ cfgRetried = FALSE
  /\ overlay = "Hidden" /\ challengeMode = FALSE /\ retryAllowed = FALSE /\ retried = FALSE
  /\ debounce = 0 /\ ovWait = "off" /\ task = NoTask /\ publish = None
  /\ targetIdle = TRUE /\ abandoned = FALSE /\ backgrounded = FALSE
  /\ attempt = 0 /\ startedFor = 0 /\ startsOf = 0 /\ sent = <<0, 0>>

-----------------------------------------------------------------------------
(* The bridge as its callers see it *)

StartRunning == start \in {"running", "cancelled"}
PeerProcessAlive == statusPid # None /\ helper = statusPid

\* GetHostListenerObservation
ObservationVisible == ~StartRunning /\ obs.serial # 0 /\ statusPid # None /\ obs.pid = statusPid

\* ShouldCancelToIdle, which the bridge and takeover each define.
ShouldCancelToIdle(reason) ==
  reason \in {"user_cancel", "leave_menu", "external_cancel", "dismissed_host_error",
              "no_overlay_session_ended"}
TakeoverCancelsToIdle(reason) ==
  reason \in {"user_cancel", "leave_menu", "external_cancel", "no_overlay_session_ended"}

\* CancelSession(reason)
BridgeCancel(reason) ==
  /\ obs' = NoObservation
  /\ \/ /\ start = "rejected"
        /\ start' = "idle" /\ phase' = "Idle"
        /\ UNCHANGED <<statusPid, helper>>
     \/ /\ StartRunning
        /\ start' = "cancelled"
        /\ phase' = IF ShouldCancelToIdle(reason) THEN "Idle" ELSE "Failed"
        /\ UNCHANGED <<statusPid, helper>>
     \/ /\ start = "idle"
        /\ phase' = IF TakeoverCancelsToIdle(reason) \/ helper = None
                    THEN "Idle" ELSE "SessionEnded"
        /\ statusPid' = None /\ helper' = None
        /\ UNCHANGED start
  /\ UNCHANGED <<starts, prompt>>

\* StartHostSession accepted: the request is handed to a worker.
BridgeStart ==
  /\ starts < MaxStarts
  /\ start' = "running" /\ starts' = starts + 1
  /\ phase' = "Connecting" /\ statusPid' = None
  /\ obs' = NoObservation /\ prompt' = 0

\* StartHostSession refused: a worker still runs, or none can be created.
BridgeStartRefused ==
  /\ phase' = "Failed"
  /\ IF StartRunning
     THEN UNCHANGED <<start, statusPid, obs, prompt>>
     ELSE start' = "rejected" /\ statusPid' = None /\ obs' = NoObservation /\ prompt' = 0
  /\ UNCHANGED <<starts, helper>>

-----------------------------------------------------------------------------
(* async_host *)

\* Reset
AsyncReset ==
  /\ state' = "Idle" /\ origin' = "Direct" /\ minimized' = FALSE /\ lastPrompt' = 0
  /\ returnKey' = FALSE /\ peerWasAlive' = FALSE /\ listener' = Inactive /\ cfgRetried' = FALSE

\* BeginHostTracking, OnHostStarted
OnHostStarted(owner, familyRetried) ==
  /\ state' = "Hosting" /\ origin' = owner /\ ended' = FALSE /\ minimized' = FALSE
  /\ listener' = [st |-> "Waiting", candidate |-> 0, waited |-> FALSE,
                  mismatch |-> IF familyRetried THEN "Disabled" ELSE "Available"]
  /\ cooldown' = 0 /\ returnKey' = FALSE /\ peerWasAlive' = FALSE
  /\ cfgRetried' = familyRetried
  /\ lastPrompt' = prompt'

\* ListenerStartup.Acknowledge
Acknowledged(l) == [l EXCEPT !.st = "Ready", !.mismatch = "Disabled", !.waited = FALSE]

\* Mutant: only a rehost waits for its listener with a time limit.
WaitArmedForRehost(l) ==
  l.st \in {"Waiting", "Stabilizing"} /\ ~l.waited /\ l.mismatch = "Disabled"

\* ListenerStartup's wait runs and has not elapsed.  Fail leaves it running.
WaitArmed(l) == l.st \in {"Waiting", "Stabilizing", "Failed"} /\ ~l.waited

\* Mutant: a lobby challenge is not accepted by the connecting screen.
AcceptDirectOnly ==
  IF state = "PeerFoundHeld" /\ origin = "Direct" THEN "Accepted" ELSE state

\* RequestAccept
RequestAccept == IF state = "PeerFoundHeld" THEN "Accepted" ELSE state

NextHandler == IF screen = "menu" THEN "discovery" ELSE "background"

\* Mutant: the cooldown is not stopped at zero.
CooldownUnchecked == cooldown - 1

CooldownLeft == IF cooldown > 0 THEN cooldown - 1 ELSE 0
AsyncDue == state # "Idle" /\ (pc = "async" \/ (screen = "game" /\ pc = "frame"))

ListenerVisible ==
  /\ listener.st # "Ready" /\ phase \in {"Connecting", "DelaySetup"}
  /\ PeerProcessAlive /\ ObservationVisible

\* What Tick's look at the observation can make of g_listener when it finds no
\* settled mismatch: a new candidate, an unsettled or an acknowledged one.
Looks ==
  IF ~ListenerVisible THEN {listener}
  ELSE IF listener.candidate # obs.serial
       THEN {[listener EXCEPT !.candidate = obs.serial, !.st = "Stabilizing"]}
       ELSE {listener} \union (IF obs.kind = "match" THEN {Acknowledged(listener)} ELSE {})

SettledMismatch ==
  ListenerVisible /\ listener.candidate = obs.serial /\ obs.kind \in {"family", "port"}

\* Tick: the first family mismatch is left to the hosting overlay.
AsyncDeferMismatch ==
  /\ AsyncDue
  /\ SettledMismatch /\ obs.kind = "family" /\ listener.mismatch = "Available"
  /\ listener' = [listener EXCEPT !.mismatch = "Deferred"]
  /\ cooldown' = CooldownLeft /\ peerWasAlive' = TRUE
  /\ pc' = NextHandler
  /\ UNCHANGED <<screen, submenu, bridge, state, origin, ended, minimized, lastPrompt,
                 returnKey, cfgRetried, over, lobby, history>>

\* Tick: any other settled mismatch ends the session.
AsyncMismatch ==
  /\ AsyncDue
  /\ SettledMismatch
  /\ obs.kind = "port" \/ listener.mismatch # "Available"
  /\ listener' = [listener EXCEPT !.st = "Failed"]
  /\ BridgeCancel("host_listener_ack_mismatch")
  /\ state' = "TimedOut"
  /\ cooldown' = CooldownLeft /\ peerWasAlive' = TRUE
  /\ pc' = NextHandler
  /\ UNCHANGED <<screen, submenu, origin, ended, minimized, lastPrompt, returnKey,
                 cfgRetried, over, lobby, history>>

\* Tick: an unsupported Revival profile stops hosting.
AsyncFatal ==
  /\ AsyncDue
  /\ phase = "Failed"
  /\ AsyncReset
  /\ cooldown' = CooldownLeft
  /\ pc' = NextHandler
  /\ UNCHANGED <<screen, submenu, bridge, ended, over, lobby, history>>

\* Tick: the session failed before its listener was seen.
AsyncStartFailed ==
  /\ AsyncDue
  /\ phase \in Terminal
  /\ listener.st \in {"Waiting", "Stabilizing"}
  /\ listener' = [listener EXCEPT !.st = "Failed"]
  /\ state' = "TimedOut"
  /\ cooldown' = CooldownLeft /\ peerWasAlive' = (peerWasAlive \/ PeerProcessAlive)
  /\ pc' = NextHandler
  /\ UNCHANGED <<screen, submenu, bridge, origin, ended, minimized, lastPrompt, returnKey,
                 cfgRetried, over, lobby, history>>

\* Tick: no listener within kListenerAckTimeoutMs.
AsyncTimeout ==
  /\ AsyncDue
  /\ phase # "Idle"
  /\ phase \in Terminal => listener.st = "Failed"
  /\ listener.waited
  /\ \E l \in Looks : l.st # "Ready" /\ listener' = [l EXCEPT !.st = "Failed"]
  /\ BridgeCancel("host_listener_ack_timeout")
  /\ state' = "TimedOut"
  /\ cooldown' = CooldownLeft /\ peerWasAlive' = (peerWasAlive \/ PeerProcessAlive)
  /\ pc' = NextHandler
  /\ UNCHANGED <<screen, submenu, origin, ended, minimized, lastPrompt, returnKey,
                 cfgRetried, over, lobby, history>>

WatchesPeer ==
  listener.st = "Ready" /\ CooldownLeft = 0 /\ state \in {"Hosting", "PeerFoundHeld"}

\* The drop that makes Tick call AutoRehost.
Disconnected ==
  WatchesPeer /\ ((~PeerProcessAlive /\ peerWasAlive) \/ phase \in Terminal)

\* AutoRehost's first question: may this host be restarted silently?
Rehosts == origin = "Direct"

\* AutoRehost of a lobby challenge: the challenge ends.
AsyncChallengeEnded ==
  /\ AsyncDue
  /\ Disconnected
  /\ ~Rehosts
  /\ BridgeCancel("helper_gone")
  /\ ended' = TRUE
  /\ AsyncReset
  /\ cooldown' = 0
  /\ pc' = NextHandler
  /\ UNCHANGED <<screen, submenu, over, lobby, history>>

\* AutoRehost of a direct host: CancelSession, then StartHostSession.
AsyncAutoRehost ==
  /\ AsyncDue
  /\ Disconnected
  /\ Rehosts
  /\ ~StartRunning
  /\ listener' = [Inactive EXCEPT !.st = "Waiting"]
  /\ helper' = None
  /\ \/ /\ BridgeStart
        /\ lastPrompt' = 0
     \/ /\ start' = "rejected" /\ phase' = "Failed" /\ statusPid' = None
        /\ obs' = NoObservation /\ prompt' = 0
        /\ UNCHANGED <<starts, lastPrompt>>
  /\ state' = "Hosting" /\ peerWasAlive' = FALSE /\ returnKey' = FALSE
  /\ cooldown' = CooldownTicks
  /\ pc' = NextHandler
  /\ UNCHANGED <<screen, submenu, origin, ended, minimized, cfgRetried, over, lobby,
                 attempt, startedFor, startsOf, sent>>

\* Tick: the session was cancelled under a ready listener.
AsyncSessionIdle ==
  /\ AsyncDue
  /\ WatchesPeer /\ ~Disconnected
  /\ phase = "Idle"
  /\ AsyncReset
  /\ cooldown' = 0
  /\ pc' = NextHandler
  /\ UNCHANGED <<screen, submenu, bridge, ended, over, lobby, history>>

\* Tick's ordinary end: PollReturnKey, then the state machine.  Outside the
\* menu the return key may be pressed; a stuck return is given up in time.
AsyncContinue ==
  /\ AsyncDue
  /\ ~Disconnected
  /\ ~(WatchesPeer /\ phase = "Idle")
  /\ phase \in Terminal => listener.st \in {"Ready", "Failed"}
  /\ \E l \in Looks : ~(l.st # "Ready" /\ listener.waited /\ phase # "Idle") /\ listener' = l
  /\ returnKey' \in IF screen = "menu" THEN {returnKey, FALSE} ELSE BOOLEAN
  /\ LET newPrompt == state = "Hosting" /\ prompt # 0 /\ prompt # lastPrompt
     IN  /\ state # "Accepted"
         /\ state' = IF newPrompt THEN "PeerFoundHeld" ELSE state
         /\ lastPrompt' = IF newPrompt THEN prompt ELSE lastPrompt
  /\ peerWasAlive' = (peerWasAlive \/ PeerProcessAlive)
  /\ cooldown' = CooldownLeft
  /\ pc' = NextHandler
  /\ UNCHANGED <<screen, submenu, bridge, ended, origin, minimized, cfgRetried, over, lobby,
                 history>>

\* Tick in state Accepted: the hold is released to the ordinary delay flow.
AsyncHandoff ==
  /\ AsyncDue
  /\ state = "Accepted"
  /\ phase \in Terminal => listener.st \in {"Ready", "Failed"}
  /\ ~(listener.st # "Ready" /\ listener.waited /\ phase # "Idle")
  /\ AsyncReset
  /\ cooldown' = CooldownLeft
  /\ pc' = NextHandler
  /\ UNCHANGED <<screen, submenu, bridge, ended, over, lobby, history>>

AsyncIdle ==
  /\ state = "Idle" /\ (pc = "async" \/ (screen = "game" /\ pc = "frame"))
  /\ pc' = NextHandler
  /\ UNCHANGED <<screen, submenu, bridge, async, over, lobby, history>>

AsyncTick ==
  \/ AsyncIdle \/ AsyncDeferMismatch \/ AsyncMismatch \/ AsyncFatal \/ AsyncStartFailed
  \/ AsyncTimeout \/ AsyncChallengeEnded \/ AsyncAutoRehost \/ AsyncSessionIdle
  \/ AsyncContinue \/ AsyncHandoff

-----------------------------------------------------------------------------
(* The hosting overlay *)

\* Mutant: a challenge waiting for its listener survives the reset.
KeepPending == UNCHANGED publish

\* The part of ResetHostingOverlayState that drops the waiting challenge.
DropPending == publish' = None

\* ResetHostingOverlayState
ResetOverlay ==
  /\ overlay' = "Hidden" /\ challengeMode' = FALSE /\ retryAllowed' = FALSE
  /\ retried' = FALSE /\ debounce' = 0 /\ ovWait' = "off" /\ task' = NoTask
  /\ DropPending

\* ShowHostStartupFailure(text, needsBridgeCancel)
ShowFailure(needsBridgeCancel) ==
  /\ overlay' = IF needsBridgeCancel THEN "FailedAwaitingCancel" ELSE "Failed"
  /\ challengeMode' = FALSE /\ retryAllowed' = FALSE
  /\ retried' = FALSE /\ debounce' = 0 /\ ovWait' = "off" /\ task' = NoTask
  /\ DropPending

\* Mutant: the retry forgets that it is one.
BeginDiscoveryForgets(owner, isRetry, request) ==
  /\ isRetry \in BOOLEAN
  /\ overlay' = "Discovering" /\ challengeMode' = (owner = "LobbyChallenge")
  /\ retryAllowed' = TRUE /\ retried' = FALSE /\ debounce' = 0 /\ ovWait' = "off"
  /\ task' = [attempt |-> request, owner |-> owner, retried |-> FALSE, done |-> FALSE]
  /\ DropPending

\* BeginHostDiscovery
BeginDiscovery(owner, isRetry, request) ==
  /\ overlay' = "Discovering" /\ challengeMode' = (owner = "LobbyChallenge")
  /\ retryAllowed' = TRUE /\ retried' = isRetry /\ debounce' = 0 /\ ovWait' = "off"
  /\ task' = [attempt |-> request, owner |-> owner, retried |-> isRetry, done |-> FALSE]
  /\ DropPending

\* The overlay of a queued start: QueueSession, ActivateChallengeHostingOverlay.
AwaitListener(owner, isRetry, request) ==
  /\ overlay' = "AwaitingListener" /\ challengeMode' = (owner = "LobbyChallenge")
  /\ retryAllowed' = TRUE /\ retried' = isRetry /\ debounce' = 0
  /\ ovWait' = IF owner = "LobbyChallenge" THEN "running" ELSE "off"
  /\ task' = NoTask
  /\ publish' = IF owner = "LobbyChallenge" THEN request ELSE publish

OverlayFailed == overlay \in {"Failed", "FailedAwaitingCancel"}
OverlayActive == overlay # "Hidden"

\* BeginAutomaticHostFamilyRetry, its two endings that do retry or give up.
FamilyRetry ==
  /\ retryAllowed /\ ~retried
  /\ AsyncReset
  /\ BridgeCancel("host_family_retry")
  /\ IF challengeMode /\ (publish = None \/ ~targetIdle)
     THEN ShowFailure(TRUE)
     ELSE BeginDiscovery(IF challengeMode THEN "LobbyChallenge" ELSE "Direct", TRUE, attempt)

-----------------------------------------------------------------------------
(* The frame, handler by handler *)

\* Title frame: ConsumeRevivalExitInterception invalidates the start.
TitlePoll ==
  /\ screen = "title" /\ pc = "frame"
  /\ start' = IF StartRunning THEN "cancelled" ELSE start
  /\ pc' = "tick"
  /\ UNCHANGED <<screen, submenu, phase, starts, statusPid, helper, obs, prompt, async,
                 over, lobby, history>>

TickDue == pc = "tick" \/ (screen = "menu" /\ pc = "frame")

\* bridge::Tick while a start runs: it returns before async_host::Tick.
TickSkipped ==
  /\ TickDue
  /\ StartRunning
  /\ pc' = NextHandler
  /\ UNCHANGED <<screen, submenu, bridge, async, over, lobby, history>>

\* bridge::Tick: takeover::Tick, then async_host::Tick.
BridgeTick ==
  /\ TickDue
  /\ ~StartRunning
  /\ \/ /\ phase \in {"Connecting", "DelaySetup"} /\ helper = None
        /\ phase' = "Failed"
     \/ /\ phase \in {"Connecting", "DelaySetup"} /\ helper # None
        /\ phase' \in {phase, "Failed"} \union (IF prompt # 0 THEN {"DelaySetup"} ELSE {})
     \/ /\ phase \notin {"Connecting", "DelaySetup"}
        /\ UNCHANGED phase
  /\ pc' = "async"
  /\ UNCHANGED <<screen, submenu, start, starts, statusPid, helper, obs, prompt, async,
                 over, lobby, history>>

\* PumpDirectHostDiscovery
DiscoveryPending ==
  /\ pc = "discovery"
  /\ task = NoTask \/ ~task.done \/ (task.retried /\ StartRunning)
  /\ pc' = "observe"
  /\ UNCHANGED <<screen, submenu, bridge, async, over, lobby, history>>

DiscoveryDue ==
  pc = "discovery" /\ task # NoTask /\ task.done /\ ~(task.retried /\ StartRunning)

DiscoveryRejected ==
  /\ DiscoveryDue
  /\ task.owner = "LobbyChallenge"   \* the target left, or no public address
  /\ ShowFailure(phase # "Idle")
  /\ pc' = "observe"
  /\ UNCHANGED <<screen, submenu, bridge, async, lobby, history>>

DiscoveryStarts ==
  /\ DiscoveryDue
  /\ task.owner = "LobbyChallenge" => targetIdle
  /\ ~StartRunning
  /\ BridgeStart /\ UNCHANGED helper
  /\ OnHostStarted(task.owner, task.retried)
  /\ AwaitListener(task.owner, task.retried, task.attempt)
  /\ startedFor' = task.attempt /\ startsOf' = startsOf + 1
  /\ pc' = "observe"
  /\ UNCHANGED <<screen, submenu, lobby, attempt, sent>>

\* The start is refused for another reason than the address family:
\* StartHostSession never answers FamilyUnavailable, so the retry the pump
\* keeps for that answer is not taken.
DiscoveryStartRefused ==
  /\ DiscoveryDue
  /\ task.owner = "LobbyChallenge" => targetIdle
  /\ BridgeStartRefused
  /\ ShowFailure(TRUE)
  /\ pc' = "observe"
  /\ UNCHANGED <<screen, submenu, async, lobby, history>>

\* PumpHostListenerObservation begins by noticing that async_host rehosts.
OverlayNow ==
  IF overlay = "Listening" /\ state # "Idle" /\ listener.st # "Ready"
  THEN "AwaitingListener" ELSE overlay

Observing == pc = "observe" /\ OverlayNow = "AwaitingListener"
ChallengeTimedOut == challengeMode /\ ovWait = "elapsed"
ObservationLive ==
  ObservationVisible /\ phase \in {"Connecting", "DelaySetup"} /\ PeerProcessAlive

ObserveChallengeTimeout ==
  /\ Observing /\ ChallengeTimedOut
  /\ AsyncReset
  /\ BridgeCancel("lobby_host_listener_ack_timeout")
  /\ ShowFailure(FALSE)
  /\ pc' = "drain"
  /\ UNCHANGED <<screen, submenu, ended, cooldown, lobby, history>>

\* Nothing to observe, or a candidate that has not settled.
ObserveNothing ==
  /\ pc = "observe"
  /\ ~(Observing /\ ChallengeTimedOut)
  /\ overlay' = OverlayNow
  /\ debounce' = IF Observing /\ ObservationLive THEN obs.serial ELSE debounce
  /\ pc' = "drain"
  /\ UNCHANGED <<screen, submenu, bridge, async, challengeMode, retryAllowed, retried,
                 ovWait, task, publish, lobby, history>>

ObservationSettled ==
  Observing /\ ~ChallengeTimedOut /\ ObservationLive /\ debounce = obs.serial

ObservePortMismatch ==
  /\ ObservationSettled /\ obs.kind = "port"
  /\ AsyncReset
  /\ BridgeCancel("host_listener_family_or_port_mismatch")
  /\ ShowFailure(TRUE)
  /\ pc' = "drain"
  /\ UNCHANGED <<screen, submenu, ended, cooldown, lobby, history>>

ObserveFamilyMismatch ==
  /\ ObservationSettled /\ obs.kind = "family"
  /\ \/ FamilyRetry
     \/ /\ ~(retryAllowed /\ ~retried)
        /\ AsyncReset
        /\ BridgeCancel("host_listener_family_mismatch_after_retry")
        /\ ShowFailure(TRUE)
  /\ pc' = "drain"
  /\ UNCHANGED <<screen, submenu, ended, cooldown, lobby, history>>

\* The challenged player left before the listener was up, or no endpoint can
\* be written for it.
ObserveTargetGone ==
  /\ ObservationSettled /\ obs.kind = "match"
  /\ publish # None
  /\ AsyncReset
  /\ BridgeCancel("lobby_target_gone_before_endpoint_publish")
  /\ ShowFailure(TRUE)
  /\ pc' = "drain"
  /\ UNCHANGED <<screen, submenu, ended, cooldown, lobby, history>>

\* The listener is up; a waiting challenge is sent with its endpoint.
ObserveReady ==
  /\ ObservationSettled /\ obs.kind = "match"
  /\ publish # None => targetIdle
  /\ overlay' = "Listening" /\ retryAllowed' = FALSE /\ debounce' = 0
  /\ listener' = IF state # "Idle" THEN Acknowledged(listener) ELSE listener
  /\ sent' = IF publish # None THEN <<publish, startedFor>> ELSE sent
  /\ publish' = None
  /\ pc' = "drain"
  /\ UNCHANGED <<screen, submenu, bridge, state, origin, ended, minimized, cooldown,
                 lastPrompt, peerWasAlive, returnKey, cfgRetried, challengeMode, retried,
                 ovWait, task, lobby, attempt, startedFor, startsOf>>

\* DrainEndedLobbyChallenge
Drain ==
  /\ pc = "drain"
  /\ IF ended THEN ResetOverlay ELSE UNCHANGED over
  /\ ended' = FALSE
  /\ pc' = "flow"
  /\ UNCHANGED <<screen, submenu, bridge, state, origin, minimized, listener, cooldown,
                 lastPrompt, peerWasAlive, returnKey, cfgRetried, lobby, history>>

\* TickBackgroundLobby, outside the menu, when the room has nothing to say.
BackgroundIdle ==
  /\ pc = "background"
  /\ ~backgrounded \/ (~ended /\ ~abandoned)
  /\ pc' = "frame"
  /\ UNCHANGED <<screen, submenu, bridge, async, over, lobby, history>>

\* TickBackgroundLobby: DrainEndedLobbyChallenge alone.
BackgroundDrain ==
  /\ pc = "background"
  /\ backgrounded /\ ended /\ ~abandoned
  /\ ResetOverlay
  /\ ended' = FALSE
  /\ pc' = "frame"
  /\ UNCHANGED <<screen, submenu, bridge, state, origin, minimized, listener, cooldown,
                 lastPrompt, peerWasAlive, returnKey, cfgRetried, lobby, history>>

\* Mutant: the abandoned challenge leaves its session running.
BackgroundAbandonedKeeps ==
  /\ pc = "background"
  /\ backgrounded /\ abandoned
  /\ ResetOverlay /\ AsyncReset
  /\ ended' = FALSE /\ abandoned' = FALSE
  /\ pc' = "frame"
  /\ UNCHANGED <<screen, submenu, bridge, cooldown, targetIdle, backgrounded, history>>

\* TickBackgroundLobby: the challenged player is gone.
BackgroundAbandoned ==
  /\ pc = "background"
  /\ backgrounded /\ abandoned
  /\ ResetOverlay /\ AsyncReset
  /\ BridgeCancel("challenge_target_left_lobby")
  /\ ended' = FALSE /\ abandoned' = FALSE
  /\ pc' = "frame"
  /\ UNCHANGED <<screen, submenu, cooldown, targetIdle, backgrounded, history>>

-----------------------------------------------------------------------------
(* UpdateNetplayMenu: input, once the handlers above have run *)

\* Discovering: the only input is a cancel.
FlowDiscovering ==
  /\ pc = "flow" /\ overlay = "Discovering"
  /\ ResetOverlay \/ UNCHANGED over
  /\ pc' = "frame"
  /\ UNCHANGED <<screen, submenu, bridge, async, lobby, history>>

\* A screen that handles its own input ends the frame here.
FlowSubmenu ==
  /\ pc = "flow" /\ overlay # "Discovering"
  /\ submenu
  /\ submenu' \in BOOLEAN
  /\ pc' = "frame"
  /\ UNCHANGED <<screen, bridge, async, over, lobby, history>>

\* ConsumeAbandonedOutgoingChallenge
FlowAbandoned ==
  /\ pc = "flow" /\ overlay # "Discovering" /\ ~submenu
  /\ abandoned
  /\ abandoned' = FALSE
  /\ ResetOverlay /\ AsyncReset
  /\ IF phase \in {"Connecting", "DelaySetup"}
     THEN BridgeCancel("challenge_target_left_lobby") ELSE UNCHANGED bridge
  /\ pc' = "frame"
  /\ UNCHANGED <<screen, submenu, ended, cooldown, targetIdle, backgrounded, history>>

FlowDue == pc = "flow" /\ overlay # "Discovering" /\ ~submenu /\ ~abandoned

\* TryBeginTerminalHostFamilyRetry, when the capability cache favours it.
FlowTerminalRetry ==
  /\ FlowDue
  /\ overlay = "AwaitingListener" /\ phase \in Terminal
  /\ FamilyRetry
  /\ pc' = "frame"
  /\ UNCHANGED <<screen, submenu, ended, cooldown, lobby, history>>

\* HasHostListenerStartupFailed becomes the failure dialog.
FlowListenerFailed ==
  /\ FlowDue /\ OverlayActive /\ ~OverlayFailed
  /\ listener.st = "Failed"
  /\ ShowFailure(phase # "Idle")
  /\ UNCHANGED <<screen, submenu, pc, bridge, async, lobby, history>>

\* promoteTerminalBridgeFailureToJoiningOverlay
FlowPromoteFailure ==
  /\ FlowDue /\ OverlayActive /\ ~OverlayFailed
  /\ listener.st # "Failed"
  /\ phase \in Terminal
  /\ AsyncReset /\ ShowFailure(TRUE)
  /\ UNCHANGED <<screen, submenu, pc, bridge, ended, cooldown, lobby, history>>

\* The failure dialog, dismissed or kept.
FlowFailureDialog ==
  /\ FlowDue /\ OverlayFailed
  /\ \/ UNCHANGED <<bridge, async, over>>
     \/ /\ ResetOverlay /\ AsyncReset
        /\ IF overlay = "FailedAwaitingCancel"
           THEN BridgeCancel("dismissed_host_error") ELSE UNCHANGED bridge
        /\ UNCHANGED <<ended, cooldown>>
  /\ pc' = "frame"
  /\ UNCHANGED <<screen, submenu, lobby, history>>

\* A terminal session with no overlay to show it is acknowledged at once.
FlowNoOverlay ==
  /\ FlowDue /\ ~OverlayActive
  /\ phase \in Terminal
  /\ BridgeCancel("no_overlay_session_ended")
  /\ UNCHANGED <<screen, submenu, pc, async, over, lobby, history>>

Quiet == phase \notin Terminal /\ ~OverlayFailed /\ ~(OverlayActive /\ listener.st = "Failed")
ConnectingShown == FlowDue /\ Quiet /\ phase \in {"Connecting", "DelaySetup"} /\ ~minimized

FlowUserCancel ==
  /\ ConnectingShown
  /\ ResetOverlay /\ AsyncReset /\ BridgeCancel("user_cancel")
  /\ pc' = "frame"
  /\ UNCHANGED <<screen, submenu, ended, cooldown, lobby, history>>

\* The input of a connecting session; a held opponent is accepted.
FlowConnecting ==
  /\ ConnectingShown
  /\ state' = RequestAccept
  /\ \/ UNCHANGED <<minimized, backgrounded>>
     \/ /\ overlay = "Listening" /\ state = "Hosting"
        /\ minimized' = TRUE
        /\ backgrounded' = (backgrounded \/ challengeMode)
  /\ pc' = "frame"
  /\ UNCHANGED <<screen, submenu, bridge, origin, ended, listener, cooldown, lastPrompt,
                 peerWasAlive, returnKey, cfgRetried, over, targetIdle, abandoned, history>>

MenuOpen == FlowDue /\ Quiet /\ (phase \in {"Connecting", "DelaySetup"} => minimized)

\* No input, a screen of its own, or OpenHost, OpenPlayerRooms or OpenLobby
\* bringing the overlay back.
FlowMenuIdle ==
  /\ MenuOpen
  /\ \/ submenu' \in BOOLEAN /\ UNCHANGED minimized
     \/ minimized' = FALSE /\ UNCHANGED submenu
  /\ pc' = "frame"
  /\ UNCHANGED <<screen, bridge, state, origin, ended, listener, cooldown, lastPrompt,
                 peerWasAlive, returnKey, cfgRetried, over, lobby, history>>

\* HostStart
FlowHostStart ==
  /\ MenuOpen
  /\ state = "Idle"
  /\ attempt < MaxAttempts
  /\ BeginDiscovery("Direct", FALSE, attempt + 1)
  /\ attempt' = attempt + 1 /\ startsOf' = 0
  /\ pc' = "frame"
  /\ UNCHANGED <<screen, submenu, bridge, async, lobby, startedFor, sent>>

\* A challenge sent from the room: its host is started first.
FlowChallenge ==
  /\ MenuOpen
  /\ state = "Idle" /\ targetIdle
  /\ attempt < MaxAttempts
  /\ attempt' = attempt + 1
  /\ \/ /\ ~StartRunning
        /\ BridgeStart /\ UNCHANGED helper
        /\ OnHostStarted("LobbyChallenge", FALSE)
        /\ AwaitListener("LobbyChallenge", FALSE, attempt + 1)
        /\ startedFor' = attempt + 1 /\ startsOf' = 1
     \/ /\ BridgeStartRefused
        /\ ShowFailure(TRUE)
        /\ startsOf' = 0
        /\ UNCHANGED <<async, startedFor>>
  /\ pc' = "frame"
  /\ UNCHANGED <<screen, submenu, lobby, sent>>

\* The stop-hosting dialog, confirmed.
FlowStopHosting ==
  /\ MenuOpen
  /\ state # "Idle"
  /\ AsyncReset /\ BridgeCancel("stop_hosting_for_menu") /\ ResetOverlay
  /\ pc' = "frame"
  /\ UNCHANGED <<screen, submenu, ended, cooldown, lobby, history>>

\* LeaveNetplayMenu
FlowLeaveMenu ==
  /\ MenuOpen
  /\ screen' = "title" /\ pc' = "frame" /\ UNCHANGED submenu
  /\ IF state = "Idle" /\ ~backgrounded
     THEN BridgeCancel("leave_menu") ELSE UNCHANGED bridge
  /\ IF state = "Idle" THEN ResetOverlay ELSE UNCHANGED over
  /\ UNCHANGED <<async, lobby, history>>

-----------------------------------------------------------------------------
(* Between frames: the screen the player is on *)

\* EnterNetplayMenu, with RestoreHostingOverlayFromAsyncHost.
EnterMenu ==
  /\ screen = "title" /\ pc = "frame"
  /\ screen' = "menu" /\ submenu' = FALSE
  /\ IF state = "Idle"
     THEN ResetOverlay /\ UNCHANGED minimized
     ELSE /\ overlay' = IF listener.st = "Ready" THEN "Listening" ELSE "AwaitingListener"
          /\ challengeMode' = (origin = "LobbyChallenge")
          /\ retryAllowed' = FALSE /\ retried' = cfgRetried
          /\ debounce' = 0 /\ ovWait' = "off" /\ task' = NoTask
          /\ DropPending
          /\ minimized' = ~(origin = "LobbyChallenge" \/ returnKey)
  /\ returnKey' = FALSE
  /\ UNCHANGED <<pc, bridge, state, origin, ended, listener, cooldown, lastPrompt,
                 peerWasAlive, cfgRetried, lobby, history>>

\* An offline mode is entered from the title screen, or left.
ChangeScreen ==
  /\ pc = "frame"
  /\ \/ screen = "title" /\ screen' = "game"
     \/ screen = "game" /\ screen' = "title"
  /\ UNCHANGED <<submenu, pc, bridge, async, over, lobby, history>>

-----------------------------------------------------------------------------
(* Worker, discovery thread, helper process, clock and lobby *)

\* The start worker: its result is published, or dropped when it is stale.
StartWorker ==
  /\ StartRunning
  /\ start' = "idle"
  /\ \/ /\ start = "running"
        /\ helper = None
        /\ helper' = starts /\ statusPid' = starts
        /\ UNCHANGED phase
     \/ /\ start = "running"
        /\ phase' = "Failed"
        /\ UNCHANGED <<helper, statusPid>>
     \/ /\ start = "cancelled"
        /\ UNCHANGED <<phase, helper, statusPid>>
  /\ UNCHANGED <<screen, submenu, pc, starts, obs, prompt, async, over, lobby, history>>

\* HostDiscoveryThreadMain completes its task.
DiscoveryThread ==
  /\ task # NoTask /\ ~task.done
  /\ task' = [task EXCEPT !.done = TRUE]
  /\ UNCHANGED <<screen, submenu, pc, bridge, async, overlay, challengeMode, retryAllowed,
                 retried, debounce, ovWait, publish, lobby, history>>

\* The helper's process publishes a listener, a peer, or ends.
HelperListens(kind) ==
  /\ helper # None /\ obs.serial < MaxSerial
  /\ obs' = [serial |-> obs.serial + 1, kind |-> kind, pid |-> helper]
  /\ UNCHANGED <<screen, submenu, pc, phase, start, starts, statusPid, helper, prompt,
                 async, over, lobby, history>>

PeerConnects ==
  /\ helper # None /\ obs.pid = helper
  /\ prompt < MaxSerial
  /\ prompt' = prompt + 1
  /\ UNCHANGED <<screen, submenu, pc, phase, start, starts, statusPid, helper, obs, async,
                 over, lobby, history>>

HelperExit ==
  /\ helper # None
  /\ helper' = None
  /\ UNCHANGED <<screen, submenu, pc, phase, start, starts, statusPid, obs, prompt, async,
                 over, lobby, history>>

\* netbridge_CancelSession, exported to companion mods.
ExternalCancel ==
  /\ ExternalCancels
  /\ BridgeCancel("external_cancel")
  /\ UNCHANGED <<screen, submenu, pc, async, over, lobby, history>>

\* kListenerAckTimeoutMs passes for async_host, or for a challenge's overlay.
ListenerWait ==
  /\ WaitArmed(listener)
  /\ listener' = [listener EXCEPT !.waited = TRUE]
  /\ UNCHANGED <<screen, submenu, pc, bridge, state, origin, ended, minimized, cooldown,
                 lastPrompt, peerWasAlive, returnKey, cfgRetried, over, lobby, history>>

OverlayWait ==
  /\ ovWait = "running"
  /\ ovWait' = "elapsed"
  /\ UNCHANGED <<screen, submenu, pc, bridge, async, overlay, challengeMode, retryAllowed,
                 retried, debounce, task, publish, lobby, history>>

\* The challenged player becomes busy or idle in the polled room; once the
\* challenge was sent, leaving is reported as an abandoned challenge.
TargetMoves ==
  /\ targetIdle' = ~targetIdle
  /\ abandoned' = (abandoned \/ (targetIdle /\ state # "Idle" /\ origin = "LobbyChallenge"
                                   /\ sent[1] = attempt /\ attempt # 0))
  /\ UNCHANGED <<screen, submenu, pc, bridge, async, over, backgrounded, history>>

-----------------------------------------------------------------------------
ObserveSettled ==
  ObservePortMismatch \/ ObserveFamilyMismatch \/ ObserveTargetGone \/ ObserveReady

GameThread ==
  \/ TitlePoll \/ TickSkipped \/ BridgeTick \/ AsyncTick
  \/ DiscoveryPending \/ DiscoveryRejected \/ DiscoveryStarts \/ DiscoveryStartRefused
  \/ ObserveChallengeTimeout \/ ObserveNothing \/ ObserveSettled
  \/ Drain \/ BackgroundIdle \/ BackgroundDrain \/ BackgroundAbandoned
  \/ FlowDiscovering \/ FlowSubmenu \/ FlowAbandoned \/ FlowTerminalRetry \/ FlowListenerFailed
  \/ FlowPromoteFailure \/ FlowNoOverlay \/ FlowFailureDialog \/ FlowUserCancel \/ FlowConnecting
  \/ FlowMenuIdle \/ FlowHostStart \/ FlowChallenge \/ FlowStopHosting \/ FlowLeaveMenu

Environment ==
  \/ EnterMenu \/ ChangeScreen
  \/ StartWorker \/ DiscoveryThread
  \/ \E kind \in Kinds : HelperListens(kind)
  \/ PeerConnects \/ HelperExit
  \/ ExternalCancel \/ ListenerWait \/ OverlayWait \/ TargetMoves

Next == GameThread \/ Environment

Spec == Init /\ [][Next]_vars

\* The game calls the frame hooks as long as it runs, a created thread runs to
\* its end, and time passes: the two waits elapse, and a serial that stays is
\* debounced after 100 ms of frames.  Nothing is assumed of the helper, of the peer,
\* of the room or of the player.
Fairness ==
  /\ WF_vars(GameThread)
  /\ WF_vars(StartWorker) /\ WF_vars(DiscoveryThread)
  /\ WF_vars(ListenerWait) /\ WF_vars(OverlayWait)
  /\ SF_vars(ObserveSettled)

FairSpec == Spec /\ Fairness

-----------------------------------------------------------------------------
(* Properties *)

\* Every variable has its type.
TypeOK ==
  /\ screen \in {"menu", "title", "game"}
  /\ pc \in {"frame", "tick", "async", "discovery", "observe", "drain", "flow", "background"}
  /\ phase \in {"Idle", "Connecting", "DelaySetup"} \union Terminal
  /\ start \in {"idle", "rejected", "running", "cancelled"}
  /\ {starts, statusPid, helper, obs.pid} \subseteq 0..MaxStarts
  /\ {obs.serial, prompt, lastPrompt, debounce, listener.candidate} \subseteq 0..MaxSerial
  /\ state \in {"Idle", "Hosting", "PeerFoundHeld", "Accepted", "TimedOut"}
  /\ origin \in Owners
  /\ listener.st \in {"Inactive", "Waiting", "Stabilizing", "Ready", "Failed"}
  /\ cooldown \in 0..CooldownTicks
  /\ overlay \in {"Hidden", "Discovering", "AwaitingListener", "Listening", "Failed",
                  "FailedAwaitingCancel"}
  /\ ovWait \in {"off", "running", "elapsed"}
  /\ {publish, attempt, startedFor, task.attempt} \subseteq 0..MaxAttempts
  /\ {ended, minimized, peerWasAlive, returnKey, cfgRetried, challengeMode, retryAllowed,
      retried, targetIdle, abandoned, backgrounded} \subseteq BOOLEAN

\* One request of the player makes at most two session starts from the menu:
\* its own and one automatic retry with the other address family, whichever
\* of the two triggers (a listener of the wrong family, a terminal failure)
\* fires, and in whatever order.
OneFamilyRetry == startsOf <= 2

\* A lobby challenge is sent with the endpoint of the listener that was
\* started for it: a challenge left over from a cancelled or failed start is
\* never sent once some later listener comes up.
SentForOwnListener == sent[1] = sent[2]

\* Outside the netplay menu a helper can only be waiting for a peer if
\* async_host still tracks it, so that F1 or the badge can bring it back.
NoOrphanListener ==
  screen # "menu" /\ state = "Idle" => phase \notin {"Connecting", "DelaySetup"}

\* In the menu a start that waits for its listener ends: the listener comes
\* up, the overlay shows the failure, or the player turns to another screen.
StartupResolves ==
  screen = "menu" /\ ~submenu /\ overlay = "AwaitingListener"
    ~> overlay # "AwaitingListener" \/ submenu \/ screen # "menu"

\* A held opponent whose overlay is on the screen is not held for ever.
HeldPeerAccepted ==
  screen = "menu" /\ state = "PeerFoundHeld" /\ ~minimized
    ~> state # "PeerFoundHeld" \/ minimized \/ screen # "menu"

\* README.md: "If a connected opponent drops before you accept, the mod
\* auto-rehosts on the same port so you are listable again without a manual
\* restart".  So a start made while async_host is hosting is not cancelled
\* under it.  On the title screen it always is: the exit poll of every title
\* frame invalidates the running start.
AutoRehostKept == start = "cancelled" => state # "Hosting"

(* A listener never loses its owner, nor a challenge its listener.          *)
HostingSafe == TypeOK /\ SentForOwnListener /\ NoOrphanListener
=============================================================================
