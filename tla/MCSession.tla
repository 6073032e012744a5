------------------------------- MODULE MCSession -------------------------------
(***************************************************************************)
(* The threads and processes around a session: the bridge's start and      *)
(* teardown (SessionStart), the hosting that uses it (Hosting), the        *)
(* helper's launch (HelperBoot), the adoption of a session Revival started *)
(* itself (Adoption) and the guard in the external launcher                *)
(* (LauncherGuard).  A behaviour runs one of the five; the others stay in  *)
(* an initial state.                                                       *)
(***************************************************************************)
EXTENDS SessionStart, LauncherGuard, HelperBoot, Adoption

VARIABLES
  part,
  \* Hosting (hostPhase, hostStart, ...: its phase, start, ...)
  screen, submenu, pc, hostPhase, hostStart, starts, hostPid, hostHelper, obs, prompt, state,
  origin, ended, minimized, listener, cooldown, lastPrompt, peerWasAlive, returnKey,
  cfgRetried, overlay, challengeMode, retryAllowed, retried, debounce, ovWait, task, publish,
  targetIdle, abandoned, backgrounded, attempt, startedFor, startsOf, sent

--------------------------------------------------------------------------------
Hosting == INSTANCE Hosting WITH
  MaxStarts <- 2, MaxAttempts <- 1, MaxSerial <- 1, CooldownTicks <- 1, ExternalCancels <- FALSE,
  phase <- hostPhase, start <- hostStart, statusPid <- hostPid, helper <- hostHelper

hostingVars ==
  <<screen, submenu, pc, hostPhase, hostStart, starts, hostPid, hostHelper, obs, prompt, state,
    origin, ended, minimized, listener, cooldown, lastPrompt, peerWasAlive, returnKey,
    cfgRetried, overlay, challengeMode, retryAllowed, retried, debounce, ovWait, task, publish,
    targetIdle, abandoned, backgrounded, attempt, startedFor, startsOf, sent>>
allVars == <<part, vars, hostingVars, bootVars, adoptVars, guardVars>>

Session(A) ==
  /\ part = "session" /\ A
  /\ UNCHANGED <<part, hostingVars, bootVars, adoptVars, guardVars>>
Host(A) ==
  part = "hosting" /\ A /\ UNCHANGED <<part, vars, bootVars, adoptVars, guardVars>>
Launches(A) ==
  part = "boot" /\ A /\ UNCHANGED <<part, vars, hostingVars, adoptVars, guardVars>>
Adopts(A) ==
  part = "adopt" /\ A /\ UNCHANGED <<part, vars, hostingVars, bootVars, guardVars>>
Guards(A) ==
  part = "guard" /\ A /\ UNCHANGED <<part, vars, hostingVars, bootVars, adoptVars>>
PartsInit ==
  /\ part \in {"session", "hosting", "boot", "adopt", "guard"}
  /\ Init /\ Hosting!Init /\ BootInit /\ AdoptInit /\ GuardInit
  /\ part # "boot" => ~wine
  /\ part # "adopt" => parent.kind = "none"
PartsNext ==
  \/ Session(Next) \/ Host(Hosting!Next) \/ Launches(BootNext) \/ Adopts(AdoptNext) \/ Guards(GuardNext)

(* The fairness of the five, each over its own variables. *)
PartsSpec ==
  /\ PartsInit /\ [][PartsNext]_allVars
  /\ \A r \in Requests : WF_vars(part = "session" /\ Worker(r))
  /\ WF_vars(part = "session" /\ ShutdownJoin)
  /\ WF_vars(part = "session" /\ ShutdownFinish)
  /\ WF_hostingVars(part = "hosting" /\ Hosting!GameThread)
  /\ WF_hostingVars(part = "hosting" /\ Hosting!StartWorker)
  /\ WF_hostingVars(part = "hosting" /\ Hosting!DiscoveryThread)
  /\ WF_hostingVars(part = "hosting" /\ Hosting!ListenerWait)
  /\ WF_hostingVars(part = "hosting" /\ Hosting!OverlayWait)
  /\ SF_hostingVars(part = "hosting" /\ Hosting!ObserveSettled)
  /\ WF_bootVars(part = "boot" /\ StartWorker)
  /\ WF_bootVars(part = "boot" /\ InjectedInit)
  /\ WF_bootVars(part = "boot" /\ MainThread)
  /\ WF_bootVars(part = "boot" /\ TickTakesInit)
  /\ WF_adoptVars(part = "adopt" /\ InitThread)
  /\ WF_adoptVars(part = "adopt" /\ GameThread)
  /\ WF_guardVars(part = "guard" /\ game # "down" /\ Game)
  /\ WF_guardVars(part = "guard" /\ game # "down" /\ Control)

--------------------------------------------------------------------------------
(* What was begun ends: a start gives up its ownership (SessionStart,        *)
(* StartRetires), a hosting start gets its listener or shows its failure     *)
(* (Hosting, StartupResolves), a launch is armed or given up (HelperBoot,    *)
(* StartEnds), a parked frame thread is released (Adoption,                  *)
(* ParkedIsReleased), a cleanup of the guard waits for nobody                *)
(* (LauncherGuard, CleanupEnds).                                             *)
BegunEnds ==
  (\/ part = "session" /\ IsRunning
   \/ part = "hosting" /\ screen = "menu" /\ ~submenu /\ overlay = "AwaitingListener"
   \/ part = "boot" /\ session.pc = "start"
   \/ part = "adopt" /\ frameThread = "parked"
   \/ part = "guard" /\ ctl.pc = "cleanup")
  ~> (\/ part = "session" /\ ~IsRunning
      \/ part = "hosting" /\ (overlay # "AwaitingListener" \/ submenu \/ screen # "menu")
      \/ part = "boot" /\ session.pc \in {"armed", "over"}
      \/ part = "adopt" /\ frameThread # "parked"
      \/ part = "guard" /\ (ctl.pc = "idle" \/ game = "down"))

(* What is owed comes: a shutdown ends (SessionStart, ShutdownCompletes), a  *)
(* held opponent whose overlay is shown is not held for ever (Hosting,       *)
(* HeldPeerAccepted), an armed session gets its handshake (HelperBoot,       *)
(* HandshakeArrives), a failed attachment leads back to the game (Adoption,  *)
(* FailedAttachRecovers), a blocked termination is noticed (LauncherGuard,   *)
(* BlockIsNoticed).                                                          *)
OwedComes ==
  (\/ part = "session" /\ shutPc = "join"
   \/ part = "hosting" /\ screen = "menu" /\ state = "PeerFoundHeld" /\ ~minimized
   \/ part = "boot" /\ session.pc = "armed"
   \/ part = "adopt" /\ mod.intercepted /\ mod.tick
   \/ part = "guard" /\ ctl.installed /\ marker.serial > child.consumed /\ child.enabled)
  ~> (\/ part = "session" /\ shutPc = "none"
      \/ part = "hosting" /\ (state # "PeerFoundHeld" \/ minimized \/ screen # "menu")
      \/ part = "boot" /\ (session.applied # 0 \/ ~Alive \/ main.gaveUp \/ session.pc # "armed")
      \/ part = "adopt" /\ (~mod.intercepted \/ mod.cleanup = "Quarantined")
      \/ part = "guard" /\ (rd["game"].at = "recover" \/ ~child.enabled \/ game # "up"))

(* Both: nothing that was begun, or is owed, is waited for in vain.          *)
SessionLive == BegunEnds /\ OwedComes
================================================================================
