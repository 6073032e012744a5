----------------------------- MODULE ExitRecovery -----------------------------
(***************************************************************************)
(* How a netplay session ends inside the game.                             *)
(*                                                                         *)
(* A session can end on nearly every screen and for many reasons: the peer *)
(* quits (the Quit ring), the helper prints an error or dies, a spectator  *)
(* presses Esc, Revival calls ExitProcess, the match is over, the user     *)
(* cancels.  Two mechanisms must not both act.  The old one latches an     *)
(* "exit interception" that the title screen consumes.  The shared one     *)
(* (gameplay_exit_recovery) tears down at once and asks frontend_return to *)
(* bring the game back to the title, where the netplay menu is entered.    *)
(*                                                                         *)
(* Everything here runs on the game's thread: the per-frame hook runs the  *)
(* native tick first (pc "tick") and the mod's control path after it (pc   *)
(* "post", or "skip" when the tick was not run).  Screen updates run       *)
(* inside the tick or, from the EXE's loop, between two frames.  Signals   *)
(* arrive at any time.  Wall-clock limits are a choice (`late`).           *)
(*                                                                         *)
(* Screens 4 and 6..8, the tournament role and the external launcher are   *)
(* not part of this module.                                                *)
(***************************************************************************)
EXTENDS Integers, FiniteSets

CONSTANTS
  WatchdogGrace,  \* kWatchdogGraceFrames
  ReturnKey       \* whether the user hosts in the background and uses F1

ASSUME GraceAssumption == WatchdogGrace \in Nat

Screens == {"title", "charsel", "loading", "battle", "result"}
Gameplay == {"battle", "result"}              \* IsGameplayExitRecoveryScreen
Roles == {"local", "online", "spectate"}

VARIABLES
  pc,       \* where the game thread is in a frame
  screen,   \* the game's current screen index
  menu,     \* g_netplayMenuState.active
  s,        \* the session: role, phase, exit patches, init, helper, torn down,
            \* g_returnToNetplayAfterMatch, g_menuEntryMode
  sig,      \* what asks for an exit: Quit ring, console error, spectator Esc,
            \* exit interception, tick recovery, deferred cancel, scheduled
            \* quit, watchdog count
  rec,      \* g_recoveryState
  prog,     \* g_menuEntryProgress, as the set of its bits
  ret,      \* frontend_return: ownership, state, owner, native start screen,
            \* native battle cleanup, loading unblock done
  hooks,    \* the loading, battle and result update hooks are installed
  async,    \* async_host tracks the session (minimised hosting)
  ghost     \* for the properties: what happened that must not, whether a
            \* return of an earlier phase is still remembered, and whether a
            \* failed spectator start freed the session inside the tick

vars == <<pc, screen, menu, s, sig, rec, prog, ret, hooks, async, ghost>>

Inside == pc = "tick"                                   \* g_insideFrameTick

Sessions ==
  [role : Roles, phase : {"Idle", "Connecting", "Connected", "SessionEnded", "Failed"},
   patches : BOOLEAN, init : BOOLEAN, helper : {"none", "alive", "dead", "signalled"},
   torn : BOOLEAN, after : BOOLEAN, mode : Roles]
Signals ==
  [ring : BOOLEAN, err : BOOLEAN, esc : BOOLEAN, icept : Roles \cup {"no"}, tick : BOOLEAN,
   defer : Screens \cup {"no"}, sched : BOOLEAN, dog : 0..WatchdogGrace]
Returns ==
  [own : {"Inactive", "Active", "ContinuationPending", "ContinuationConsumed"},
   st : {"Idle", "Requested", "LoadingWait", "WaitingForLoadingToResolve",
         "WaitingForNativeExit", "ForceTitleFallback", "WaitForSafePoint",
         "NetplayMenuContinuationPending", "Complete"},
   owner : {"disconnect", "async"}, nstart : Screens \cup {"none"},
   clean : {"awaiting", "failed", "reached"}, unblocked : BOOLEAN]
Ghosts == [bad : SUBSET {"tick", "late", "deferred"}, stale : BOOLEAN, freed : BOOLEAN]

TypeOK ==
  /\ pc \in {"idle", "tick", "post", "skip"}
  /\ screen \in Screens /\ menu \in BOOLEAN
  /\ s \in Sessions /\ sig \in Signals
  /\ rec \in {"Idle", "MenuPending", "Completed"}
  /\ prog \in SUBSET {"Started", "Consumed"}
  /\ ret \in Returns
  /\ hooks \in BOOLEAN /\ async \in BOOLEAN
  /\ ghost \in Ghosts

(***************************************************************************)
(* frontend_return, as functions of its record.                            *)
(***************************************************************************)
Owned(r) == r.own \in {"Active", "ContinuationPending"}          \* HasPendingReturn
Consumed(r) == r.own = "ContinuationConsumed"

(* What is left of a return once it is over is never looked at again. *)
NoReturn == [own |-> "Inactive", st |-> "Idle", owner |-> "disconnect", nstart |-> "none",
             clean |-> "awaiting", unblocked |-> FALSE]

HandleTitleReached(r) ==
  [r EXCEPT !.own = "ContinuationPending", !.st = "NetplayMenuContinuationPending"]

(* The forced return is held back once the native battle cleanup has run. *)
RequestForceTitleFallback(r) ==
  IF r.nstart = "battle" /\ r.st = "WaitingForNativeExit" /\ r.clean = "reached"
  THEN r
  ELSE [r EXCEPT !.st = "ForceTitleFallback"]

(* How the request for a native exit goes: whole, with the battle's graphics *)
(* patches not restored, or refused (no context, or the write fails).       *)
Asks == {"whole", "unrestored", "refused"}

RequestNativeExit(r, scr, asked) ==
  IF asked = "refused" THEN RequestForceTitleFallback(r)
  ELSE [r EXCEPT !.st = "WaitingForNativeExit", !.nstart = scr,
                 !.clean = IF scr # "battle" THEN @
                           ELSE IF asked = "whole" THEN "awaiting" ELSE "failed"]

EnterLoadingWait(r) ==
  IF r.st \in {"LoadingWait", "WaitingForLoadingToResolve"} THEN r
  ELSE [r EXCEPT !.st = "LoadingWait", !.unblocked = FALSE]

(* kLoadingCriticalMs, then kLoadingForceFallbackMs. *)
WaitInLoading(r, late) ==
  LET w == EnterLoadingWait(r)
  IN IF w.st # r.st \/ ~late THEN w
     ELSE IF ~w.unblocked /\ w.owner = "disconnect"
          THEN [w EXCEPT !.st = "WaitingForLoadingToResolve", !.unblocked = TRUE]
          ELSE RequestForceTitleFallback(w)

ClassifyAndAdvance(r, scr, late, asked) ==
  CASE scr = "title"   -> HandleTitleReached(r)
    [] scr = "loading" -> WaitInLoading(r, late)
    [] OTHER           -> RequestNativeExit(r, scr, asked)

ForcesTitle(r, inside, late) ==             \* ForceGameModeToTitle is called and succeeds
  /\ Owned(r) /\ late /\ ~inside
  /\ r.st \in {"ForceTitleFallback", "WaitForSafePoint"}

TryForceTitleFallback(r, inside, late) ==
  IF inside THEN [r EXCEPT !.st = "WaitForSafePoint"]
  ELSE IF late THEN HandleTitleReached(r)
  ELSE [r EXCEPT !.st = "ForceTitleFallback"]

HandleNativeWait(r, scr, late, asked) ==
  IF scr # r.nstart
  THEN ClassifyAndAdvance([r EXCEPT !.st = "Requested"], scr, late, asked)
  ELSE IF late THEN RequestForceTitleFallback(r) ELSE r

TickFrontendReturn(r, scr, inside, late, asked) ==
  IF ~Owned(r) THEN r
  ELSE CASE r.st = "Requested" -> ClassifyAndAdvance(r, scr, late, asked)
         [] r.st \in {"LoadingWait", "WaitingForLoadingToResolve"} ->
              IF scr = "loading" THEN WaitInLoading(r, late)
              ELSE ClassifyAndAdvance([r EXCEPT !.st = "Requested"], scr, late, asked)
         [] r.st = "WaitingForNativeExit" -> HandleNativeWait(r, scr, late, asked)
         [] r.st = "WaitForSafePoint" /\ inside -> r
         [] r.st \in {"ForceTitleFallback", "WaitForSafePoint"} ->
              TryForceTitleFallback(r, inside, late)
         [] OTHER -> r

ScreenAfterTick(r, scr, inside, late) ==
  IF ForcesTitle(r, inside, late) THEN "title" ELSE scr

(* A return already owned is joined, not restarted. *)
BeginReturnToFrontend(r, owner, scr, inside, late, asked) ==
  IF Owned(r) THEN r
  ELSE TickFrontendReturn(
         [NoReturn EXCEPT !.own = "Active", !.st = "Requested", !.owner = owner],
         scr, inside, late, asked)

ObserveUpdate(r) ==
  IF Owned(r) /\ r.nstart = "battle" /\ r.st = "WaitingForNativeExit"
  THEN [r EXCEPT !.clean = IF @ = "failed" THEN @ ELSE "reached"]
  ELSE r

(* What an update hook does with the screen `res` its update asks for: the *)
(* new record, and the screen passed on.                                   *)
HandleNativeUpdateReturn(r, scr, res) ==
  CASE ~Owned(r) -> [r |-> r, res |-> res]
    [] Owned(r) /\ scr = "loading" /\ res # "loading"
       /\ r.st \in {"LoadingWait", "WaitingForLoadingToResolve"} ->
         [r |-> [r EXCEPT !.st = "Requested"], res |-> res]
    [] Owned(r) /\ r.st = "WaitingForNativeExit" /\ r.nstart = scr /\ res # scr
       /\ res \in {"title", "charsel"} /\ scr \in Gameplay ->
         [r |-> HandleTitleReached(r), res |-> "title"]
    [] Owned(r) /\ r.st = "WaitingForNativeExit" /\ r.nstart = scr /\ res # scr
       /\ ~(res \in {"title", "charsel"} /\ scr \in Gameplay) ->
         [r |-> [r EXCEPT !.st = "Requested"], res |-> res]
    [] OTHER -> [r |-> r, res |-> res]

(***************************************************************************)
(* Teardown.                                                               *)
(***************************************************************************)
ShouldSuppressOnlyWhilePending == rec = "MenuPending" \/ Owned(ret)
ShouldSuppressLegacyGameplayExitCleanup ==
  rec \in {"MenuPending", "Completed"} \/ prog # {} \/ Owned(ret) \/ Consumed(ret)

EntryOver(r, p, rt) == p # {} \/ r = "Completed" \/ Consumed(rt)

(* ResetGameModeValidation. *)
ResetGameModeValidation(g) ==
  [g EXCEPT !.sched = FALSE, !.defer = "no", !.tick = FALSE, !.dog = 0]

(* ForceLocalPlayInit destroys the session object and builds a local one.  *)
(* The code itself reports a call after the menu entry as a violation.     *)
NoteInit(p) ==
  [ghost EXCEPT !.bad = @ \cup (IF Inside THEN {"tick"} ELSE {})
                          \cup (IF EntryOver(rec, p, ret) THEN {"late"} ELSE {})]

(* SuppressDeferredCancelCleanupAfterGameplayRecovery reports a cleanup    *)
(* that was still pending.                                                 *)
NoteSuppressed(gh, g) ==
  [gh EXCEPT !.bad = @ \cup (IF g.defer # "no" THEN {"deferred"} ELSE {})]

(* What RunGameplayExitContinuation leaves of the session. *)
AfterContinuationHelperKept ==
  [s EXCEPT !.role = "local", !.patches = FALSE, !.init = FALSE, !.mode = s.role]
AfterContinuation ==
  [s EXCEPT !.role = "local", !.helper = "none", !.patches = FALSE,
            !.init = FALSE, !.mode = s.role]

(* BeginGameplayExitRecovery and RunGameplayExitContinuation, with the     *)
(* signals as they are when it is called.  Never called inside the tick.   *)
BeginGameplayExitRecovery(g, late, asked) ==
  IF rec = "MenuPending"
  THEN /\ sig' = g
       /\ UNCHANGED <<screen, menu, s, rec, prog, ret, hooks, async, ghost>>
  ELSE /\ prog' = {} /\ rec' = "MenuPending"
       /\ ghost' = NoteInit({})
       /\ sig' = [ResetGameModeValidation(g) EXCEPT !.icept = "no", !.err = FALSE]
       /\ s' = AfterContinuation
       /\ ret' = BeginReturnToFrontend(ret, "disconnect", screen, FALSE, late, asked)
       /\ hooks' = TRUE
       /\ UNCHANGED <<screen, menu, async>>

(* The other exits stand back once the recovery owns the way out. *)
RecoverUnlessSuppressed(g, asked) ==
  IF ShouldSuppressLegacyGameplayExitCleanup
  THEN /\ sig' = g
       /\ UNCHANGED <<screen, menu, s, rec, prog, ret, hooks, async, ghost>>
  ELSE BeginGameplayExitRecovery(g, FALSE, asked)

(* ForceLocalPlayInit waits for the tick to end (RequestDeferredCancelCleanup). *)
DefersNever == FALSE
Defers == Inside

(* CancelSession (CancelSessionUnlocked), for a phase it leaves behind.  The *)
(* session object is left alone when it is one of local play already, which  *)
(* 1.02j tells for a latched exit (recovered: alreadyRecoveredLocal102j).    *)
CancelUnlessRecovered(phase, recovered) ==
  LET suppress == ShouldSuppressLegacyGameplayExitCleanup
      ran == ~suppress /\ ~s.torn /\ ~recovered
      g0 == IF suppress THEN [sig EXCEPT !.defer = "no"] ELSE sig
      g1 == IF ran /\ Defers THEN [g0 EXCEPT !.defer = screen]
            ELSE IF ran THEN ResetGameModeValidation(g0) ELSE g0
  IN [s |-> [s EXCEPT !.phase = phase, !.init = FALSE, !.torn = @ \/ ran,
                      !.role = IF suppress THEN @ ELSE "local",
                      !.helper = IF suppress THEN @ ELSE "none",
                      !.patches = IF suppress THEN @ ELSE FALSE],
      g |-> [g1 EXCEPT !.err = FALSE],
      ghost |-> LET gh == IF ran /\ ~Defers THEN NoteInit(prog) ELSE ghost
                IN IF suppress THEN NoteSuppressed(gh, sig) ELSE gh]
CancelSession(phase) == CancelUnlessRecovered(phase, FALSE)

(***************************************************************************)
(* The user, and what arrives from outside.                                *)
(***************************************************************************)
ResetConsumedContinuationLatchSkipped(r) == r
ResetConsumedContinuationLatch(r) ==
  IF Consumed(r) THEN [r EXCEPT !.own = "Inactive"] ELSE r

(* BeginManagedSessionBoundary, then the start, which is refused while a   *)
(* helper of an earlier session runs.                                      *)
StartSession ==
  /\ menu /\ pc = "idle" /\ s.phase \in {"Idle", "SessionEnded", "Failed"}
  /\ prog' = {}
  /\ rec' = IF rec = "MenuPending" THEN rec ELSE "Idle"
  /\ ret' = ResetConsumedContinuationLatch(ret)
  /\ sig' = [ResetGameModeValidation(sig) EXCEPT !.icept = "no", !.err = FALSE,
                                                 !.ring = FALSE]
  /\ s' = IF s.helper = "alive"
          THEN [s EXCEPT !.phase = "Failed", !.torn = FALSE]
          ELSE [s EXCEPT !.phase = "Connecting", !.torn = FALSE, !.helper = "alive"]
  /\ ghost' = [ghost EXCEPT !.bad = {}, !.freed = FALSE, !.stale = (rec = "MenuPending")]
  /\ UNCHANGED <<pc, screen, menu, hooks, async>>

(* The init handshake: the session object is replaced and the exit guards  *)
(* are applied, by the frame loops or, deferred, after the tick.           *)
LocalInit(r) ==
  /\ menu /\ ~Inside /\ s.phase = "Connecting" /\ ~s.init /\ s.helper = "alive"
  /\ s' = [s EXCEPT !.role = r, !.init = TRUE, !.patches = TRUE]
  /\ UNCHANGED <<pc, screen, menu, sig, rec, prog, ret, hooks, async, ghost>>

(* Tick while connecting: a helper lost before init, or an error of one that *)
(* lives, fails the session; ReinitLocalPlay only resets the role.           *)
TickFails ==
  /\ menu /\ s.phase = "Connecting"
  /\ IF s.helper = "alive" THEN sig.err ELSE ~s.init
  /\ s' = [s EXCEPT !.phase = "Failed", !.role = "local"]
  /\ UNCHANGED <<pc, screen, menu, sig, rec, prog, ret, hooks, async, ghost>>

(* A spectator's helper is lost after init, or (1.02j) the spectator's post- *)
(* init fails: Tick calls ForceLocalPlayInit itself, wherever it runs.       *)
TickFailsSpectator ==
  /\ menu /\ s.phase = "Connecting" /\ s.init /\ s.role = "spectate"
  /\ s' = [s EXCEPT !.phase = "Failed", !.role = "local", !.init = FALSE]
  /\ ghost' = [ghost EXCEPT !.freed = @ \/ Inside,
                            !.bad = IF EntryOver(rec, prog, ret) THEN @ \cup {"late"} ELSE @]
  /\ UNCHANGED <<pc, screen, menu, sig, rec, prog, ret, hooks, async>>

(* The update hooks come off for the simulation unless a return needs them. *)
SuspendUpdateHooks == ~Owned(ret) /\ hooks' = FALSE
InstallUpdateHooks == hooks' = TRUE

(* The menu hands over to the online simulation, which may be ready although *)
(* its helper has died meanwhile; the update hooks come off.                 *)
HandOff ==
  /\ menu /\ pc = "idle" /\ s.phase = "Connecting" /\ s.init /\ s.role # "local"
  /\ IF s.helper = "alive" THEN ~sig.err ELSE s.role = "online"
  /\ SuspendUpdateHooks
  /\ s' = [s EXCEPT !.phase = "Connected", !.after = TRUE]
  /\ menu' = FALSE /\ async' = FALSE /\ screen' = "charsel"
  /\ UNCHANGED <<pc, sig, rec, prog, ret, ghost>>

UserCancel ==
  /\ menu /\ pc # "post" /\ pc # "skip" /\ s.phase # "Idle"
  /\ LET c == CancelSession("Idle")
     IN s' = c.s /\ sig' = c.g /\ ghost' = c.ghost
  /\ async' = FALSE
  /\ UNCHANGED <<pc, screen, menu, rec, prog, ret, hooks>>

LeaveMenu ==
  /\ menu /\ pc = "idle" /\ ~async
  /\ LET c == CancelSession("Idle")
     IN s' = c.s /\ sig' = c.g /\ ghost' = c.ghost
  /\ menu' = FALSE
  /\ UNCHANGED <<pc, screen, rec, prog, ret, hooks, async>>

(* Hosting goes to the background; async_host installs the update hooks. *)
Minimise ==
  /\ ReturnKey /\ menu /\ pc = "idle" /\ s.phase = "Connecting"
  /\ menu' = FALSE /\ async' = TRUE /\ InstallUpdateHooks
  /\ UNCHANGED <<pc, screen, s, sig, rec, prog, ret, ghost>>

(* PollReturnKey; presses during and just after loading are ignored. *)
PressReturnKey(late, asked) ==
  /\ async /\ ~menu /\ pc \in {"idle", "tick"} /\ ~Owned(ret) /\ screen # "loading"
  /\ ret' = BeginReturnToFrontend(ret, "async", screen, Inside, late, asked)
  /\ hooks' = TRUE
  /\ UNCHANGED <<pc, screen, menu, s, sig, rec, prog, async, ghost>>

HelperDies ==
  /\ s.helper = "alive" /\ s' = [s EXCEPT !.helper = "dead"]
  /\ UNCHANGED <<pc, screen, menu, sig, rec, prog, ret, hooks, async, ghost>>

(* The wait callback on the helper's process handle. *)
ExitWatch ==
  /\ s.helper = "dead" /\ s' = [s EXCEPT !.helper = "signalled"]
  /\ UNCHANGED <<pc, screen, menu, sig, rec, prog, ret, hooks, async, ghost>>

ConsoleError ==
  /\ s.helper = "alive" /\ ~sig.err /\ sig' = [sig EXCEPT !.err = TRUE]
  /\ UNCHANGED <<pc, screen, menu, s, rec, prog, ret, hooks, async, ghost>>

QuitRing ==
  /\ s.helper = "alive" /\ s.role # "local" /\ ~sig.ring
  /\ sig' = [sig EXCEPT !.ring = TRUE]
  /\ UNCHANGED <<pc, screen, menu, s, rec, prog, ret, hooks, async, ghost>>

SpectatorEsc ==
  /\ s.role = "spectate" /\ s.phase = "Connected" /\ ~sig.esc
  /\ sig' = [sig EXCEPT !.esc = TRUE]
  /\ UNCHANGED <<pc, screen, menu, s, rec, prog, ret, hooks, async, ghost>>

(***************************************************************************)
(* One frame.                                                              *)
(***************************************************************************)
SkipsNativeTick == (s.patches /\ sig.err) \/ sig.icept # "no"

FrameBegin ==
  /\ pc = "idle" /\ pc' = IF SkipsNativeTick THEN "skip" ELSE "tick"
  /\ UNCHANGED <<screen, menu, s, sig, rec, prog, ret, hooks, async, ghost>>

TickReturns ==
  /\ Inside /\ pc' = "post"
  /\ UNCHANGED <<screen, menu, s, sig, rec, prog, ret, hooks, async, ghost>>

(* Revival calls ExitProcess; the hook latches it and jumps out of the tick. *)
ExitProcessInTick ==
  /\ Inside /\ s.patches /\ s.role # "local" /\ pc' = "post"
  /\ sig' = [sig EXCEPT !.tick = TRUE, !.icept = IF @ = "no" THEN s.role ELSE @]
  /\ UNCHANGED <<screen, menu, s, rec, prog, ret, hooks, async, ghost>>

(* ExitProcess inside a title update between two frames. *)
ExitProcessInTitle ==
  /\ pc = "idle" /\ s.patches /\ s.role # "local" /\ screen = "title" /\ ~menu
  /\ sig' = [sig EXCEPT !.icept = IF @ = "no" THEN s.role ELSE @]
  /\ UNCHANGED <<pc, screen, menu, s, rec, prog, ret, hooks, async, ghost>>

(* ExitProcess on a screen that the frame dispatch updates: OurFrameDispatch *)
(* recovers at once.                                                       *)
ExitProcessInDispatch(asked) ==
  /\ pc = "idle" /\ s.patches /\ s.role # "local" /\ screen # "title"
  /\ RecoverUnlessSuppressed([sig EXCEPT !.icept = IF @ = "no" THEN s.role ELSE @], asked)
  /\ UNCHANGED pc

NeedsPostWithoutExitSignal ==
  \/ pc = "skip" \/ sig.tick \/ sig.defer # "no" \/ sig.sched \/ sig.icept # "no"
  \/ sig.esc \/ sig.err \/ sig.ring
  \/ ~(s.role # "local" /\ s.init /\ s.patches)
  \/ screen # "battle"
NeedsPostNativeControlPath ==
  \/ pc = "skip" \/ sig.tick \/ sig.defer # "no" \/ sig.sched \/ sig.icept # "no"
  \/ sig.esc \/ sig.err \/ sig.ring \/ s.helper = "signalled"
  \/ ~(s.role # "local" /\ s.init /\ s.patches)
  \/ screen # "battle"

Post == pc \in {"post", "skip"} /\ pc' = "idle" /\ NeedsPostNativeControlPath

PostFastPath ==
  /\ pc = "post" /\ ~NeedsPostNativeControlPath /\ pc' = "idle"
  /\ UNCHANGED <<screen, menu, s, sig, rec, prog, ret, hooks, async, ghost>>

(* The ring is drained before anything else is looked at. *)
PreQuit == s.patches /\ ~sig.sched /\ sig.ring
Drained == IF PreQuit THEN [sig EXCEPT !.ring = FALSE] ELSE sig

(* UpdateGameplayStallTracker keeps the rest of the path back while the    *)
(* shared recovery waits for the title.                                    *)
HeldByRecovery == ~PreQuit /\ screen \in Gameplay /\ rec = "MenuPending"

PostHeld ==
  /\ Post /\ HeldByRecovery
  /\ UNCHANGED <<screen, menu, s, sig, rec, prog, ret, hooks, async, ghost>>

(* An error, a tick that was skipped, or frames that do not advance. *)
StallSeen == sig.err \/ (screen = "battle" /\ (pc = "skip" \/ s.role = "online"))

(* ... and starts it when the match has not moved for too long. *)
PostStalled(asked) ==
  /\ Post /\ ~PreQuit /\ screen \in Gameplay /\ rec = "Idle"
  /\ s.phase = "Connected" /\ s.role # "local" /\ s.init /\ s.patches /\ s.helper # "none"
  /\ StallSeen
  /\ BeginGameplayExitRecovery(sig, FALSE, asked)

PostTickRecovery(asked) ==
  /\ Post /\ ~HeldByRecovery /\ sig.tick
  /\ RecoverUnlessSuppressed([Drained EXCEPT !.tick = FALSE], asked)

(* FinalizeGracefulQuitTeardown. *)
FinalizeQuit(g, asked) == RecoverUnlessSuppressed(g, asked)

PostScheduledQuit(elapsed, asked) ==
  /\ Post /\ ~HeldByRecovery /\ ~sig.tick /\ sig.sched
  /\ IF s.helper = "alive" /\ ~elapsed
     THEN UNCHANGED <<screen, menu, s, sig, rec, prog, ret, hooks, async, ghost>>
     ELSE FinalizeQuit([sig EXCEPT !.sched = FALSE], asked)

(* RecoverFromQuitRingSignal: an online helper is given time to say goodbye. *)
PostQuitRing(asked) ==
  /\ Post /\ ~HeldByRecovery /\ ~sig.tick /\ ~sig.sched /\ PreQuit
  /\ LET g == [Drained EXCEPT !.icept = IF screen \in Gameplay THEN @ ELSE s.role]
     IN IF s.role = "online" /\ s.helper # "none"
        THEN /\ sig' = [g EXCEPT !.sched = TRUE]
             /\ UNCHANGED <<screen, menu, s, rec, prog, ret, hooks, async, ghost>>
        ELSE FinalizeQuit(g, asked)

Quiet == ~HeldByRecovery /\ ~sig.tick /\ ~sig.sched /\ ~PreQuit

PostConsoleError(asked) ==
  /\ Post /\ Quiet /\ s.patches /\ sig.err
  /\ BeginGameplayExitRecovery(sig, FALSE, asked)

PostSpectatorEsc(asked) ==
  /\ Post /\ Quiet /\ ~(s.patches /\ sig.err)
  /\ sig.esc /\ s.role = "spectate" /\ s.patches
  /\ BeginGameplayExitRecovery([sig EXCEPT !.esc = FALSE], FALSE, asked)

(* The helper-death watchdog. *)
HelperLost ==
  /\ s.patches /\ s.role # "local" /\ sig.defer = "no"
  /\ s.helper \in {"dead", "signalled"} /\ sig.icept = "no" /\ screen # "title"

DogCountPastGrace ==
  IF ~HelperLost THEN 0 ELSE IF s.helper = "signalled" THEN WatchdogGrace + 1 ELSE sig.dog
DogCount == IF ~HelperLost THEN 0
            ELSE IF s.helper = "signalled" THEN WatchdogGrace
            ELSE IF sig.dog < WatchdogGrace THEN sig.dog + 1 ELSE sig.dog

NothingSooner ==
  Quiet /\ ~(s.patches /\ sig.err) /\ ~(sig.esc /\ s.role = "spectate" /\ s.patches)

PostWatchdog(asked) ==
  /\ Post /\ NothingSooner /\ HelperLost /\ DogCount = WatchdogGrace
  /\ RecoverUnlessSuppressed([sig EXCEPT !.dog = 0, !.esc = FALSE], asked)

(* The end of the path: a cancel deferred out of the tick, then the return. *)
PostRest(late, asked) ==
  /\ Post /\ NothingSooner /\ ~(HelperLost /\ DogCount = WatchdogGrace)
  /\ LET g == [sig EXCEPT !.dog = DogCount, !.esc = FALSE]
     IN IF sig.defer # "no" /\ ShouldSuppressLegacyGameplayExitCleanup
        THEN /\ sig' = [g EXCEPT !.defer = "no"]
             /\ UNCHANGED <<screen, menu, s, rec, prog, ret, hooks, async, ghost>>
        ELSE /\ sig' = IF sig.defer # "no" THEN ResetGameModeValidation(g) ELSE g
             /\ s' = IF sig.defer # "no" THEN [s EXCEPT !.role = "local"] ELSE s
             /\ ghost' = IF sig.defer # "no" THEN NoteInit(prog) ELSE ghost
             /\ ret' = TickFrontendReturn(ret, screen, FALSE, late, asked)
             /\ screen' = ScreenAfterTick(ret, screen, FALSE, late)
             /\ UNCHANGED <<menu, rec, prog, hooks, async>>

(***************************************************************************)
(* Screen updates.                                                         *)
(***************************************************************************)
Updating == pc \in {"idle", "tick"}

(* The screens the game moves to by itself, and once exit is requested. *)
NextScreens(scr) ==
  CASE scr = "charsel" -> {"loading", "title"}
    [] scr = "loading" -> {"battle"}
    [] scr = "battle"  -> {"result"}
    [] scr = "result"  -> {"charsel", "title"}
ExitScreens(scr) == IF scr = "charsel" THEN {"title"} ELSE {"charsel", "title"}

Leaving(r, scr) == Owned(r) /\ r.st = "WaitingForNativeExit" /\ r.nstart = scr

(* An update of a screen that returns `res`; the hooks of loading, battle  *)
(* and result run around it.                                               *)
ScreenUpdate(res, late, asked) ==
  /\ Updating /\ screen # "title"
  /\ res \in {screen} \cup
             (IF Leaving(ret, screen) THEN ExitScreens(screen) ELSE NextScreens(screen))
  /\ IF hooks /\ screen # "charsel"
     THEN LET before == CASE screen = "loading" ->
                               TickFrontendReturn(ret, screen, Inside, late, asked)
                          [] screen = "battle" -> ObserveUpdate(ret)
                          [] screen = "result" -> ret
              forced == screen = "loading" /\ ForcesTitle(ret, Inside, late)
              h == HandleNativeUpdateReturn(before, screen, res)
          IN /\ ret' = TickFrontendReturn(h.r, screen, Inside, late, asked)
             /\ screen' = IF forced \/ ForcesTitle(h.r, Inside, late) THEN "title" ELSE h.res
     ELSE ret' = ret /\ screen' = res
  /\ UNCHANGED <<pc, menu, s, sig, rec, prog, hooks, async, ghost>>

(* EnterNetplayMenu(skipFadeOut): an entry the recovery owns is marked. *)
EntryMarks(owned, p, g, gh) ==
  IF owned THEN [p |-> p \cup {"Started"}, g |-> [g EXCEPT !.defer = "no"],
                 gh |-> NoteSuppressed(gh, g)]
  ELSE [p |-> p, g |-> g, gh |-> gh]

OnTitle == Updating /\ screen = "title" /\ ~menu
TitleReturn(late, asked) == TickFrontendReturn(ret, screen, Inside, late, asked)

EndPhase == IF s.mode = "local" THEN "Idle" ELSE "SessionEnded"  \* CompleteGameplayExitRecovery

(* CompleteFrontendReturnMenuEntry, for the recovery's own return only. *)
CompletesRecovery(r) == r.owner = "disconnect" /\ rec = "MenuPending"

(* HandleFrontendReturnTitleContinuation. *)
TitleContinuation(late, asked) ==
  LET r == TitleReturn(late, asked)
      mine == CompletesRecovery(r)
      p == IF mine THEN prog \cup {"Consumed"} ELSE prog
      gh0 == IF mine THEN NoteSuppressed(ghost, sig) ELSE ghost
      g0 == IF mine THEN [sig EXCEPT !.defer = "no"] ELSE sig
      m == EntryMarks(TRUE, p, g0, gh0)
  IN /\ OnTitle /\ r.own = "ContinuationPending"
     /\ ret' = [NoReturn EXCEPT !.own = "ContinuationConsumed", !.st = "Complete"]
     /\ rec' = IF mine THEN "Completed" ELSE rec
     /\ s' = [s EXCEPT !.after = FALSE, !.phase = IF mine THEN EndPhase ELSE @,
                       !.mode = IF mine THEN "local" ELSE @]
     /\ prog' = m.p /\ sig' = m.g
     /\ ghost' = [m.gh EXCEPT !.stale = @ \/ r.owner = "async"]
     /\ menu' = TRUE
     /\ UNCHANGED <<pc, screen, hooks, async>>

(* ConsumePendingGameplayExitMenuEntry. *)
TitlePendingEntry ==
  /\ OnTitle /\ ~Owned(ret) /\ rec = "MenuPending"
  /\ LET m == EntryMarks(TRUE, prog \cup {"Consumed"}, [sig EXCEPT !.defer = "no"],
                         NoteSuppressed(ghost, sig))
     IN prog' = m.p /\ sig' = m.g /\ ghost' = m.gh
  /\ rec' = "Completed" /\ menu' = TRUE
  /\ s' = [s EXCEPT !.after = FALSE, !.phase = EndPhase, !.mode = "local"]
  /\ UNCHANGED <<pc, screen, ret, hooks, async>>

TitleFree == OnTitle /\ ~Owned(ret) /\ rec # "MenuPending"

(* ConsumeRevivalExitInterception: cancel, then a defensive local init,    *)
(* neither of which touches a session object that was recovered before.    *)
TitleInterception(recovered) ==
  /\ TitleFree /\ sig.icept # "no" /\ ~ShouldSuppressLegacyGameplayExitCleanup
  /\ LET c == CancelUnlessRecovered(IF s.helper = "alive" THEN "SessionEnded" ELSE "Idle",
                                    recovered)
         gh == [c.ghost EXCEPT !.bad = IF recovered THEN @ ELSE @ \cup NoteInit(prog).bad]
         m == EntryMarks(c.g.defer \in Gameplay, prog, [c.g EXCEPT !.icept = "no"], gh)
     IN /\ s' = [c.s EXCEPT !.role = "local", !.after = FALSE]
        /\ menu' = (sig.icept # "local")
        /\ IF sig.icept # "local"
           THEN prog' = m.p /\ sig' = m.g /\ ghost' = m.gh
           ELSE prog' = prog /\ sig' = [c.g EXCEPT !.icept = "no"] /\ ghost' = gh
  /\ UNCHANGED <<pc, screen, rec, ret, hooks, async>>

(* SuppressOldExitInterceptionIfRecoveryOwned drops the latch. *)
AfterSuppress(g) ==
  IF ShouldSuppressLegacyGameplayExitCleanup THEN [g EXCEPT !.icept = "no"] ELSE g

(* The match is over: cancel and go back to the menu. *)
TitleMatchEnded ==
  /\ TitleFree /\ AfterSuppress(sig).icept = "no" /\ s.after
  /\ LET c == CancelSession(IF s.helper = "alive" THEN "SessionEnded" ELSE "Idle")
         m == EntryMarks(ShouldSuppressLegacyGameplayExitCleanup \/ c.g.defer \in Gameplay,
                         prog, AfterSuppress(c.g), c.ghost)
     IN /\ s' = [c.s EXCEPT !.after = FALSE]
        /\ prog' = m.p /\ sig' = m.g /\ ghost' = m.gh
  /\ menu' = TRUE
  /\ UNCHANGED <<pc, screen, rec, ret, hooks, async>>

(* The native title: the user opens the netplay menu or plays offline. *)
TitleNative(choice) ==
  /\ TitleFree /\ AfterSuppress(sig).icept = "no" /\ ~s.after
  /\ choice \in {"menu", "play"}
  /\ menu' = (choice = "menu")
  /\ screen' = IF choice = "play" THEN "charsel" ELSE screen
  /\ sig' = AfterSuppress(sig)
  /\ UNCHANGED <<pc, s, rec, prog, ret, hooks, async, ghost>>

(***************************************************************************)
(* The specification.                                                      *)
(***************************************************************************)
Init ==
  /\ pc = "idle" /\ screen = "title" /\ menu = FALSE
  /\ s = [role |-> "local", phase |-> "Idle", patches |-> FALSE, init |-> FALSE,
          helper |-> "none", torn |-> FALSE, after |-> FALSE, mode |-> "local"]
  /\ sig = [ring |-> FALSE, err |-> FALSE, esc |-> FALSE, icept |-> "no", tick |-> FALSE,
            defer |-> "no", sched |-> FALSE, dog |-> 0]
  /\ rec = "Idle" /\ prog = {}
  /\ ret = NoReturn
  /\ hooks = FALSE /\ async = FALSE
  /\ ghost = [bad |-> {}, stale |-> FALSE, freed |-> FALSE]

User == \/ StartSession \/ UserCancel \/ LeaveMenu \/ Minimise
        \/ HandOff \/ \E r \in {"online", "spectate"} : LocalInit(r)
        \/ \E late \in BOOLEAN, asked \in Asks : PressReturnKey(late, asked)

Outside == HelperDies \/ ConsoleError \/ QuitRing \/ SpectatorEsc

PostSteps ==
  \/ PostFastPath \/ PostHeld
  \/ \E asked \in Asks :
       \/ PostTickRecovery(asked) \/ PostQuitRing(asked)
       \/ PostConsoleError(asked) \/ PostSpectatorEsc(asked)
       \/ PostWatchdog(asked)
  \/ \E late \in BOOLEAN, asked \in Asks :
       PostRest(late, asked) \/ PostScheduledQuit(late, asked)

TitleSteps ==
  \/ TitlePendingEntry \/ TitleMatchEnded
  \/ \E recovered \in BOOLEAN : TitleInterception(recovered)
  \/ \E late \in BOOLEAN, asked \in Asks : TitleContinuation(late, asked)

Next ==
  \/ User \/ Outside \/ ExitWatch \/ TickFails \/ TickFailsSpectator
  \/ FrameBegin \/ TickReturns \/ ExitProcessInTick \/ ExitProcessInTitle
  \/ PostSteps
  \/ \E asked \in Asks : PostStalled(asked) \/ ExitProcessInDispatch(asked)
  \/ TitleSteps \/ \E choice \in {"menu", "play"} : TitleNative(choice)
  \/ \E res \in Screens, late \in BOOLEAN, asked \in Asks : ScreenUpdate(res, late, asked)

(* Frames keep coming; timers run out and a forced return made outside the *)
(* tick succeeds in the end (late); the frame dispatch keeps updating the  *)
(* screens, which last for more than one update and move on in the end.    *)
Fairness ==
  /\ WF_vars(FrameBegin \/ TickReturns \/ PostSteps) /\ WF_vars(ExitWatch)
  /\ SF_vars(TitleSteps)
  /\ SF_vars(\E asked \in Asks :
               PostRest(TRUE, asked) \/ PostScheduledQuit(TRUE, asked))
  /\ SF_vars(\E asked \in Asks, res \in Screens :
               /\ pc = "idle" /\ ScreenUpdate(res, TRUE, asked) /\ screen' # screen
               /\ ForcesTitle(ret, FALSE, TRUE) => screen' = "title")
  /\ SF_vars(\E asked \in Asks :
               pc = "idle" /\ screen \in Gameplay /\ ScreenUpdate(screen, FALSE, asked))

Spec == Init /\ [][Next]_vars /\ Fairness

(***************************************************************************)
(* Properties.  F1 is taken out of those marked with ghost.stale: see the  *)
(* findings.                                                               *)
(***************************************************************************)
(* The session object is never destroyed and rebuilt while the native tick *)
(* that uses it is running: CancelSession defers, and a latched ExitProcess *)
(* reaches the title update only between frames.  A failed spectator start *)
(* is the exception: see the findings.                                     *)
NoInitInsideTick == "tick" \notin ghost.bad

(* The same with the spectator's start: "Inside the tick this would destroy *)
(* the session in use".                                                     *)
SessionOutlivesTick == NoInitInsideTick /\ ~ghost.freed

(* Once the recovery's menu entry has begun, no teardown path runs         *)
(* ForceLocalPlayInit again and no deferred cancel is still waiting: what  *)
(* the code logs as GAMEPLAY_EXIT_INVARIANT_VIOLATION does not happen.     *)
NothingAfterMenuEntry == ghost.stale \/ ghost.bad \cap {"late", "deferred"} = {}

(* While the helper of a session lives and no return is under way, the     *)
(* teardown paths are armed: no latch of an earlier recovery makes them    *)
(* stand back.                                                             *)
TeardownArmed ==
  s.helper = "alive" /\ ~Owned(ret) /\ ~ghost.stale
    => ~ShouldSuppressLegacyGameplayExitCleanup

(* A cancelled or recovered session leaves no helper behind. *)
NoHelperAfterEnd ==
  /\ (s.phase = "Idle" /\ menu /\ ~ghost.stale) => s.helper = "none"
  /\ (rec = "Completed" /\ ~ghost.stale)
       => s.helper = "none" /\ ~s.patches /\ s.role = "local"

(* The same for a session F1 has brought the user back to. *)
CancelEndsHosting == (s.phase = "Idle" /\ menu) => s.helper = "none"

PeerLost ==
  /\ s.phase = "Connected" /\ s.role # "local" /\ ~ghost.stale
  /\ sig.err \/ sig.ring \/ s.helper \in {"dead", "signalled"}

(* A lost peer (error, quit or dead helper), or a return already begun,    *)
(* brings the user back to the netplay menu from whatever screen the match *)
(* was on: native exit, loading wait, forced return and the title's        *)
(* continuation hand over to each other without losing the return.         *)
LossReachesMenu == PeerLost \/ Owned(ret) ~> menu

(* However a session ends, it is torn down once, outside the tick,          *)
(* completely.                                                              *)
ExitSafe ==
  /\ TypeOK /\ NoInitInsideTick /\ NothingAfterMenuEntry /\ TeardownArmed
  /\ NoHelperAfterEnd
===============================================================================
