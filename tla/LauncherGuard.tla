----------------------------- MODULE LauncherGuard -----------------------------
(***************************************************************************)
(* The guard over a game that Revival's own launcher started.  The game     *)
(* publishes a marker in shared memory, injects this DLL into the launcher  *)
(* and waits for a thread there to redirect the launcher's TerminateProcess.*)
(* From then on the termination the launcher's cleanup asks for is blocked  *)
(* and counted in the marker; the game's frame thread consumes the count    *)
(* and recovers to the title instead of dying.                              *)
(*                                                                          *)
(* Two threads of the game use the marker: "game", the frame thread, and    *)
(* "ctl", whichever thread holds the takeover's mutex.  Readers count       *)
(* themselves before they load the pointer; the cleanup never waits for     *)
(* them.  The launcher's identity checks (PE fields, digests, import table) *)
(* are one outcome, pass or fail.  A game installs at most one guard: its   *)
(* caller resolves the launcher once per process.                           *)
(***************************************************************************)
EXTENDS Integers

CONSTANTS
  MaxBlocked,    \* bound: terminations the launcher's cleanup asks for
  MaxControl     \* bound: operations of the control thread after the installation

ASSUME GuardBounds == MaxBlocked \in Nat /\ MaxControl \in Nat

VARIABLES
  child,         \* the game's globals: role, live pointer, delivery, consumed serial
  view,          \* the game's view of the marker: absent, mapped or unmapped
  marker,        \* the marker: activation state, blocked serial, ready event
  readers,       \* g_childMarkerReaders
  deferred,      \* g_deferredChildCleanupState, "None" or "Ready"
  rd,            \* what each of the game's threads does with the marker
  ctl,           \* the control thread: place, result of the installation, budget
  par,           \* the launcher: life, its guard thread, its redirected import
  game           \* the game: "up", "detaching" (other threads are dead), "down"

guardVars == <<child, view, marker, readers, deferred, rd, ctl, par, game>>

Threads == {"game", "ctl"}

--------------------------------------------------------------------------------
(* Reading the marker.  A thread at "use" holds the pointer.                *)

Resting == [at |-> "idle", op |-> "none", pub |-> 0, con |-> 0]
NeedsDelivery(op) == op \in {"HasSignal", "Consume"}

Free(t) ==
  /\ rd[t].at = "idle"
  /\ t = "game" => game = "up"

Count(t, op) ==
  /\ rd' = [rd EXCEPT ![t] = [Resting EXCEPT !.at = "load", !.op = op]]
  /\ readers' = readers + 1

(* AcquireChildMarker after it has counted: role, delivery, pointer; then    *)
(* delivery once more, which is when a reader is turned away.                *)
LoadMarker(t) ==
  /\ rd[t].at = "load"
  /\ t = "game" => game = "up"
  /\ IF child.role = "Child" /\ child.live /\ (NeedsDelivery(rd[t].op) => child.enabled)
     THEN rd' = [rd EXCEPT ![t].at = "use"] /\ UNCHANGED readers
     ELSE rd' = [rd EXCEPT ![t].at = "refused"] /\ readers' = readers - 1
  /\ UNCHANGED <<child, view, marker, deferred, ctl, par, game>>

Release(t, at) ==
  /\ readers' = readers - 1
  /\ rd' = [rd EXCEPT ![t].at = at]

(* The frame thread, each tick: HasExternalLauncherTerminateBlockedSignal     *)
(* decides whether the native tick is skipped, then the signal is consumed.   *)
GameLooks ==
  /\ Free("game")
  /\ Count("game", IF rd["game"].op = "HasSignal" THEN "Consume" ELSE "HasSignal")
  /\ UNCHANGED <<child, view, marker, deferred, ctl, par, game>>

(* Mutant: looking at the signal uses it up. *)
SeeAndStore ==
  /\ rd["game"].at = "use" /\ rd["game"].op = "HasSignal" /\ game = "up"
  /\ Release("game", "idle")
  /\ child' = [child EXCEPT !.consumed = marker.serial]
  /\ UNCHANGED <<view, marker, deferred, ctl, par, game>>
SeeSignal ==
  /\ rd["game"].at = "use" /\ rd["game"].op = "HasSignal" /\ game = "up"
  /\ Release("game", "idle")
  /\ UNCHANGED <<child, view, marker, deferred, ctl, par, game>>

Refused ==
  /\ rd["game"].at = "refused" /\ game = "up"
  /\ rd' = [rd EXCEPT !["game"].at = "idle"]
  /\ UNCHANGED <<child, view, marker, readers, deferred, ctl, par, game>>

(* ConsumeExternalLauncherTerminateBlockedSignal, one pass of its loop.       *)
ConsumeRead ==
  LET r == rd["game"] IN
  /\ r.at = "use" /\ r.op = "Consume" /\ game = "up"
  /\ IF ~child.enabled \/ marker.serial = child.consumed
     THEN Release("game", "idle")
     ELSE /\ rd' = [rd EXCEPT !["game"] =
                      [r EXCEPT !.at = "swap", !.pub = marker.serial, !.con = child.consumed]]
          /\ UNCHANGED readers
  /\ UNCHANGED <<child, view, marker, deferred, ctl, par, game>>

SwapConsumed(r) ==
  IF child.consumed = r.con
  THEN /\ child' = [child EXCEPT !.consumed = r.pub]
       /\ rd' = [rd EXCEPT !["game"].at = "taken"]
  ELSE /\ rd' = [rd EXCEPT !["game"].at = "use"]
       /\ UNCHANGED child

ConsumeSwap ==
  /\ rd["game"].at = "swap" /\ game = "up"
  /\ IF ~child.enabled
     THEN Release("game", "idle") /\ UNCHANGED child
     ELSE SwapConsumed(rd["game"]) /\ UNCHANGED readers
  /\ UNCHANGED <<view, marker, deferred, ctl, par, game>>

(* Delivery may have been retired in between: then the signal is swallowed.  *)
ConsumeEnd ==
  /\ rd["game"].at = "taken" /\ game = "up"
  /\ IF child.enabled
     THEN Release("game", "recover") /\ UNCHANGED child
     ELSE Release("game", "idle") /\ child' = [child EXCEPT !.consumed = marker.serial]
  /\ UNCHANGED <<view, marker, deferred, ctl, par, game>>

(* RetireExternalLauncherGuardSignalDelivery: by the recovery a consumed      *)
(* signal starts, and by the control thread before it lets go of the parent.  *)
Retire(t) ==
  /\ child' = [child EXCEPT !.enabled = FALSE]
  /\ Count(t, "Retire")

Recover ==
  /\ rd["game"].at = "recover" /\ game = "up"
  /\ Retire("game")
  /\ UNCHANGED <<view, marker, deferred, ctl, par, game>>

RetireStore(t) ==
  /\ rd[t].at = "use" /\ rd[t].op = "Retire"
  /\ t = "game" => game = "up"
  /\ child' = [child EXCEPT !.consumed = marker.serial]
  /\ Release(t, "idle")
  /\ UNCHANGED <<view, marker, deferred, ctl, par, game>>

--------------------------------------------------------------------------------
(* The control thread.                                                       *)

At(pc) == ctl' = [ctl EXCEPT !.pc = pc]
Begin(pc, next) == ctl' = [ctl EXCEPT !.pc = pc, !.left = @ - 1, !.next = next]
(* What the shutdown does after it let go of the parent. *)
Continue == ctl' = [ctl EXCEPT !.pc = ctl.next, !.next = "idle"]

(* The launcher's identity, its image and the one import that fits it, read   *)
(* from this process.                                                         *)
IsExactParentAlive == par.alive
VerifyRemoteParent == IF IsExactParentAlive THEN BOOLEAN ELSE {FALSE}

(* InstallExternalLauncherGuard up to the publication: nothing is deferred,   *)
(* the parent is verified and the named objects are new, or nothing is kept.  *)
(* The role is stored last, so a reader sees all of it or none.               *)
InstallPublish ==
  /\ ctl.pc = "start" /\ game = "up"
  /\ \/ /\ readers = 0 /\ deferred = "None" /\ child.role = "None"
        /\ TRUE \in VerifyRemoteParent
        /\ view' = "mapped"
        /\ marker' = [state |-> "Pending", serial |-> 0, event |-> FALSE]
        /\ child' = [role |-> "Child", live |-> TRUE, enabled |-> TRUE, consumed |-> 0]
        /\ At("inject")
     \/ At("idle") /\ UNCHANGED <<view, marker, child>>
  /\ UNCHANGED <<readers, deferred, rd, par, game>>

(* InjectSelf, the remote activation thread and its wait.  Each can fail; the *)
(* DLL may arrive in the launcher, and activate itself, after that.           *)
InstallInject ==
  /\ ctl.pc = "inject"
  /\ \/ /\ par.alive
        /\ par' = [par EXCEPT !.injected = TRUE]
        /\ \/ par.guard # "none" /\ At("await")
           \/ At("giveup")
     \/ At("giveup") /\ UNCHANGED par
  /\ UNCHANGED <<child, view, marker, readers, deferred, rd, game>>

InjectArrives ==
  /\ ctl.pc = "inject" /\ par.alive /\ ~par.injected
  /\ par' = [par EXCEPT !.injected = TRUE]
  /\ UNCHANGED <<child, view, marker, readers, deferred, rd, ctl, game>>

(* The wait for the launcher's thread: ready, failed, or out of time.         *)
InstallAwait ==
  /\ ctl.pc = "await"
  /\ \/ /\ marker.state = "Active" /\ marker.event
        /\ ctl' = [ctl EXCEPT !.pc = "idle", !.installed = TRUE]
     \/ marker.state \in {"Failed", "Cancelled"} /\ At("cleanup")
     \/ At("giveup")
  /\ UNCHANGED <<child, view, marker, readers, deferred, rd, par, game>>

(* Out of time, or a call failed: a guard that is still pending is cancelled. *)
InstallGiveUp ==
  /\ ctl.pc = "giveup"
  /\ marker' = [marker EXCEPT !.state = IF @ = "Pending" THEN "Cancelled" ELSE @]
  /\ At("cleanup")
  /\ UNCHANGED <<child, view, readers, deferred, rd, par, game>>

(* CleanupExternalLauncherGuard closes admission first ...                     *)
CleanupClose ==
  /\ ctl.pc = "cleanup"
  /\ IF child.role = "Child"
     THEN /\ child' = [child EXCEPT !.role = "Closing", !.enabled = FALSE,
                                    !.live = FALSE, !.consumed = marker.serial]
          /\ At("cancel")
     ELSE At("drain") /\ UNCHANGED child
  /\ UNCHANGED <<view, marker, readers, deferred, rd, par, game>>

(* ... then takes the launcher's guard back, whatever it has become ...        *)
(* Mutant: only a guard that is still pending is taken back. *)
CancelPending ==
  marker' = [marker EXCEPT !.state = IF @ = "Pending" THEN "Cancelled" ELSE @]
CancelMarker ==
  marker' = [marker EXCEPT !.state = IF @ \in {"Pending", "Active"} THEN "Cancelled" ELSE @]

CleanupCancel ==
  /\ ctl.pc = "cancel"
  /\ CancelMarker
  /\ child' = [child EXCEPT !.consumed = 0]
  /\ At("release")
  /\ UNCHANGED <<view, readers, deferred, rd, par, game>>

(* ... and unmaps, or leaves the bundle for later when a reader may hold it.   *)
(* Mutants: unmapped although a reader is counted; a bundle in use forgotten;  *)
(* the cleanup waits for the readers. *)
ReleaseAlways ==
  view' = "unmapped" /\ UNCHANGED deferred
ReleaseOrForget ==
  IF readers = 0 THEN view' = "unmapped" /\ UNCHANGED deferred ELSE UNCHANGED <<view, deferred>>
ReleaseWhenUnused ==
  readers = 0 /\ view' = "unmapped" /\ UNCHANGED deferred
ReleaseOrDefer ==
  IF readers = 0
  THEN view' = "unmapped" /\ UNCHANGED deferred
  ELSE deferred' = "Ready" /\ UNCHANGED view

CleanupRelease ==
  /\ ctl.pc = "release"
  /\ ReleaseOrDefer
  /\ IF deferred' = "Ready" THEN At("drain") ELSE Continue
  /\ child' = [child EXCEPT !.role = "None"]
  /\ UNCHANGED <<marker, readers, rd, par, game>>

(* DrainDeferredChildGuardResources: without a reader, a bundle is closed.      *)
Drain ==
  IF readers = 0 /\ deferred = "Ready"
  THEN view' = "unmapped" /\ deferred' = "None"
  ELSE UNCHANGED <<view, deferred>>

CleanupDrain ==
  /\ ctl.pc = "drain"
  /\ Drain
  /\ Continue
  /\ UNCHANGED <<child, marker, readers, rd, par, game>>

(* ReapExternalLauncherGuardIfParentExited: at the start of a session, when    *)
(* Revival is loaded, and after the parent's handle was closed.                *)
Reap ==
  /\ ctl.pc = "idle" /\ ctl.left > 0 /\ game = "up" /\ Free("ctl")
  /\ Drain
  /\ Count("ctl", "Reap")
  /\ Begin("reap", "idle")
  /\ UNCHANGED <<child, marker, par, game>>

ReapDecide ==
  /\ ctl.pc = "reap"
  /\ \/ /\ rd["ctl"].at = "refused"
        /\ rd' = [rd EXCEPT !["ctl"] = Resting] /\ Continue /\ UNCHANGED readers
     \/ /\ rd["ctl"].at = "use"
        /\ Release("ctl", "idle") /\ IF IsExactParentAlive THEN Continue ELSE At("cleanup")
  /\ UNCHANGED <<child, view, marker, deferred, par, game>>

(* TerminatePeerProcessIfOwned on the guarded launcher, and CloseProcessHandle: *)
(* to end a session, and from ShutdownHost and EmergencyShutdownHost, which     *)
(* then clean up.  At process detach the frame thread was killed where it was.  *)
(* HasActiveExactExternalLauncherParent decides; without it the parent stays.   *)
Terminate(next) ==
  /\ Free("ctl")
  /\ IF ctl.installed THEN Count("ctl", "Exact") /\ Begin("exact", next)
     ELSE Begin(next, "idle") /\ UNCHANGED <<rd, readers>>

EndSession ==
  /\ ctl.pc = "idle" /\ ctl.left > 0 /\ game = "up" /\ ctl.installed
  /\ Terminate("idle")
  /\ UNCHANGED <<child, view, marker, deferred, par, game>>

ShutdownHost ==
  /\ ctl.pc = "idle" /\ ctl.left > 0 /\ game = "up"
  /\ Terminate("cleanup")
  /\ game' \in {"up", "detaching"}
  /\ UNCHANGED <<child, view, marker, deferred, par>>

HasActiveExactParent == IsExactParentAlive /\ marker.state = "Active"
TerminateDecide ==
  /\ ctl.pc = "exact" /\ rd["ctl"].at \in {"use", "refused"}
  /\ LET exact == rd["ctl"].at = "use" /\ HasActiveExactParent IN
     ctl' = IF exact \/ ~par.alive THEN [ctl EXCEPT !.pc = "retire"]
            ELSE [ctl EXCEPT !.pc = "idle", !.next = "idle"]
  /\ IF rd["ctl"].at = "use" THEN Release("ctl", "idle")
     ELSE rd' = [rd EXCEPT !["ctl"] = Resting] /\ UNCHANGED readers
  /\ UNCHANGED <<child, view, marker, deferred, par, game>>

TerminateRetire ==
  /\ ctl.pc = "retire"
  /\ Retire("ctl")
  /\ At("retiring")
  /\ UNCHANGED <<view, marker, deferred, par, game>>

(* TerminateProcess and a wait of two seconds, none at process detach.  A        *)
(* launcher that does not go is retained with its guard; else its handle is      *)
(* closed, which reaps.                                                          *)
TerminateParent ==
  /\ ctl.pc = "retiring" /\ rd["ctl"].at \in {"idle", "refused"}
  /\ \/ /\ par' = [par EXCEPT !.alive = @ /\ game = "detaching"]
        /\ Drain
        /\ Count("ctl", "Reap") /\ At("reap")
     \/ /\ par.alive
        /\ rd' = [rd EXCEPT !["ctl"] = Resting]
        /\ ctl' = [ctl EXCEPT !.pc = "idle", !.next = "idle"]
        /\ UNCHANGED <<par, readers, view, deferred>>
  /\ UNCHANGED <<child, marker, game>>

--------------------------------------------------------------------------------
(* The launcher.                                                             *)

(* The launcher's own import table: found and verified from the inside, then  *)
(* redirected to the stub, and given back only while it still is.             *)
VerifyLocalParentAndLocateThunk == BOOLEAN
PatchLocalTerminateThunk(p) == [p EXCEPT !.patched = TRUE]
RestoreLocalTerminateThunk(p) == [p EXCEPT !.patched = FALSE]

(* TryStartExternalLauncherGuardProcess, from DllMain and from the activation  *)
(* thread: it opens the marker while the game has it and it is pending.        *)
TryStart ==
  /\ par.alive /\ par.injected /\ par.guard = "none"
  /\ view = "mapped" /\ marker.state = "Pending"
  /\ \/ par' = [par EXCEPT !.guard = "thread"] /\ UNCHANGED marker
     \/ /\ par' = [par EXCEPT !.guard = "done"]
        /\ marker' = [marker EXCEPT !.state = "Failed"]
  /\ UNCHANGED <<child, view, readers, deferred, rd, ctl, game>>

(* ExternalLauncherGuardThread: verified and redirected, or failed.            *)
(* Mutant: a redirection that fails counts as one that worked. *)
GuardPatchUnchecked ==
  /\ par.alive /\ par.guard = "thread" /\ marker.state = "Pending"
  /\ par' = [par EXCEPT !.guard = "patched"]
  /\ UNCHANGED <<child, view, marker, readers, deferred, rd, ctl, game>>
GuardPatch ==
  /\ par.alive /\ par.guard = "thread"
  /\ \/ /\ marker.state = "Pending" /\ TRUE \in VerifyLocalParentAndLocateThunk
        /\ par' = [PatchLocalTerminateThunk(par) EXCEPT !.guard = "patched"]
        /\ UNCHANGED marker
     \/ /\ par' = [par EXCEPT !.guard = "done"]
        /\ marker' = [marker EXCEPT !.state = IF @ = "Pending" THEN "Failed" ELSE @]
  /\ UNCHANGED <<child, view, readers, deferred, rd, ctl, game>>

Activate ==
  IF marker.state = "Pending"
  THEN /\ marker' = [marker EXCEPT !.state = "Active"]
       /\ par' = [par EXCEPT !.guard = "active"]
  ELSE /\ par' = [RestoreLocalTerminateThunk(par) EXCEPT !.guard = "done"]
       /\ UNCHANGED marker

GuardActivate ==
  /\ par.alive /\ par.guard = "patched"
  /\ Activate
  /\ UNCHANGED <<child, view, readers, deferred, rd, ctl, game>>

GuardReady ==
  /\ par.alive /\ par.guard = "active"
  /\ marker' = [marker EXCEPT !.event = TRUE]
  /\ par' = [par EXCEPT !.guard = "done"]
  /\ UNCHANGED <<child, view, readers, deferred, rd, ctl, game>>

(* The launcher's cleanup terminates the game: through the stub when its       *)
(* import is redirected, which counts it while the guard is active.            *)
LauncherTerminates ==
  /\ par.alive /\ ~par.asked /\ game # "down"
  /\ IF par.patched /\ marker.state = "Active"
     THEN par' = [par EXCEPT !.asked = TRUE] /\ UNCHANGED game
     ELSE game' = "down" /\ UNCHANGED par
  /\ UNCHANGED <<child, view, marker, readers, deferred, rd, ctl>>

LauncherBlocked ==
  /\ par.alive /\ par.asked /\ marker.serial < MaxBlocked
  /\ marker' = [marker EXCEPT !.serial = @ + 1]
  /\ par' = [par EXCEPT !.asked = FALSE]
  /\ UNCHANGED <<child, view, readers, deferred, rd, ctl, game>>

(* The launcher leaves: its detach gives the import back.                       *)
LauncherExits ==
  /\ par.alive /\ ~par.asked
  /\ par' = [RestoreLocalTerminateThunk(par) EXCEPT !.alive = FALSE]
  /\ marker' = [marker EXCEPT !.state = IF @ = "Pending" /\ par.guard # "none"
                                        THEN "Cancelled" ELSE @]
  /\ UNCHANGED <<child, view, readers, deferred, rd, ctl, game>>

--------------------------------------------------------------------------------
GuardInit ==
  /\ child = [role |-> "None", live |-> FALSE, enabled |-> FALSE, consumed |-> 0]
  /\ view = "absent"
  /\ marker = [state |-> "None", serial |-> 0, event |-> FALSE]
  /\ readers = 0
  /\ deferred = "None"
  /\ rd = [t \in Threads |-> Resting]
  /\ ctl = [pc |-> "start", installed |-> FALSE, left |-> MaxControl, next |-> "idle"]
  /\ par = [alive |-> TRUE, injected |-> FALSE, guard |-> "none", patched |-> FALSE, asked |-> FALSE]
  /\ game = "up"

Game == SeeSignal \/ Refused \/ ConsumeRead \/ ConsumeSwap \/ ConsumeEnd \/ Recover
        \/ GameLooks \/ LoadMarker("game") \/ RetireStore("game")
Control == InstallPublish \/ InstallInject \/ InstallAwait \/ InstallGiveUp \/ CleanupClose
           \/ CleanupCancel \/ CleanupRelease \/ CleanupDrain \/ ReapDecide \/ TerminateDecide
           \/ TerminateRetire \/ TerminateParent \/ LoadMarker("ctl") \/ RetireStore("ctl")
Launcher == TryStart \/ GuardPatch \/ GuardActivate \/ GuardReady \/ LauncherTerminates
            \/ LauncherBlocked \/ LauncherExits \/ InjectArrives

GuardNext ==
  /\ game # "down"
  /\ Game \/ Control \/ Launcher \/ Reap \/ EndSession \/ ShutdownHost

GuardSpec == GuardInit /\ [][GuardNext]_guardVars

(* Frames go on, and a thread that holds the mutex goes on.  The launcher owes  *)
(* nothing.                                                                     *)
GuardFairness ==
  /\ WF_guardVars(game # "down" /\ Game)
  /\ WF_guardVars(game # "down" /\ Control)
GuardLiveSpec == GuardSpec /\ GuardFairness

--------------------------------------------------------------------------------
Children == [role : {"None", "Child", "Closing"}, live : BOOLEAN, enabled : BOOLEAN,
             consumed : 0 .. MaxBlocked]
Markers == [state : {"None", "Pending", "Active", "Cancelled", "Failed"},
            serial : 0 .. MaxBlocked, event : BOOLEAN]
Readers == [at : {"idle", "load", "use", "refused", "swap", "taken", "recover"},
            op : {"none", "HasSignal", "Consume", "Retire", "Reap", "Exact"},
            pub : 0 .. MaxBlocked, con : 0 .. MaxBlocked]
Places == {"start", "inject", "await", "giveup", "cleanup", "cancel", "release", "drain",
           "idle", "reap", "exact", "retire", "retiring"}
Controls == [pc : Places, installed : BOOLEAN, left : 0 .. MaxControl, next : {"idle", "cleanup"}]
Launchers == [alive : BOOLEAN, injected : BOOLEAN, patched : BOOLEAN, asked : BOOLEAN,
              guard : {"none", "thread", "patched", "active", "done"}]

GuardTypeOK ==
  /\ child \in Children
  /\ view \in {"absent", "mapped", "unmapped"}
  /\ marker \in Markers
  /\ readers \in 0 .. 2
  /\ deferred \in {"None", "Ready"}
  /\ rd \in [Threads -> Readers]
  /\ ctl \in Controls
  /\ par \in Launchers
  /\ game \in {"up", "detaching", "down"}

(* No thread of the game holds the marker once it is unmapped: the memory a     *)
(* reader counted itself for outlives the cleanup.                              *)
NoUseAfterUnmap ==
  \A t \in Threads : rd[t].at \in {"use", "swap", "taken"} => view = "mapped"

(* A cleaned-up guard is unmapped, or its bundle is kept where the next         *)
(* occasion finds it.                                                           *)
NothingLost ==
  child.role = "None" /\ ctl.pc = "idle" /\ view = "mapped" => deferred = "Ready"

(* A guard the game counts on is one the launcher's import goes through.        *)
InstalledIsPatched ==
  ctl.installed /\ par.alive /\ marker.state = "Active" => par.patched

(* A guard the game gave up, or took down, never blocks a termination again.    *)
GivenUpIsOff ==
  child.role = "None" => marker.state \notin {"Pending", "Active"}

(* While the frame thread runs, a blocked termination leads to a recovery or    *)
(* to the end of the guard's delivery.                                          *)
BlockIsNoticed ==
  ctl.installed /\ marker.serial > child.consumed /\ child.enabled
    ~> rd["game"].at = "recover" \/ ~child.enabled \/ game # "up"

(* No cleanup waits, not even for a reader that was killed.                     *)
CleanupEnds ==
  ctl.pc = "cleanup" ~> ctl.pc = "idle" \/ game = "down"

(* The guard is neither used after it is unmapped nor lost, and what the    *)
(* game counts on is what the launcher goes through.                        *)
GuardSafe ==
  /\ GuardTypeOK /\ NoUseAfterUnmap /\ NothingLost /\ InstalledIsPatched /\ GivenUpIsOff
================================================================================
