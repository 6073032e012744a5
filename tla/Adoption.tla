-------------------------------- MODULE Adoption --------------------------------
(***************************************************************************)
(* How the mod starts in a game.  A game started by itself gets its own     *)
(* copy of Revival.  A game started by Revival's launcher already has one,  *)
(* perhaps with a session in it: the mod probes what is there, and either   *)
(* leaves it alone (fail closed), attaches passively (practice), or adopts  *)
(* the session (online, spectator, tournament) in stages that end with the  *)
(* game's frame thread parked at a tick boundary until the user interface   *)
(* is in place, and then committed or quarantined.                          *)
(*                                                                          *)
(* `nat` is what Revival keeps in the game; it changes in native ticks only.*)
(* `gen` numbers its session objects and stands for pointer, vtable and     *)
(* helper identity together; `ready` for the witness field, the patch       *)
(* witness of a tournament and the published player number.  A snapshot     *)
(* that was read twice alike is one read: it succeeds only when the state   *)
(* it saw is the state at its end.                                          *)
(***************************************************************************)
EXTENDS Integers

CONSTANTS
  MaxGen,        \* bound: session objects Revival creates
  MaxPolls,      \* bound: rounds of the probe before its ten seconds are over
  MaxFailures    \* bound: steps of the tournament cleanup that fail

ASSUME AdoptionAssumption == MaxGen \in Nat /\ MaxPolls \in Nat /\ MaxFailures \in Nat

VARIABLES
  parent,        \* the process that started the game: kind and life
  nat,           \* Revival in the game
  adopter,       \* the thread that initialises the mod: place, probe, polls
  mod,           \* the mod's globals
  frameThread,   \* the frame thread
  fails          \* failures of cleanup steps so far

adoptVars == <<parent, nat, adopter, mod, frameThread, fails>>

Roles == {"Online", "Spectator", "Practice", "Tournament"}
Adopted == {"AdoptExternalOnline", "AdoptExternalSpectator"}
Managed == Adopted \cup {"AttachExistingPractice", "AttachExistingTournament"}

--------------------------------------------------------------------------------
(* The launch policy.                                                        *)

HasContradictoryEvidence(e) ==
  \/ ~e.parent /\ e.bound
  \/ ~e.dll /\ (e.exact \/ e.boot \/ e.session)
  \/ ~e.session /\ (e.kind # "None" \/ e.bound)
  \/ e.session /\ (e.kind = "None" \/ e.role = "Unknown")

ClassifyObject(e) ==
  CASE e.kind # e.role -> "PassiveFailClosed"
    [] e.kind = "Practice" -> "AttachExistingPractice"
    [] e.kind = "Tournament" -> "AttachExistingTournament"
    [] e.kind = "Online" /\ e.parent /\ e.bound -> "AdoptExternalOnline"
    [] e.kind = "Spectator" /\ e.parent /\ e.bound -> "AdoptExternalSpectator"
    [] OTHER -> "PassiveFailClosed"

(* Mutant: whose process the session belongs to does not matter. *)
ClassifyUnbound(e) ==
  IF e.kind = "Online" /\ e.role = "Online" THEN "AdoptExternalOnline" ELSE "PassiveFailClosed"
ClassifyLaunch(e) ==
  CASE HasContradictoryEvidence(e) -> "PassiveFailClosed"
    [] ~HasContradictoryEvidence(e) /\ ~e.parent /\ ~e.dll -> "DirectGameHost"
    [] OTHER ->
         IF ~e.exact THEN "PassiveFailClosed"
         ELSE IF ~e.boot THEN IF e.parent /\ ~e.session THEN "AwaitExternalSession"
                              ELSE "PassiveFailClosed"
         ELSE IF e.session THEN ClassifyObject(e)
         ELSE IF e.role = "Practice" THEN "AttachExistingPractice" ELSE "PassiveFailClosed"

(* IsCoherentGuardlessBootstrap: the frame bootstrap counts when role and     *)
(* object agree.                                                              *)
Coherent(n) ==
  IF n.role \in {"Practice", "Tournament"} THEN n.kind \in {"None", n.role}
  ELSE n.role # "Unknown" /\ n.kind = n.role

(* What a snapshot is made of: the hook bytes of Revival's own frame bootstrap, *)
(* the session's helper process being the parent, and the session having got    *)
(* as far as its tick: an opponent, a queue, a finished navigation.             *)
IsNativeFrameBootstrapInstalled == nat.boot /\ Coherent(nat)
ValidateParentBinding(withParent) ==
  /\ withParent /\ parent.alive
  /\ nat.kind \in {"Online", "Spectator"} /\ nat.bound
ReadSessionReadiness == nat.ready

(* ReadLauncherSessionSnapshot, with or without a live parent.                *)
Snapshot(withParent) ==
  [disp |-> ClassifyLaunch(
     [parent |-> withParent, dll |-> TRUE, exact |-> TRUE, boot |-> IsNativeFrameBootstrapInstalled,
      session |-> nat.kind # "None", kind |-> nat.kind, role |-> nat.role,
      bound |-> ValidateParentBinding(withParent)]),
   gen |-> nat.gen, kind |-> nat.kind, role |-> nat.role, ready |-> ReadSessionReadiness]

NoSnapshot == [disp |-> "none", gen |-> 0, kind |-> "None", role |-> "Unknown", ready |-> FALSE]

--------------------------------------------------------------------------------
(* The probe.                                                                *)

Blank ==
  [disp |-> "DirectGameHost", allowed |-> TRUE, initFn |-> FALSE, role |-> "Unknown", gen |-> 0,
   guard |-> FALSE, own |-> FALSE, armed |-> FALSE, tick |-> FALSE, frame |-> FALSE, iat |-> FALSE,
   intercepted |-> FALSE, attach |-> "Idle", observed |-> FALSE, cleanup |-> "Inactive",
   inits |-> 0, ui |-> "none"]

Go(pc) == adopter' = [adopter EXCEPT !.pc = pc]
Found(disp, snap, withParent) ==
  /\ adopter' = [adopter EXCEPT !.pc = "found", !.snap = [snap EXCEPT !.disp = disp],
                          !.withParent = withParent]
  /\ mod' = [mod EXCEPT !.disp = disp]

(* ProbePreloadedExistingRevival: Revival is loaded and no parent is alive.   *)
ProbePreloaded(otherwise) ==
  CASE nat.dll = "none" -> Found(otherwise, NoSnapshot, FALSE)
    [] nat.dll \in {"foreign", "unknown"} -> Found("PassiveFailClosed", NoSnapshot, FALSE)
    [] OTHER -> LET s == Snapshot(FALSE) IN
                Found(s.disp, s, FALSE) \/ Found("PassiveFailClosed", NoSnapshot, FALSE)

(* A parent whose identity is not exact is no parent; it only rules out that   *)
(* the game was started by itself.                                            *)
ParentIsExact == parent.kind = "exact"
CaptureExactParent ==
  /\ adopter.pc = "start"
  /\ IF ParentIsExact /\ parent.alive THEN Go("poll") /\ UNCHANGED mod
     ELSE ProbePreloaded(IF parent.kind = "none" THEN "DirectGameHost" ELSE "PassiveFailClosed")
  /\ UNCHANGED <<parent, nat, frameThread, fails>>

(* One round of ProbeRevivalLauncherStartup: it polls until a session is       *)
(* there, whole and ready, or its time is over.                                *)
Poll ==
  LET s == Snapshot(TRUE)
      whole == s.disp \in Managed
      wait == s.disp # "AttachExistingPractice" /\ ~s.ready IN
  /\ adopter.pc = "poll"
  /\ \/ ~parent.alive /\ ProbePreloaded("PassiveFailClosed")
     \/ /\ parent.alive /\ nat.dll = "foreign"
        /\ Found("PassiveFailClosed", NoSnapshot, FALSE)
     \/ /\ parent.alive /\ nat.dll = "exact" /\ whole /\ ~wait
        /\ Found(s.disp, s, TRUE)
     \/ /\ parent.alive /\ nat.dll # "foreign"
        /\ adopter.polls > 0
        /\ adopter' = [adopter EXCEPT !.polls = @ - 1] /\ UNCHANGED mod
     \/ /\ parent.alive /\ adopter.polls = 0
        /\ Found("PassiveFailClosed", NoSnapshot, FALSE)
  /\ UNCHANGED <<parent, nat, frameThread, fails>>

(* RevalidateRevivalLauncherStartup and ...SessionSnapshot: what was admitted  *)
(* is still there, and so is the parent an adoption needs.                     *)
ParentMatchesProfileNow == ParentIsExact /\ parent.alive
SnapshotNow == Snapshot(adopter.withParent)
Revalidated ==
  /\ nat.dll = "exact"
  /\ SnapshotNow = adopter.snap
  /\ adopter.snap.disp \in Adopted => ParentMatchesProfileNow
  /\ adopter.snap.disp # "AttachExistingPractice" => SnapshotNow.ready

--------------------------------------------------------------------------------
(* EnsureLocalRevivalLoaded after the probe.                                 *)

Returns(result) == adopter' = [adopter EXCEPT !.pc = IF result THEN "ui" ELSE "done"]
Tournament == adopter.snap.disp = "AttachExistingTournament"
External == adopter.snap.disp \in Adopted

FailClosed(m) == mod' = [m EXCEPT !.allowed = FALSE, !.disp = "PassiveFailClosed"] /\ Returns(FALSE)

(* Nothing to attach to: the mod loads its own Revival, or stays passive.      *)
LoadOwn ==
  /\ adopter.pc = "found" /\ adopter.snap.disp = "DirectGameHost"
  /\ \/ Returns(FALSE) /\ UNCHANGED <<mod, nat>>
     \/ /\ nat' = [nat EXCEPT !.dll = "exact", !.role = "Practice", !.boot = TRUE]
        /\ \E hooked, iat \in BOOLEAN :
             /\ mod' = [mod EXCEPT !.initFn = TRUE, !.role = "Practice", !.tick = hooked,
                                   !.iat = hooked /\ iat]
             /\ Returns(hooked)
  /\ UNCHANGED <<parent, frameThread, fails>>

StayPassive ==
  /\ adopter.pc = "found" /\ adopter.snap.disp \in {"PassiveFailClosed", "AwaitExternalSession"}
  /\ mod' = [mod EXCEPT !.allowed = FALSE]
  /\ Returns(FALSE)
  /\ UNCHANGED <<parent, nat, frameThread, fails>>

AttachPractice ==
  /\ adopter.pc = "found" /\ adopter.snap.disp = "AttachExistingPractice"
  /\ IF Revalidated
     THEN /\ mod' = [mod EXCEPT !.initFn = TRUE, !.role = adopter.snap.role,
                                !.gen = adopter.snap.gen]
          /\ Returns(TRUE)
     ELSE FailClosed(mod)
  /\ UNCHANGED <<parent, nat, frameThread, fails>>

(* The exact module is no longer there, whatever was to be attached: the        *)
(* disposition stays as it was probed.                                           *)
ModuleChanged ==
  /\ adopter.pc = "found" /\ adopter.snap.disp \in Managed
  /\ mod' = [mod EXCEPT !.allowed = FALSE]
  /\ Returns(FALSE)
  /\ UNCHANGED <<parent, nat, frameThread, fails>>

(* A tournament is revalidated with its patches and staged at once ...          *)
StageTournament ==
  /\ adopter.pc = "found" /\ Tournament
  /\ \/ /\ Revalidated
        /\ mod' = [mod EXCEPT !.initFn = TRUE, !.role = adopter.snap.role, !.gen = adopter.snap.gen,
                              !.intercepted = FALSE, !.attach = "Pending", !.observed = FALSE]
        /\ Go("hooks")
     \/ FailClosed(mod)
  /\ UNCHANGED <<parent, nat, frameThread, fails>>

(* ... an online session first gets the guard in its launcher, then the handle  *)
(* and its exit watch, then the shared block.  Each failure takes back what     *)
(* was taken.                                                                   *)
InstallGuard ==
  /\ adopter.pc = "found" /\ External
  /\ \/ Revalidated /\ mod' = [mod EXCEPT !.guard = TRUE] /\ Go("guarded")
     \/ FailClosed([mod EXCEPT !.guard = FALSE])
  /\ UNCHANGED <<parent, nat, frameThread, fails>>

OwnParent ==
  /\ adopter.pc = "guarded"
  /\ \/ Revalidated /\ mod' = [mod EXCEPT !.own = TRUE] /\ Go("ipc")
     \/ FailClosed([mod EXCEPT !.guard = FALSE])
  /\ UNCHANGED <<parent, nat, frameThread, fails>>

(* The exit watch, the shared block and its reset.  A tournament is parked by   *)
(* now and cannot fail closed any more.                                         *)
(* Mutant: the guard outlives the attachment that failed. *)
FailIpcKeepingGuard == FailClosed([mod EXCEPT !.own = FALSE])
FailIpc == FailClosed([mod EXCEPT !.own = FALSE, !.guard = FALSE])

RequestManagedAttachRecovery(m) == mod' = [m EXCEPT !.intercepted = TRUE] /\ Returns(TRUE)

StageIpc ==
  /\ adopter.pc = "ipc"
  /\ \/ Tournament /\ Go("revalidate") /\ UNCHANGED mod
     \/ Tournament /\ RequestManagedAttachRecovery(mod)
     \/ External /\ FailIpc
     \/ /\ External
        /\ mod' = [mod EXCEPT !.initFn = TRUE, !.role = adopter.snap.role, !.gen = adopter.snap.gen,
                              !.intercepted = FALSE, !.attach = "Pending", !.observed = FALSE]
        /\ Go("hooks")
  /\ UNCHANGED <<parent, nat, frameThread, fails>>

(* The hooks.  The frame dispatcher is tried twice; without any hook the        *)
(* attachment ends as if it had never begun.                                    *)
Unstaged(m) ==
  [m EXCEPT !.initFn = FALSE, !.role = "Unknown", !.gen = 0, !.intercepted = FALSE,
            !.attach = "Idle", !.armed = FALSE]

InstallHooks ==
  /\ adopter.pc = "hooks"
  /\ \E hooked, frame \in BOOLEAN :
       LET m == [mod EXCEPT !.armed = External] IN
       IF ~hooked /\ ~frame
       THEN FailClosed([Unstaged(m) EXCEPT !.own = FALSE, !.guard = FALSE])
       ELSE mod' = [m EXCEPT !.tick = hooked, !.frame = frame] /\ Go("boundary")
  /\ UNCHANGED <<parent, nat, frameThread, fails>>

(* WaitForExternalLauncherAttachBoundary: five seconds for the frame thread to  *)
(* arrive.  Then the exits are patched while it is parked.                      *)
(* Mutant: the wait is not needed. *)
BoundaryAssumed == TRUE
BoundaryObserved == mod.observed

PatchExits ==
  /\ adopter.pc = "boundary"
  /\ \/ /\ mod.tick /\ mod.frame /\ BoundaryObserved
        /\ mod' = [mod EXCEPT !.iat = TRUE, !.armed = TRUE]
        /\ Go(IF Tournament THEN "early" ELSE "revalidate")
     \/ /\ mod.tick
        /\ \E iat \in {FALSE, mod.observed} : RequestManagedAttachRecovery([mod EXCEPT !.iat = iat])
     \/ ~mod.tick /\ Tournament /\ RequestManagedAttachRecovery(mod)
     \/ ~mod.tick /\ External /\ Returns(TRUE) /\ UNCHANGED mod
  /\ UNCHANGED <<parent, nat, frameThread, fails>>

RevalidateEarly ==
  /\ adopter.pc = "early"
  /\ IF Revalidated THEN Go("ipc") /\ UNCHANGED mod ELSE RequestManagedAttachRecovery(mod)
  /\ UNCHANGED <<parent, nat, frameThread, fails>>

RevalidateLast ==
  /\ adopter.pc = "revalidate"
  /\ IF Revalidated THEN Returns(TRUE) /\ UNCHANGED mod ELSE RequestManagedAttachRecovery(mod)
  /\ UNCHANGED <<parent, nat, frameThread, fails>>

(* InitializeModThread: the menu's hooks, the simulation's handoff, and          *)
(* CompleteExternalLauncherUiAttachment, which looks at everything once more.    *)
Exact(hooks, handoff) ==
  /\ hooks /\ ~mod.intercepted /\ (External => handoff)
  /\ mod.role = adopter.snap.role /\ nat.role = mod.role /\ mod.attach = "Pending"
  /\ nat.gen = mod.gen /\ nat.kind = mod.role
  /\ mod.iat /\ mod.tick
  /\ External => mod.own /\ parent.alive

(* Mutant: an attachment that is not exact any more is let go unfinished. *)
LeavePending == UNCHANGED mod
Quarantine ==
  mod' = [mod EXCEPT !.intercepted = TRUE,
                     !.attach = IF @ = "Pending" THEN "Quarantine" ELSE @]

CompleteUiAttachment ==
  /\ adopter.pc = "ui"
  /\ \E hooks, handoff \in BOOLEAN :
       IF ~(Tournament \/ External) THEN UNCHANGED mod
       ELSE IF Exact(hooks, handoff) THEN mod' = [mod EXCEPT !.attach = "Commit"]
       ELSE Quarantine
  /\ Go("done")
  /\ UNCHANGED <<parent, nat, frameThread, fails>>

(* The thread leaves by an exception: its termination handler releases the       *)
(* frame thread, without the mutex.                                              *)
EmergencyQuarantine ==
  /\ adopter.pc \notin {"done", "start"}
  /\ Go("done")
  /\ IF mod.attach = "Pending" THEN Quarantine ELSE UNCHANGED mod
  /\ UNCHANGED <<parent, nat, frameThread, fails>>

(* StartSession calls EnsureLocalRevivalLoaded again to prepare a session of its   *)
(* own: practice and direct games need the tick hook and the patched exits.       *)
PrepareManagedSession ==
  /\ adopter.pc = "done" /\ mod.allowed /\ mod.initFn
  /\ mod.disp \in {"AttachExistingPractice", "DirectGameHost"}
  /\ \E hooked, iat \in BOOLEAN :
       LET t == mod.tick \/ hooked
           i == mod.iat \/ (t /\ iat) IN
       mod' = [mod EXCEPT !.tick = t, !.iat = i,
                          !.disp = IF t /\ i THEN "DirectGameHost" ELSE @]
  /\ UNCHANGED <<parent, nat, adopter, frameThread, fails>>

--------------------------------------------------------------------------------
(* The frame thread: OurPerFrameTickHook once the tick hook is in place.       *)

FrameTick ==
  /\ frameThread = "between"
  /\ IF mod.tick /\ mod.attach = "Pending"
     THEN frameThread' = "parked" /\ mod' = [mod EXCEPT !.observed = TRUE]
     ELSE frameThread' = (IF mod.tick THEN "decide" ELSE "native") /\ UNCHANGED mod
  /\ UNCHANGED <<parent, nat, adopter, fails>>

Unpark ==
  /\ frameThread = "parked" /\ mod.attach # "Pending"
  /\ mod' = [mod EXCEPT !.attach = IF @ = "Commit" THEN "Idle" ELSE @]
  /\ frameThread' = "decide"
  /\ UNCHANGED <<parent, nat, adopter, fails>>

(* The native tick is skipped while an exit is to be recovered from, or the      *)
(* launcher is gone.  A quarantined tournament arms its staged cleanup.          *)
(* Mutant: the cleanup of a quarantined tournament is not armed. *)
NotArmed == mod.cleanup
ArmTournamentReturnCleanup ==
  IF mod.attach = "Quarantine" /\ mod.role = "Tournament" /\ mod.disp = "AttachExistingTournament"
  THEN "RestoreExe" ELSE mod.cleanup

Decide ==
  LET lost == mod.own /\ ~parent.alive
      skip == mod.intercepted \/ lost \/ mod.attach = "Quarantine" IN
  /\ frameThread = "decide"
  /\ mod' = [mod EXCEPT !.attach = IF @ = "Quarantine" THEN "Idle" ELSE @,
                        !.cleanup = ArmTournamentReturnCleanup]
  /\ frameThread' = (IF skip THEN "post" ELSE "native")
  /\ UNCHANGED <<parent, nat, adopter, fails>>

(* What a native tick does to Revival: it loads, initialises, creates its        *)
(* session, publishes it, or replaces it.                                        *)
NativeSteps ==
  LET none == nat.kind = "None" IN
  UNION {
    IF nat.dll = "none" /\ parent.kind # "none"
      THEN {[nat EXCEPT !.dll = d] : d \in {"exact", "foreign", "unknown"}} ELSE {},
    IF nat.dll = "exact" /\ nat.role = "Unknown"
      THEN {[nat EXCEPT !.role = r, !.boot = TRUE] : r \in Roles} ELSE {},
    IF nat.boot /\ nat.gen < MaxGen
      THEN {[nat EXCEPT !.kind = k, !.gen = @ + 1, !.ready = FALSE, !.bound = b] :
              k \in {nat.role, "Unknown"}, b \in BOOLEAN} ELSE {},
    IF ~none /\ ~nat.ready THEN {[nat EXCEPT !.ready = TRUE]} ELSE {}}

NativeTick ==
  /\ frameThread = "native"
  /\ frameThread' = "between"
  /\ nat' \in NativeSteps \cup {nat}
  /\ UNCHANGED <<parent, adopter, mod, fails>>

(* After a skipped tick: CompletePendingTournamentReturnCleanup, one stage after  *)
(* the other; a stage that fails is tried again at a later tick, except the       *)
(* local initialisation, whose failure quarantines the cleanup for good.          *)
(* Mutant: a local initialisation that failed is tried again. *)
RetryAnyStep(stage) == stage
FailedCleanup(stage) == IF stage = "InitializeLocal" THEN "Quarantined" ELSE stage
CompleteTournamentCleanupStep(stage) ==
  [RestoreExe |-> "InitializeLocal", InitializeLocal |-> "RestoreDll",
   RestoreDll |-> "PublishTitle", PublishTitle |-> "Inactive"][stage]

CleanupStage ==
  /\ frameThread = "post" /\ mod.cleanup \notin {"Inactive", "Quarantined"}
  /\ LET inits == IF mod.cleanup = "InitializeLocal" THEN mod.inits + 1 ELSE mod.inits IN
     \/ LET next == CompleteTournamentCleanupStep(mod.cleanup) IN
        /\ mod' = IF next = "Inactive"
                  THEN [mod EXCEPT !.cleanup = next, !.role = "Practice", !.intercepted = FALSE,
                                   !.disp = "DirectGameHost"]
                  ELSE [mod EXCEPT !.cleanup = next, !.inits = inits]
        /\ frameThread' = (IF next = "Inactive" THEN "between" ELSE "post")
        /\ nat' = IF mod.cleanup = "InitializeLocal"
                  THEN [nat EXCEPT !.role = "Practice", !.kind = "None"] ELSE nat
        /\ UNCHANGED fails
     \/ /\ fails < MaxFailures
        /\ mod' = [mod EXCEPT !.cleanup = FailedCleanup(@), !.inits = inits, !.intercepted = TRUE]
        /\ frameThread' = "between"
        /\ fails' = fails + 1
        /\ UNCHANGED nat
  /\ UNCHANGED <<parent, adopter>>

(* The recovery of an online session (module ExitRecovery) ends it, lets go of    *)
(* the launcher and initialises local play.                                       *)
RecoverSession ==
  /\ frameThread = "post" /\ mod.cleanup = "Inactive" /\ mod.role # "Tournament"
  /\ mod' = [mod EXCEPT !.intercepted = FALSE, !.role = "Practice", !.own = FALSE,
                        !.guard = FALSE, !.disp = "DirectGameHost"]
  /\ nat' = [nat EXCEPT !.role = "Practice", !.kind = "None"]
  /\ frameThread' = "between"
  /\ UNCHANGED <<parent, adopter, fails>>

(* Nothing can be done in this tick: a quarantined cleanup, or a tournament whose *)
(* attachment is still being decided.                                             *)
Idle ==
  /\ frameThread = "post"
  /\ mod.cleanup = "Quarantined" \/ (mod.role = "Tournament" /\ mod.cleanup = "Inactive")
  /\ frameThread' = "between"
  /\ UNCHANGED <<parent, nat, adopter, mod, fails>>

ParentExits ==
  /\ parent.kind # "none" /\ parent.alive
  /\ parent' = [parent EXCEPT !.alive = FALSE]
  /\ UNCHANGED <<nat, adopter, mod, frameThread, fails>>

--------------------------------------------------------------------------------
AdoptInit ==
  /\ parent \in [kind : {"none", "named", "exact"}, alive : {TRUE}]
  /\ nat = [dll |-> "none", boot |-> FALSE, role |-> "Unknown", kind |-> "None", gen |-> 0,
            ready |-> FALSE, bound |-> FALSE]
  /\ adopter = [pc |-> "start", snap |-> NoSnapshot, polls |-> MaxPolls, withParent |-> FALSE]
  /\ mod = Blank
  /\ frameThread = "between"
  /\ fails = 0

InitThread ==
  CaptureExactParent \/ Poll \/ LoadOwn \/ StayPassive \/ ModuleChanged \/ AttachPractice
  \/ StageTournament \/ InstallGuard \/ OwnParent \/ StageIpc \/ InstallHooks \/ PatchExits
  \/ RevalidateEarly \/ RevalidateLast \/ CompleteUiAttachment
GameThread == FrameTick \/ Unpark \/ Decide \/ NativeTick \/ CleanupStage \/ RecoverSession \/ Idle

AdoptNext == InitThread \/ EmergencyQuarantine \/ PrepareManagedSession \/ GameThread \/ ParentExits
AdoptSpec == AdoptInit /\ [][AdoptNext]_adoptVars

(* Both threads run.                                                             *)
AdoptFairness == WF_adoptVars(InitThread) /\ WF_adoptVars(GameThread)
AdoptLiveSpec == AdoptSpec /\ AdoptFairness

--------------------------------------------------------------------------------
AdoptTypeOK ==
  /\ parent \in [kind : {"none", "named", "exact"}, alive : BOOLEAN]
  /\ nat \in [dll : {"none", "exact", "foreign", "unknown"}, boot : BOOLEAN,
              role : Roles \cup {"Unknown"}, kind : Roles \cup {"None", "Unknown"},
              gen : 0 .. MaxGen, ready : BOOLEAN, bound : BOOLEAN]
  /\ adopter.polls \in 0 .. MaxPolls
  /\ mod.attach \in {"Idle", "Pending", "Commit", "Quarantine"}
  /\ mod.cleanup \in {"Inactive", "RestoreExe", "InitializeLocal", "RestoreDll", "PublishTitle",
                      "Quarantined"}
  /\ frameThread \in {"between", "parked", "decide", "native", "post"}

(* A committed session is the one that was admitted, untouched, under its tick    *)
(* hook and patched exits: nothing ran in it between the last look and the commit.*)
CommitIsExact ==
  mod.attach = "Commit" =>
    /\ nat.gen = mod.gen /\ nat.kind = mod.role /\ nat.role = mod.role /\ nat.ready
    /\ mod.tick /\ mod.iat /\ frameThread = "parked"

(* Only a session that belongs to this game's own launcher is adopted.            *)
AdoptedIsBound ==
  mod.disp \in Adopted /\ mod.attach = "Commit" => nat.bound /\ mod.guard /\ mod.own

(* An attachment that fails closed leaves nothing of the mod behind.              *)
FailClosedIsClean ==
  adopter.pc = "done" /\ mod.disp = "PassiveFailClosed" =>
    mod = [Blank EXCEPT !.disp = "PassiveFailClosed", !.allowed = mod.allowed]

(* The local initialisation of a tournament's cleanup is never repeated.          *)
InitializedOnce == mod.inits <= 1

(* A parked frame thread is released, however the initialisation goes.            *)
ParkedIsReleased == frameThread = "parked" ~> frameThread # "parked"

(* An attachment that fails after its tick hook is in place leads back to a game  *)
(* without the session, unless the cleanup was quarantined.                       *)
FailedAttachRecovers ==
  mod.intercepted /\ mod.tick ~> ~mod.intercepted \/ mod.cleanup = "Quarantined"

(* Exactly the session that was admitted is adopted, or nothing of the mod  *)
(* is left, and no cleanup initializes twice.                               *)
AdoptionSafe ==
  /\ AdoptTypeOK /\ CommitIsExact /\ AdoptedIsBound /\ FailClosedIsClean
  /\ InitializedOnce
================================================================================
