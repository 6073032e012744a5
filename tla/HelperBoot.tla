------------------------------- MODULE HelperBoot --------------------------------
(***************************************************************************)
(* How Revival's helper process is started and made to launch this game.    *)
(* The game's start worker spawns the helper suspended, injects the mod,    *)
(* redirects the helper's imports, waits until the mod in the helper is     *)
(* ready and only then lets the helper's main thread run.  The main thread  *)
(* then believes it launches a game: its calls are served by stubs inside   *)
(* the helper, and what it would have written into the new process ends up  *)
(* as an init handshake for the game that is already running.               *)
(*                                                                          *)
(* The block shared by both processes has a machine-wide name: another copy *)
(* of the game on the machine may publish its own helper's readiness in it. *)
(* The stubs' fallbacks are for a main thread that runs before the mod is   *)
(* ready, which takes such a stray; console prompts are module Prompts, the *)
(* phases of a session SessionStart, the tick around the handshake Prompts. *)
(*                                                                          *)
(* Revival's launch is modelled from the stubs that serve it (external).    *)
(* A process is killed by TerminateProcess or by closing its job; both work *)
(* at once.                                                                 *)
(***************************************************************************)
EXTENDS Integers, Sequences

CONSTANTS
  MaxStarts,       \* bound: sessions started
  Stray            \* whether another copy of the game may write to the block

ASSUME MaxStartsAssumption == MaxStarts \in Nat

VARIABLES
  wine,            \* the game runs under Wine
  session,         \* the start worker and the tick: place, session, init applied
  block,           \* the shared block: readiness, who wrote init last, launch hits
  event,           \* the init event: the session whose helper set it, or 0
  hp,              \* the helper process
  main,            \* its main thread: place in the stub, step of the launch
  boot,            \* InitializeInjected: the mutex's holder and its place
  init,            \* the thread that initializes the mod in the helper
  watch,           \* watchers of helper processes: session and place
  signaled,        \* g_peerProcessExitSignaled: the session it is about, or 0
  ghost            \* what properties remember

bootVars == <<wine, session, block, event, hp, main, boot, init, watch, signaled, ghost>>

NoBlock == [ready |-> FALSE, init |-> 0, hits |-> FALSE]

(* A helper as it is spawned: nothing loaded, main thread suspended.          *)
Spawned(g) ==
  [st |-> "suspended", gen |-> g, dll |-> "no", patched |-> "no",
   bound |-> FALSE, ready |-> FALSE, serving |-> FALSE, lazy |-> "idle",
   allocs |-> {}, fakes |-> {}, thread |-> FALSE, calls |-> 0, captured |-> FALSE]
NoHelper == [Spawned(0) EXCEPT !.st = "dead"]
Alive == hp.st # "dead"

(* What Revival does to launch a game, in order.                              *)
Launch == <<"CreateProcess", "AllocPath", "WritePath", "LoadThread", "LoadResult", "FreePath",
            "AllocArgs", "WriteArgs", "InitThread", "InitResult", "ResumeThread">>
Steps == 1 .. Len(Launch) + 1
Launched == Len(Launch) + 1
Unstarted == [at |-> "enter", step |-> 1, gaveUp |-> FALSE]

NoBoot == [by |-> "none", at |-> "none"]

--------------------------------------------------------------------------------
(* StartSession: the worker in the game.                                      *)

ResetHostSharedBlockForSession == NoBlock

(* What the process takes with it.                                            *)
Gone ==
  /\ hp' = [hp EXCEPT !.st = "dead", !.allocs = {}, !.fakes = {}, !.dll = "no"]
  /\ main' = Unstarted /\ boot' = NoBoot /\ init' = "none"
TerminateProcess == IF Alive THEN Gone ELSE UNCHANGED <<hp, main, boot, init>>

GoesTo(pc) == session' = [session EXCEPT !.pc = pc]

(* A start refused before anything is spawned: before or after the block is    *)
(* reset.                                                                      *)
StartRefused ==
  /\ session.pc = "start"
  /\ GoesTo("over")
  /\ block' \in {block, ResetHostSharedBlockForSession}
  /\ UNCHANGED <<wine, event, hp, main, boot, init, watch, signaled, ghost>>

(* The watcher of an earlier helper is stopped and joined before its signal is  *)
(* cleared.                                                                     *)
(* Mutant: the watcher is told to stop and not waited for. *)
StopWithoutJoin == watch' = watch /\ signaled' = 0
StopPeerProcessExitWatch == watch' = {} /\ signaled' = 0

CloseProcessHandle == StopPeerProcessExitWatch

Spawn ==
  /\ session.pc = "start" /\ ~Alive
  /\ block' = ResetHostSharedBlockForSession
  /\ CloseProcessHandle
  /\ hp' = Spawned(session.gen)
  /\ main' = Unstarted /\ boot' = NoBoot /\ init' = "none"
  /\ GoesTo("inject")
  /\ UNCHANGED <<wine, event, ghost>>

(* A start that fails after the helper exists takes the helper with it.        *)
(* Mutant: it only closes its handles. *)
CloseOnly == UNCHANGED <<hp, main, boot, init>> /\ GoesTo("over")
AbandonHelper == TerminateProcess /\ GoesTo("over")

InjectSelf ==
  /\ session.pc = "inject" /\ hp.st = "suspended"
  /\ GoesTo("loading")
  /\ hp' = [hp EXCEPT !.dll = "loading"]
  /\ UNCHANGED <<wine, block, event, main, boot, init, watch, signaled, ghost>>

InjectFails ==
  /\ session.pc \in {"inject", "loading"} /\ hp.dll # "yes"
  /\ AbandonHelper
  /\ UNCHANGED <<wine, block, event, watch, signaled, ghost>>

(* Mutant: the imports are left to the retries of the tick. *)
InjectDoneUnpatched ==
  /\ session.pc = "loading" /\ hp.dll = "yes"
  /\ GoesTo("payload")
  /\ UNCHANGED <<wine, block, event, hp, main, boot, init, watch, signaled, ghost>>
InjectDone ==
  /\ session.pc = "loading" /\ hp.dll = "yes"
  /\ GoesTo("patch")
  /\ UNCHANGED <<wine, block, event, hp, main, boot, init, watch, signaled, ghost>>

(* The imports whose names can be read are redirected; a module that cannot be *)
(* walked, or no redirected import at all, fails the whole.                    *)
PatchIatModule == {"some", "all"}
Better(have, got) == IF have = "all" THEN "all" ELSE got

PatchIat ==
  /\ session.pc = "patch" /\ Alive
  /\ \E got \in PatchIatModule :
       /\ hp' = [hp EXCEPT !.patched = Better(@, got)]
       /\ ghost' = [ghost EXCEPT !.unread = @ \/ Better(hp.patched, got) # "all"]
  /\ GoesTo("payload")
  /\ UNCHANGED <<wine, block, event, main, boot, init, watch, signaled>>

PatchFails ==
  /\ session.pc = "patch"
  /\ AbandonHelper
  /\ UNCHANGED <<wine, block, event, watch, signaled, ghost>>

(* The parameters of the session, the console script and the rings are reset    *)
(* while the main thread is suspended, and so are both events.                  *)
(* Mutant: the init event keeps its state. *)
EventsKept == event' = event
ResetEvents == event' = 0

Payload ==
  /\ session.pc = "payload"
  /\ block' = [block EXCEPT !.init = 0, !.hits = FALSE]
  /\ ResetEvents
  /\ session' = [session EXCEPT !.pc = "wait", !.applied = 0]
  /\ UNCHANGED <<wine, hp, main, boot, init, watch, signaled, ghost>>

(* The wait for the helper ends with its readiness, its death or after 3 s.     *)
WaitOver ==
  /\ session.pc = "wait" /\ block.ready
  /\ GoesTo("resume")
  /\ UNCHANGED <<wine, block, event, hp, main, boot, init, watch, signaled, ghost>>

WaitFails ==
  /\ session.pc = "wait" /\ ~block.ready
  /\ AbandonHelper
  /\ UNCHANGED <<wine, block, event, watch, signaled, ghost>>

Resume ==
  /\ session.pc = "resume" /\ Alive
  /\ hp' = [hp EXCEPT !.st = "running"]
  /\ GoesTo("watch")
  /\ UNCHANGED <<wine, block, event, main, boot, init, watch, signaled, ghost>>

ResumeFails ==
  /\ session.pc = "resume"
  /\ AbandonHelper
  /\ UNCHANGED <<wine, block, event, watch, signaled, ghost>>

StartPeerProcessExitWatch ==
  /\ session.pc = "watch"
  /\ watch' = watch \cup {[gen |-> hp.gen, at |-> "waiting"]}
  /\ signaled' = 0
  /\ GoesTo("armed")
  /\ UNCHANGED <<wine, block, event, hp, main, boot, init, ghost>>

WatchFails ==
  /\ session.pc = "watch"
  /\ AbandonHelper
  /\ CloseProcessHandle
  /\ UNCHANGED <<wine, block, event, ghost>>

--------------------------------------------------------------------------------
(* The game afterwards: its ticks, a cancel, the watcher, the next start.     *)

BeginStart ==
  /\ session.pc \in {"idle", "over"} /\ session.gen < MaxStarts
  /\ session' = [session EXCEPT !.pc = "start", !.gen = @ + 1, !.applied = 0]
  /\ UNCHANGED <<wine, block, event, hp, main, boot, init, watch, signaled, ghost>>

(* While no launch call has been seen the imports are redirected again.        *)
LatePatch ==
  /\ session.pc = "armed" /\ ~block.hits /\ Alive /\ hp.patched # "all"
  /\ hp' = [hp EXCEPT !.patched = "all"]
  /\ UNCHANGED <<wine, session, block, event, main, boot, init, watch, signaled, ghost>>

(* The handshake is taken once per session; the tick may run inside a frame     *)
(* first and set the event again.                                               *)
TickTakesInit ==
  /\ session.pc = "armed" /\ session.applied = 0 /\ event # 0
  /\ session' = [session EXCEPT !.applied = event]
  /\ event' = 0
  /\ UNCHANGED <<wine, block, hp, main, boot, init, watch, signaled, ghost>>

Ends ==
  /\ session.pc = "armed"
  /\ AbandonHelper /\ CloseProcessHandle
  /\ UNCHANGED <<wine, block, event, ghost>>

(* A watcher wakes with its process's end and stores that a moment later.       *)
WatchWakes(w) ==
  /\ w.at = "waiting" /\ (w.gen # hp.gen \/ ~Alive)
  /\ watch' = (watch \ {w}) \cup {[w EXCEPT !.at = "storing"]}
  /\ UNCHANGED <<wine, session, block, event, hp, main, boot, init, signaled, ghost>>

WatchStores(w) ==
  /\ w.at = "storing"
  /\ watch' = watch \ {w}
  /\ signaled' = w.gen
  /\ UNCHANGED <<wine, session, block, event, hp, main, boot, init, ghost>>

PeerProcessExitWatchMain == \E w \in watch : WatchWakes(w) \/ WatchStores(w)

--------------------------------------------------------------------------------
(* The mod in the helper: loading, and InitializeInjected under g_mutex, run   *)
(* by the thread DllMain starts and, when the main thread finds no context, by  *)
(* the main thread.                                                            *)

(* DllMain redirects the program's own imports under Wine.  The thread may fail *)
(* to start.                                                                    *)
SelfPatchIat == IF wine THEN "all" ELSE hp.patched

DllMain ==
  /\ Alive /\ hp.dll = "loading"
  /\ hp' = [hp EXCEPT !.dll = "yes", !.patched = SelfPatchIat]
  /\ init' \in {"none", "starting"}
  /\ UNCHANGED <<wine, session, block, event, main, boot, watch, signaled, ghost>>

Context == hp.bound /\ hp.ready

Enter(who) == boot.by = "none" /\ boot' = [by |-> who, at |-> "open"]

InitThreadEnters ==
  /\ Alive /\ init = "starting"
  /\ Enter("init")
  /\ init' = "running"
  /\ UNCHANGED <<wine, session, block, event, hp, main, watch, signaled, ghost>>

(* The block and the events are opened, and everything the stubs keep is        *)
(* forgotten.                                                                   *)
ClearFakeThreads == [hp EXCEPT !.fakes = {}, !.allocs = {}, !.thread = FALSE,
                               !.calls = 0, !.captured = FALSE]

InitOpens ==
  /\ boot.at = "open"
  /\ hp' = [ClearFakeThreads EXCEPT !.bound = TRUE, !.ready = FALSE]
  /\ boot' = [boot EXCEPT !.at = "publish"]
  /\ UNCHANGED <<wine, session, block, event, main, init, watch, signaled, ghost>>

(* The console worker and the disconnect handler decide whether it is ready;    *)
(* what has started once is found started.                                      *)
Serves == IF hp.serving THEN {TRUE} ELSE BOOLEAN

PublishesReady(ok) == block' = [block EXCEPT !.ready = ok]

InitPublishes ==
  /\ boot.at = "publish"
  /\ \E ok \in Serves :
       /\ hp' = [hp EXCEPT !.ready = ok, !.serving = ok,
                           !.lazy = IF ok THEN "ready" ELSE "idle"]
       /\ PublishesReady(ok)
  /\ boot' = NoBoot
  /\ IF boot.by = "init" THEN init' = "done" /\ main' = main
     ELSE main' = [main EXCEPT !.at = "bind"] /\ init' = init
  /\ UNCHANGED <<wine, session, event, watch, signaled, ghost>>

--------------------------------------------------------------------------------
(* The main thread: what every stub does before it serves.                    *)

Running == hp.st = "running" /\ main.step # Launched /\ main.at # "ended"
Intercepted == hp.patched = "all"

(* Every stub of the launch asks for the context first, but for the two that     *)
(* look at a thread's result.                                                   *)
Ensures == main.gaveUp \/ Launch[main.step] \notin {"LoadResult", "InitResult"}

(* TryLazyBootstrapInjected: one caller at a time initializes, once it has the   *)
(* mutex.                                                                       *)
LazyBootstrap ==
  /\ Running /\ Intercepted /\ main.at = "enter" /\ Ensures /\ ~Context
  /\ IF hp.lazy = "idle"
     THEN /\ hp' = [hp EXCEPT !.lazy = "initializing"]
          /\ main' = [main EXCEPT !.at = "booting"]
     ELSE main' = [main EXCEPT !.at = "bind"] /\ hp' = hp
  /\ UNCHANGED <<wine, session, block, event, boot, init, watch, signaled, ghost>>

LazyEnters ==
  /\ main.at = "booting" /\ Enter("main")
  /\ UNCHANGED <<wine, session, block, event, hp, main, init, watch, signaled, ghost>>

(* EnsureInjectedContextFast: the main thread binds itself, without the mutex.  *)
LazyBind ==
  /\ Running /\ main.at = "bind"
  /\ IF Context THEN UNCHANGED <<hp, block>>
     ELSE \E ok \in Serves :
            /\ hp' = [hp EXCEPT !.bound = TRUE, !.ready = ok, !.serving = ok]
            /\ PublishesReady(ok)
  /\ main' = [main EXCEPT !.at = "serve"]
  /\ UNCHANGED <<wine, session, event, boot, init, watch, signaled, ghost>>

--------------------------------------------------------------------------------
(* The stubs.  A call that leaves for the system instead of being served is    *)
(* remembered, as is a handle or an allocation the stubs handed out and no      *)
(* longer know.                                                                 *)

Prepared == main.at = "serve" \/ (main.at = "enter" /\ Context)
Called(step) == Running /\ Intercepted /\ ~main.gaveUp /\ Launch[main.step] = step
Serving(step) == Called(step) /\ Prepared

Next1 == main' = [main EXCEPT !.at = "enter", !.step = @ + 1]
Fails1 == main' = [main EXCEPT !.at = IF main.step = 1 THEN "ended" ELSE "enter", !.gaveUp = TRUE]
Hit == block' = [block EXCEPT !.hits = TRUE]
Native(call) == ghost' = [ghost EXCEPT !.native = @ \cup {call}]
Forgotten == ghost' = [ghost EXCEPT !.lost = TRUE]

(* The game may be impossible to open.                                          *)
StubCreateProcessA ==
  /\ Serving("CreateProcess") /\ Hit
  /\ \/ hp' = [hp EXCEPT !.thread = TRUE] /\ Next1
     \/ hp' = hp /\ Fails1
  /\ UNCHANGED <<wine, session, event, boot, init, watch, signaled, ghost>>

(* A helper in trouble starts a child that waits for a key: refused, and an      *)
(* error published.                                                             *)
BlockedChild ==
  /\ Running /\ Intercepted /\ ~main.gaveUp /\ main.at = "enter"
  /\ block' = [block EXCEPT !.hits = @ \/ hp.bound]
  /\ Fails1
  /\ UNCHANGED <<wine, session, event, hp, boot, init, watch, signaled, ghost>>

(* Without the redirection the call starts a second game.                       *)
RealLaunch ==
  /\ Running /\ ~Intercepted
  /\ Native("CreateProcess") /\ Fails1
  /\ UNCHANGED <<wine, session, block, event, hp, boot, init, watch, signaled>>

StubVirtualAllocEx ==
  \E a \in {<<"AllocPath", "path">>, <<"AllocArgs", "args">>} :
    /\ Serving(a[1])
    /\ \/ hp' = [hp EXCEPT !.allocs = @ \cup {a[2]}] /\ Next1
       \/ hp' = hp /\ Fails1
    /\ UNCHANGED <<wine, session, block, event, boot, init, watch, signaled, ghost>>

StubVirtualFreeEx ==
  /\ Serving("FreePath")
  /\ hp' \in {hp, [hp EXCEPT !.allocs = @ \ {"path"}]}
  /\ Next1
  /\ UNCHANGED <<wine, session, block, event, boot, init, watch, signaled, ghost>>

IsWithinRedirectAllocation(a) == a \in hp.allocs

Handshake == block' = [block EXCEPT !.init = hp.gen, !.hits = TRUE] /\ event' = hp.gen

(* The write of the two init parameters is the handshake, once per context,      *)
(* whether or not the bytes could be copied.                                     *)
InitWritten(step) ==
  IF step # "WriteArgs" \/ (hp.captured /\ Context) THEN Hit /\ UNCHANGED <<hp, event>>
  ELSE Handshake /\ hp' = [hp EXCEPT !.captured = @ \/ Context]

(* A write outside what was allocated here is refused.                          *)
StubWriteBlocked ==
  \E w \in {<<"WritePath", "path">>, <<"WriteArgs", "args">>} :
    /\ Serving(w[1]) /\ ~IsWithinRedirectAllocation(w[2])
    /\ InitWritten(w[1]) /\ Forgotten /\ Fails1
    /\ UNCHANGED <<wine, session, boot, init, watch, signaled>>

StubWriteProcessMemory ==
  \E w \in {<<"WritePath", "path">>, <<"WriteArgs", "args">>} :
    /\ Serving(w[1]) /\ IsWithinRedirectAllocation(w[2])
    /\ InitWritten(w[1]) /\ Next1
    /\ UNCHANGED <<wine, session, boot, init, watch, signaled, ghost>>

(* A fake thread is handed out, unless its event cannot be created.             *)
CreateFakeThread(name, code) ==
  \/ hp' = [hp EXCEPT !.fakes = @ \cup {<<name, code>>}, !.calls = @ + 1] /\ Next1
  \/ hp' = [hp EXCEPT !.calls = @ + 1] /\ Fails1

(* The second thread created is taken for init, whatever it starts.              *)
IsLikelyInitThreadCall == hp.calls + 1 >= 2

(* The thread that loads Revival's library into the game, where it is already:    *)
(* its result is the base the library has there.  Without a context the thread is *)
(* created, and the launch is not followed further.                             *)
StubCreateLoadThread ==
  /\ Serving("LoadThread")
  /\ IF ~Context
     THEN /\ Native("CreateRemoteThread") /\ Fails1 /\ Hit /\ event' = event
          /\ hp' = [hp EXCEPT !.calls = @ + 1]
     ELSE IF IsLikelyInitThreadCall
     THEN Handshake /\ CreateFakeThread("load", "init") /\ ghost' = ghost
     ELSE Hit /\ CreateFakeThread("load", "base") /\ UNCHANGED <<event, ghost>>
  /\ UNCHANGED <<wine, session, boot, init, watch, signaled>>

(* The thread that runs init: its parameters tell it, with or without a context. *)
StubCreateInitThread ==
  /\ Serving("InitThread")
  /\ Handshake /\ CreateFakeThread("init", "init")
  /\ UNCHANGED <<wine, session, boot, init, watch, signaled, ghost>>

LookupFakeThread(name, code) == <<name, code>> \in hp.fakes

(* A thread is waited for and its result read, with or without a context.        *)
StubGetExitCodeThread ==
  \E r \in {<<"LoadResult", "load", "base">>, <<"InitResult", "init", "init">>} :
    /\ Called(r[1]) /\ main.at = "enter"
    /\ IF LookupFakeThread(r[2], r[3]) THEN Next1 /\ ghost' = ghost ELSE Forgotten /\ Fails1
    /\ UNCHANGED <<wine, session, block, event, hp, boot, init, watch, signaled>>

StubResumeThread ==
  /\ Serving("ResumeThread")
  /\ IF Context /\ hp.thread THEN ghost' = ghost ELSE Forgotten
  /\ Next1
  /\ UNCHANGED <<wine, session, block, event, hp, boot, init, watch, signaled>>

(* A launch that failed kills what it believes is its own child.  The process    *)
(* behind the handle is this game: the stub knows it by the block it is bound to. *)
(* Mutant: it knows it only while it is ready. *)
KnowsHostWhenReady == Context
KnowsHost == hp.bound

StubTerminateProcess ==
  /\ Running /\ Intercepted /\ main.gaveUp /\ Prepared
  /\ IF KnowsHost THEN ghost' = ghost ELSE Native("TerminateProcess")
  /\ main' = [main EXCEPT !.at = "ended"]
  /\ UNCHANGED <<wine, session, block, event, hp, boot, init, watch, signaled>>

--------------------------------------------------------------------------------
(* The helper ends: on its own, running the mod's detach, or killed.            *)

ShutdownInjected ==
  /\ hp.st = "running" /\ (main.at = "ended" \/ main.step = Launched)
  /\ block' = IF hp.bound THEN [block EXCEPT !.ready = FALSE] ELSE block
  /\ Gone
  /\ UNCHANGED <<wine, session, event, watch, signaled, ghost>>

Dies ==
  /\ Alive
  /\ Gone
  /\ UNCHANGED <<wine, session, block, event, watch, signaled, ghost>>

(* Another copy's helper publishes that it is ready.                            *)
OtherCopy ==
  /\ Stray /\ ~ghost.stray /\ session.pc # "idle"
  /\ block' = [block EXCEPT !.ready = TRUE]
  /\ ghost' = [ghost EXCEPT !.stray = TRUE]
  /\ UNCHANGED <<wine, session, event, hp, main, boot, init, watch, signaled>>

--------------------------------------------------------------------------------

BootInit ==
  /\ wine \in BOOLEAN
  /\ session = [pc |-> "idle", gen |-> 0, applied |-> 0]
  /\ block = NoBlock /\ event = 0
  /\ hp = NoHelper /\ main = Unstarted /\ boot = NoBoot /\ init = "none"
  /\ watch = {} /\ signaled = 0
  /\ ghost = [native |-> {}, lost |-> FALSE, stray |-> FALSE, unread |-> FALSE]

StartWorker ==
  \/ StartRefused \/ Spawn \/ InjectSelf \/ InjectFails \/ InjectDone
  \/ PatchIat \/ PatchFails \/ Payload \/ WaitOver \/ WaitFails
  \/ Resume \/ ResumeFails \/ StartPeerProcessExitWatch \/ WatchFails
InjectedInit == InitThreadEnters \/ InitOpens \/ InitPublishes
Stubs ==
  \/ StubCreateProcessA \/ StubVirtualAllocEx \/ StubVirtualFreeEx
  \/ StubWriteBlocked \/ StubWriteProcessMemory
  \/ StubCreateLoadThread \/ StubCreateInitThread
  \/ StubGetExitCodeThread \/ StubResumeThread
MainThread ==
  \/ LazyBootstrap \/ LazyEnters \/ LazyBind \/ Stubs \/ StubTerminateProcess \/ RealLaunch

BootNext ==
  \/ BeginStart \/ StartWorker \/ LatePatch \/ TickTakesInit \/ Ends
  \/ PeerProcessExitWatchMain
  \/ DllMain \/ InjectedInit \/ MainThread \/ BlockedChild
  \/ ShutdownInjected \/ Dies \/ OtherCopy

BootSpec == BootInit /\ [][BootNext]_bootVars

(* Threads run: the worker's waits have an end, the helper's threads are         *)
(* scheduled, ticks go on.                                                       *)
BootLiveSpec ==
  BootSpec /\ WF_bootVars(StartWorker) /\ WF_bootVars(InjectedInit) /\ WF_bootVars(MainThread)
       /\ WF_bootVars(TickTakesInit)

--------------------------------------------------------------------------------
(* Properties.                                                                *)

Sessions ==
  [pc : {"idle", "start", "inject", "loading", "patch", "payload", "wait", "resume", "watch",
         "armed", "over"},
   gen : 0 .. MaxStarts, applied : 0 .. MaxStarts]
Blocks == [ready : BOOLEAN, init : 0 .. MaxStarts, hits : BOOLEAN]
Helpers ==
  [st : {"suspended", "running", "dead"}, gen : 0 .. MaxStarts, dll : {"no", "loading", "yes"},
   patched : {"no", "some", "all"}, bound : BOOLEAN, ready : BOOLEAN, serving : BOOLEAN,
   lazy : {"idle", "initializing", "ready"}, allocs : SUBSET {"path", "args"},
   fakes : SUBSET ({"load", "init"} \X {"base", "init"}), thread : BOOLEAN, calls : 0 .. 2,
   captured : BOOLEAN]
Mains == [at : {"enter", "booting", "bind", "serve", "ended"}, step : Steps, gaveUp : BOOLEAN]
Boots == [by : {"none", "init", "main"}, at : {"none", "open", "publish"}]
Watchers == [gen : 1 .. MaxStarts, at : {"waiting", "storing"}]
Ghosts == [native : SUBSET {"CreateProcess", "CreateRemoteThread", "TerminateProcess"},
           lost : BOOLEAN, stray : BOOLEAN, unread : BOOLEAN]

BootTypeOK ==
  /\ wine \in BOOLEAN
  /\ session \in Sessions
  /\ block \in Blocks
  /\ event \in 0 .. MaxStarts /\ signaled \in 0 .. MaxStarts
  /\ hp \in Helpers
  /\ main \in Mains
  /\ boot \in Boots
  /\ init \in {"none", "starting", "running", "done"}
  /\ watch \subseteq Watchers
  /\ ghost \in Ghosts

(* The launch Revival performs never leaves the helper: no second game is        *)
(* started and no thread is created in the running one (StubCreateProcessA,      *)
(* StubCreateRemoteThread's pass-through).  The exceptions are an import whose    *)
(* name could not be read, and a stray readiness of another copy.                *)
LaunchStaysInside == ghost.native # {} => ghost.unread \/ ghost.stray

(* What the stubs hand out they know again: no allocation is unknown to the      *)
(* write that follows and no thread to the wait, since the initialization that    *)
(* forgets everything is over before the main thread runs (ipc_shared.cpp,       *)
(* InitializeInjected, against revival_takeover.cpp's wait for readiness).       *)
NothingForgotten == ghost.lost => ghost.stray

(* The init the game applies comes from the helper of this session, never from   *)
(* an event an earlier helper left set (it sets it twice and it is taken once).   *)
InitIsOwn == session.applied \in {0, session.gen}

(* The exit signal, when it is set, is about the helper of this session, which    *)
(* has ended (StopPeerProcessExitWatch joins the watcher before it clears).       *)
ExitSignalIsOwn == signaled # 0 => signaled = hp.gen /\ ~Alive

(* A start that did not succeed, and a session that is over, leave no helper      *)
(* running.                                                                       *)
NoHelperLeft == session.pc \in {"idle", "over"} => ~Alive

(* A helper that gave up never ends the game it took for its own child            *)
(* (StubTerminateProcess), whatever the state of its context.                     *)
GameSurvives == "TerminateProcess" \notin ghost.native

(* A start ends, armed or given up, whatever the helper does.                     *)
StartEnds == session.pc = "start" ~> session.pc \in {"armed", "over"}

(* An armed session gets its handshake, unless its helper ends, gives up or runs  *)
(* the real launch first, or the session is over.                                 *)
HandshakeArrives ==
  session.pc = "armed" ~> session.applied # 0 \/ ~Alive \/ main.gaveUp \/ session.pc # "armed"

(* The launch stays inside the helper, its events are about this session,   *)
(* and neither a helper is left behind nor the game ended.                  *)
BootSafe ==
  /\ BootTypeOK /\ LaunchStaysInside /\ NothingForgotten /\ InitIsOwn /\ ExitSignalIsOwn
  /\ NoHelperLeft /\ GameSurvives
================================================================================
