# InGameNetplay: TLA+ models, model-checking runs and proofs

This directory holds TLA+ specifications of the concurrent and protocol-carrying parts of
InGameNetplay, the mod that puts EfzRevival's netplay behind the menus of Eternal Fighter Zero.
Paths below are relative to the repository root; `PROJECT.json` maps the definitions to
their source lines (a helper whose lines lie inside another's entry goes with it).

Contents: 1 inventory, 2 modules, 3 runs, 4 fairness, 5 proofs, 6 findings, 7 what is left out,
8 plan, 9 running it.

## 1. Inventory

The mod is a DLL in the game process. To play, it starts EfzRevival as a separate *helper*
process, injects itself there too, and takes over the session: the helper owns the network and
the console prompts, the game keeps the screen, and the two talk through shared memory. Threads
of the game process are the game thread (frame hooks), one start worker, one address-discovery
thread with its request threads, the lobby's poll thread and other HTTP workers, a state-export
thread, the logger, and whatever thread a companion mod calls the exported functions on.

| Part | State it keeps | Operations | Talks to | What is hard |
|---|---|---|---|---|
| Session bridge (`src/netplay/bridge/session_bridge.cpp`, `session_start_state.h`) | `g_status`, `g_start`, worker handle, active host configuration | Initialize, StartSession, CancelSession, Tick, Shutdown, EmergencyShutdown, exit interception, recovery completion | takeover engine, menus, companion mods | results of a worker that runs for seconds outside the lock; join under the lock; detach |
| Takeover engine (`revival_takeover.cpp`) | helper process, init event, teardown epochs, exit interception | StartSession, Tick, CancelSession, ApplyInputDelay, prompts, VS-human hand-off, shutdown | shared block, Revival's memory | late results, teardown inside or outside the native tick |
| Helper launch and injection (`process_inject.cpp`, `dll_injection.cpp`, `iat_stubs.cpp`) | the suspended helper, its patched imports, bootstrap event | spawn, inject, patch, release, watch | helper | every step can fail; another copy of the game on the machine |
| Launcher guard, adoption (`external_launcher_guard.cpp`, `revival_launcher_probe.cpp`) | shared marker, blocked terminations, adopted session | install, activate, release, reap, probe, adopt, commit, quarantine | the external launcher | a block read after it was unmapped; a session that changes under the probe |
| Shared block and mailboxes (`ipc_shared.cpp`, `console_handoff_policy.h`) | listener observation, prompt, error and selection mailboxes | publish, clear, read, acknowledge | helper and game processes | two processes without a common lock; death in between |
| Protocol override (`ipc_shared.cpp`, `host_protocol_state.h`) | the INI's value, recovery marker, the editor's copy | prepare, write, verify, restore, recover, edit | the INI and the helper | a death or an error between two file operations |
| Console capture (`console_capture.cpp`) | lock-free ring, unfinished lines, loss generation | write, flush, stop, parse | helper's threads | a hook that must not block |
| Async hosting (`async_hosting.cpp`, `async_host_state.h`) | hosting state, listener startup, cooldown, origin, held peer | OnHostStarted, Tick, AutoRehost, RequestAccept, NotifyChallengeEnded, Reset | bridge, menu | timeouts racing results, retry, rehost |
| Menus and frame hooks (`title_flow.cpp`, `menu_hooks.cpp`) | overlays, pending discovery, pending challenge publication | the frame's handlers, user actions | bridge, async hosting, lobby | two debounces of one observation, order of handlers, leaving and re-entering |
| Frontend return, exit recovery (`frontend_return.cpp`, `gameplay_exit_recovery.cpp`) | continuation, watchdog, latched signals | claim, tick, force the title, complete | bridge, menus | order of screens and teardown, two mechanisms at once |
| Lobby client (`lobby_client.cpp`, `lobby_lifecycle.h`) | room, slot, registration, match phase, queue of actions | join, poll, challenge, accept, end, rejoin, leave | HTTP, menus | lost requests and answers, an end racing a repair |
| Rooms and lobby screens (`player_rooms_menu.cpp`) | request, list, selected slot, session | refresh, create, join, leave | lobby client | an answer for a screen that was left |
| HTTP (`lobby_client.cpp`, `tls_http_client.cpp`) | remembered back end, kept connections | get with fall-backs, cancel | servers | shared handles, repeated requests |
| Network discovery (`network_endpoint.cpp`, `network_capability.cpp`) | capability cache, public address | scan, discover, resolve | web services | a stale scan, a family that does not work |
| Overlay IPC (`interop/overlay_ipc.cpp`) | one mapped block with two rings | Attach, Detach, Push, Pop | game and helper | lock-free, index wrap, process death |
| Online custom colors (`overlay_channel.cpp`, `palette_store.cpp`, `palette_charselect.cpp`, `overlay_helper_hooks.cpp`) | handshake, sequence numbers, rows, shown row | Begin, Tick, OnInboundDatagram, SubmitLocalPaletteRow, flush, receive | overlay IPC, UDP | reordering, repetition, loss, left-overs of the previous match |
| Reset gate (`include/compat/overlay_reset_gate.h`, `hooks/debug_overlay.cpp`) | pending transaction, bound backend | BeforeReset, AfterReset, bind, render, suspend | display managers in other DLLs | stale transactions, epoch wrap, re-entry |
| State export (`netplay_state_export.cpp`, `training_handoff.inl`) | snapshot with sequence, worker, suspension | publish, suspend, drain, resume | companion mods | work in flight while a simulation starts |
| Logger (`logger.cpp`, `crash_handler.cpp`) | queue, file, crash latch | log, flush, reopen, report, detach | every thread | crash and detach in the middle of a write |
| Battle log (`battle_log_menu.cpp`) | sets and games, filter, cursor | read, filter, open, page | the log file | a cursor into a list that changed |
| Update check, connection check, settings, palettes, rendering | requests, INI values, textures | - | - | background workers, cancellation |

What would make each correct: the bridge must have one owner per start, never publish a
superseded result, never hang, and clean up what it cancelled; hosting must end in a listener or
a visible failure, retry at most once, never send a challenge for another listener, never leave
a listener nobody can reach; the rings must be queues for every interleaving and survive deaths;
the color exchange must show current rows only and stay silent to unmodded peers; the gate must
keep a device quiet during its reset without ever refusing the completion; mailboxes must never
yield a mixture of two announcements; the override must restore the user's setting exactly once;
a session must be torn down once and the user come back to the menu; the lobby must release
every match it began. `PROJECT.json` lists the places where these can go wrong under "hazards",
and every component, modelled or not, under "components".

## 2. Modules

| Module | Models | Theorems |
|---|---|---|
| `SessionStart` | the bridge's start worker, cancel, tick, shutdown, detach | `SessionProofs` |
| `HelperBoot` | spawn, injection, patched imports, release and exit watch of the helper | `SessionProofs` |
| `Adoption` | a game that starts with or without a Revival session in it | `SessionProofs` |
| `LauncherGuard` | the guard in the external launcher, its marker block and its reader | `SessionProofs` |
| `Hosting` | hosting from the menu's request to an accepted opponent: overlay, discovery, async_host, frame order, bridge seen from outside, helper, lobby challenge | `HostingProofs` |
| `HostProtocol` | the temporary override of the user's Protocol value | `HostProtocolProofs` |
| `ListenerMailbox` | the listener observation, one word at a time | `ConsoleProofs` |
| `ConsoleIngress` | the helper's lock-free console capture | `ConsoleProofs` |
| `Prompts` | delay and spectate questions between helper and game | `ConsoleProofs` |
| `ExitRecovery` | the end of a session on any screen | `ExitRecoveryProofs` |
| `Lobby` | one client's room, challenges and matches against the server | |
| `Rooms` | the rooms screens, their request threads, the session behind them | `MenuProofs` |
| `Transport` | an HTTP request over end points, back ends and kept connections | |
| `Reachability` | capability scan, address discovery, choice of an address | |
| `BattleLog` | the battle log's file, views, filters and cursor | |
| `FrameQueue` | abstract: a bounded queue whose two ends may each die at any time | |
| `OverlayRing` | Push and Pop, one shared-memory access per step; `Queue == INSTANCE FrameQueue` | `OverlayRingProofs` |
| `OverlayAttach` | Attach and Detach of the block by both processes | `MenuProofs` |
| `PaletteExchange` | two players' handshake and rows; rings as the queues `OverlayRing` implements | |
| `ResetGate` | the reset gate with its callbacks, backend and render scope | `ExportProofs` |
| `StateExport` | the exports, their worker, the suspension beside a simulation | `ExportProofs` |
| `Logger` | the queue, its writer, flushes, the crash report, detach | `ExportProofs` |

Six modules put several components in front of TLC: `MCSession` (SessionStart, Hosting, HelperBoot,
Adoption, LauncherGuard), `MCHosting` (Hosting, PaletteExchange, Transport, BattleLog),
`MCOverlay` (OverlayRing, Reachability), `MCMenus` (OverlayAttach, Rooms, HostProtocol,
PaletteExchange), `MCConsole` (ConsoleIngress, ListenerMailbox, Prompts), `MCExport` (ResetGate,
StateExport, Logger). In them `part` names the component a behaviour runs; the others stay in an
initial state. The components of one such module do not act on each other, so the state space is
the sum of theirs and nothing is lost or gained by the sharing. A component with theorems is
EXTENDed there, so that run and theorem speak of the same definitions (its own `Init`, `Next` and
`vars` carry its name where two of them meet); the others are instances. Where components do
interact, one models the other as it sees it: `Hosting` holds the bridge as its callers see it, and
its helper's announcements are the accepted observations of `ListenerMailbox`; `HostProtocol` takes
an announcement as one step for the same reason; `PaletteExchange` uses queues where `OverlayRing`
has rings, which `Refinement` justifies; `Lobby` sees a request as served or lost, `Transport` how
it was carried.

Definitions described as mutants or faulty variants are deliberately wrong forms of the
definition that follows them; nothing in `Next` uses them. They show that a property depends on
the code.

**SessionStart.** One action per critical section of `g_mutex`. A worker thread goes through
`takeover` (the call of `takeover::StartSession`, outside the lock), `started`/`failed`, the
publication under the lock, the cleanup outside it, and `finish`, which retires its ownership.
Requests are numbered by `generation` as in the code, so stale means `r # generation`. Workers of
several requests are alive at once only after EmergencyShutdown let one go (`detached`). The
takeover layer is reduced to `helper` (whose process is alive), `localInit` and the pending exit.

**HelperBoot** follows the worker's calls one by one, the helper's main thread through the stubs
that answer it, and the init event of the game; every call, and every stub, can fail. Both the
injected worker and the main thread bootstrap the helper, one at a time under a mutex. **Adoption**
has the init thread, the game thread and what Revival itself changes in native ticks.
**LauncherGuard** has the game's reader of the marker block, the takeover's control operations, and
the launcher.

**Hosting.** The game thread runs one handler at a time; `pc` is the next one in the frame's
order (bridge Tick, async_host Tick, discovery pump, listener observation, ended challenge, menu
flow or background tick, title poll). Each handler has one action per way through it. In between,
the start worker, the discovery thread, the helper, a companion mod's cancel, the two clocks and
the room take steps. Milliseconds are flags (`listener.waited`, `ovWait`); a stabilising serial
may or may not settle in a frame, separately for async_host and for the overlay, since each reads
its own tick. The request and start a challenge belongs to are history (`attempt`, `startedFor`,
`sent`).

**HostProtocol.** A session's file operations form a list; each operation is a step that can
fail, the game can die before any of them, and another program may edit the INI.
**ListenerMailbox.** The publisher makes the serial odd, writes three words, makes it even; the
reader takes the words between two equal even serials; the game's Clear is outside that protocol.
**ConsoleIngress.** Writers claim, stamp and publish a slot in separate steps; flush pauses the
writers and waits for its entry; stop drains and joins. **Prompts.** Pairs (serial, served) for
questions, answers and wake-ups, each advanced by two processes.

**ExitRecovery.** `pc` says whether the game is between frames, inside the native tick or in the
mod's control path after it; screen updates run inside the tick or between frames; signals arrive
at any time; wall-clock limits are a choice (`late`), and so is how the request for a native exit
goes (`Asks`: whole, with the graphics patches not restored, or refused). A failed start of a
spectator is a step of its own (`TickFailsSpectator`), because it tears down wherever Tick runs.
**Lobby.** Menu thread, poll thread and server; a request or its answer may be lost. What the poll
thread does about a registration the server has forgotten is three steps, as in the code: it
judges what is pending, empties the room under the mutex, and only then resets the phase.
**Rooms.** The UI thread, a refresh, an action and a
closing thread; answers carry a generation.

**OverlayRing, OverlayAttach.** Push is the slot's bytes, its length, the release store of the
index; Pop is index, length, bytes, index. Indexes wrap at `Slots * Laps` (64 slots and 2^26 laps
make the 2^32 of the code) and are masked at each use. Either process may die between any two
accesses. `OverlayAttach` has the mapping's holders (it disappears with the last one), zeroing,
the two stamps and the joiner's retries, each as a step. **PaletteExchange.** Each player has a
game and a helper; datagrams are records of which any may be delivered, and with faults lost or
repeated. **ResetGate.** The gate is a try-lock: callbacks and suspension are single steps that
need it free, a render holds it from `RenderBegin` to `RenderEnd`. **StateExport** and
**Logger** have a step per critical section of their mutexes and per loop of their workers. The
exporter's clients are the game thread and a companion's thread that calls the exported functions
at any time; `alone` is history, true until that thread first starts a session.

## 3. Runs

Every passing run of a composite checks, per component, one invariant that is the conjunction of
its type invariant and its named safety properties, plus step and temporal properties.

| Run | Bounds | Shows |
|---|---|---|
| `session` | 4 generations; hosting 2 starts of one request, no outside cancels; 2 helper starts with a stray helper of another game; 2 session objects, 1 poll, 2 failures; 2 blocked terminations, 2 control operations | `StartSafe`, `PublishedPidIsLiveHelper`, `StaleNeverPublished`, `InitOnlyForObservedHelper`; `BootSafe`, `AdoptionSafe`, `GuardSafe`; `SessionLive`: every start retires, Shutdown ends, hosting resolves, adoption and guard end |
| `hosting` | 3 starts, 2 requests, 1 serial per helper, cooldown 1, outside cancels; colors: 2 rounds, one-slot rings, 1 fault, the setting switched; 10 HTTP settings, 2 requests; 3 log files, drafts of at most 2 fields set and 2 edited | `HostingSafe`, `OneFamilyRetry`, `ColorsSafe`, `TransportSafe`, `BattleLogSafe` |
| `overlay` | 4 slots, 2 laps, frames f1, f2 and an oversized one; 3 networks, 1 change of network, 3 candidates | `RingSafe`, `RefinesQueue`; `ReachabilitySafe`, `DiscoveryEnds` |
| `menus` | 3 retries of a joiner; 3 rooms, 2 slots; Protocol override: 2 sessions, 1 announcement, 2 failures, edits or deaths; colors: 1 round, 1 change of selection, reordering, no loss | `AttachSafe`, `RoomsSafe`, `PreferenceSafe`, `EditorShowsPreference`, `RowsShown`, `MenusLive`: among others, an override is taken back |
| `console` | 2 threads, 2 slots, lines of 3 chunks, 4 calls; 2 helpers, 2 announcements; 4 roles, 2 questions | `ConsoleSafe`, `MailboxSafe`, `PromptsSafe`, `ConsoleLive` |
| `export` | 2 devices, 2 threads, 6 epochs; 3 operations of the game's thread and a companion's together, 1 heartbeat; queue of 2, 3 lines, 2 reopenings | `GateSafe`, `OnlyTargetInvalidated`; `ExportSafe`, `NothingGoesBack`; `LoggerSafe`; `WaitsEnd` |
| `exit_recovery` | a grace of 1 tick, the return key pressed | `ExitSafe`, `LossReachesMenu` |
| `lobby` | 2 joins, 2 failing polls, 1 lost request or answer, 2 starts | `LobbySafe`, `EndIsReleased`, `StopEnds` |
| `start_cancel_window` | 4 generations | **violated**: a cancelled start cleans up its helper |
| `hosting_title_rehost` | 2 starts, 1 request | **violated**: an automatic rehost is not cancelled |
| `exit_return_key` | as `exit_recovery` | **violated**: cancelling ends the hosting and its helper |
| `exit_spectator_start` | as `exit_recovery` | **violated**: no teardown destroys the session inside the native tick |

Why the bounds are enough. *Session*: four generations allow a start, its cancel, a second
start and its cancel or shutdown, so an old worker meets every kind of newer request; a fifth
adds no relation between "mine", "the owner's" and "newer" (and the proof has no bound). Two
helper starts let a left-over of the first meet the second. *Hosting*: three starts are an
initial start, its family retry, and one more (a rehost, or the next request's); with two
requests a left-over of the first can meet the second; a serial matters only as new or already
seen. *Overlay*: four slots hold full (three), empty and both ends in the middle; two laps reach
the wrap. *Colors*: two rounds are what a left-over needs; one-slot rings make refusals frequent;
the liveness run has room in its rings so that a refused frame is not the reason for a miss.
*Console*: two slots and two writers fill, contend for and wrap the ring; two helpers are what a
late publication of a killed one needs. *Reset gate*: three epochs on each side of the wrap.
*Host protocol*: two failures or deaths are a failed restore and a failed recovery from it; one
announcement, of the own listener or another's, is what an acknowledgement can mistake (the
proof has no bound).
*Lobby*: one loss can hit each of the requests, a second join meets what the first left behind.

Deadlock is checked in `exit_recovery`, which never stops. Everywhere else a bound (generations,
starts, joins, lines, operations) stops behaviours, and so may a finished exchange, attachment,
request or shutdown, so the configurations say CHECK_DEADLOCK FALSE; what must not stop is stated
as a temporal property instead.

In the liveness part of hosting, `ExternalCancels` is FALSE. When a companion mod cancels the
session while async_host waits for its first listener, the phase becomes Idle, and the time limit
in async_host's Tick applies only to other phases, so the overlay keeps waiting until the player
leaves it. No document promises otherwise. The safety run includes those cancels. `RowsShown` has
no loss: a row is sent once, in an unacknowledged datagram; with `MaxFaults = 1` TLC shows that a
lost row is missing until the selection changes.

## 4. Fairness

Threads and frames that the code keeps running get weak fairness. Strong fairness appears only
where a step is not enabled in every state because its actor alternates with others, and is
named below. Nothing is assumed of players, callers, peers, the helper's answers or the room.

- *SessionStart*: a created worker runs, `takeover::StartSession` is bounded by its own time
  limits, and Shutdown's thread only waits for the worker.
- *HelperBoot, Adoption, LauncherGuard*: worker, init thread, frames, the injected thread and the
  holder of the takeover's mutex go on. The launcher need not.
- *Hosting*: frames, start worker and discovery thread run; the two waits elapse. Strong: the
  overlay's debounce settles, since a serial that stays is debounced after 100 ms of frames
  while frames alternate handlers.
- *HostProtocol*: file operations and the launch go on. Strong: `TickRestores`, whose mutex the
  options screen also takes.
- *ConsoleIngress*: the worker and a writer inside the hook run. Strong: a flush and a stop, which
  wait on a condition for the mutex.
- *Prompts*: the BEL follows the line it belongs to; capture thread, reader and tick go on.
- *ExitRecovery*: frames and the exit watch go on. Strong: title handlers, the control path after
  its time limits, and screen updates, each of which waits for its turn in a frame.
- *Lobby, Rooms, Reachability*: every request ends (they have timeouts); poll thread, frames and
  request threads go on. The menu's frames need the window's focus (`title_flow.cpp:6358`), so what
  waits for the menu is stated of a player who looks at it.
- *OverlayAttach*: a thread inside Attach keeps running; `Sleep(1)` returns.
- *PaletteExchange*: frames are rendered during a character select, intervals elapse, Revival
  keeps sending (each send flushes the ring), and a datagram that is not lost arrives. That both
  players stay on their portraits is a premise of the property.
- *StateExport, Logger*: the worker is scheduled, and so is a thread inside the exporter or a
  flush.

OverlayRing, ListenerMailbox, ResetGate, Transport and BattleLog have safety and refinement only.
The violation runs check invariants and need none.

## 5. What is proved

With TLAPS, for every value of the constants that satisfies the named assumptions, which are as
weak as given here.

| Theorems | Constants | State |
|---|---|---|
| `StartSafety`, `PublishedPid`, `InitForObserved`, `StaleStaysStale` | `MaxGeneration` positive | `StartSafe`, `PublishedPidIsLiveHelper`, and the step properties `InitOnlyForObservedHelper`, `StaleNeverPublished` |
| `BootSafety` | any number of sessions, with or without another copy of the mod | `BootSafe` |
| `AdoptionSafety` | any number of session objects, rounds of the probe and failures of the cleanup | `AdoptionSafe` |
| `GuardSafety` | any number of blocked terminations and control operations | `GuardSafe` |
| `PreferenceSafety`, `EditorTruth` | any values of the INI, any bounds | `PreferenceSafe`, `EditorShowsPreference` |
| `ConsoleSafety` | any threads, any line, at least two slots | `ConsoleSafe` |
| `MailboxSafety` | any families and ports, any number of helpers and announcements | `MailboxSafe` |
| `PromptsSafety` | any number of delay questions, any roles | `PromptsSafe` |
| `ExitSafety`, `ReturnNotLost` | any grace of the watchdog, with or without the return key | `ExitSafe`, and the step property `ReturnKept` |
| `HostingSafety`, `AtMostOneRetry` | any numbers of requests, starts and serials, any cooldown, with or without outside cancels | `HostingSafe`, `OneFamilyRetry` |
| `RingSafety`, `Refinement` | at least two slots, any number of laps, any frames | `RingSafe`, `RefinesQueue` |
| `AttachSafety` | any bound on the retries | `AttachSafe` |
| `RoomsSafety` | lists of any length, any positive number of slots on the screen | `RoomsSafe` |
| `GateSafety`, `OthersUntouched` | any devices and threads, any epoch width from 2 up | `GateSafe`, `OnlyTargetInvalidated` |
| `ExportSafety`, `NothingPublishedGoesBack` | any numbers of operations and heartbeats, a companion's thread included (what ends when it starts a session: below) | `ExportSafe`, and the step properties `SeqAdvances`, `NothingOlder`, `ScoreHolds` of `NothingGoesBack` |
| `LoggerSafety`, `LinesKept` | any positive queue, any numbers of lines, reopenings and sessions, any threads that may crash | `LoggerSafe`, and the step property `KeepsItsLines` of `NothingGoesBack` |

So every safety and step property of these sixteen components that a run checks is also proved.
What made the invariants inductive:

**SessionStart.** `OwnershipFollowsWorker` and `JoinNeverBlocks` are not inductive: a new request
must be known to have no worker yet, and the joinable handle of a running start to be its
owner's. `IInv` adds `FreshRequests` and `HandleIsOwner`. The published pid needs more: while a
start is inside the takeover no pid is shown, after it only its own helper can be alive besides
those of detached workers (`HelperInv`). For the init, the second half of a tick must know that no
start of the generation it saw has come in between (`TickInv`). Flags and counters need different
provers, so the type invariant is proved in two halves.

**HelperBoot.** What has happened to a helper depends on how far the worker's calls are, so the
invariant counts them: per step of the launch, the calls so far (`CallsCounted`), how far the start
has prepared the helper (`Prepares`), and what its stubs know of that (`Known`). A released helper
is one that reported ready (`ReadyIsOver`), the mutex belongs to whichever of the injected worker
and the main thread bootstraps (`BootHeld`), and the init event and the exit watch are those of the
helper at hand (`EventIsOwn`, `WatchIsOwn`). The readiness of another copy is the exception, as in
the code.

**Adoption.** The admitted session is committed as it was last seen because nothing runs in
between: an attachment is pending exactly from its staging to its decision (`StagedIsPending`),
under the tick hook a game with a pending attachment parks before any native tick (`FrameInv`),
and what the last look saw holds until it goes on (`Untouched`). What the mod holds is known at
each stage before the hooks (`Begun`), so a failure there leaves nothing behind (`LeftClean`). The
recovery and the cleanup only run after the decision.

**LauncherGuard.** That no thread reads an unmapped view needs an exact count of the threads in
it (`CountIsExact`), and the view to be mapped while the
guard is in use or being taken down, and after that exactly as long as its bundle is kept for
later (`ViewIsOwned`).
The marker is taken down before the view is given up (`OffWhenTaken`), and a guard in effect has
its patch in place (`ActiveIsPatched`).

**ExitRecovery.** The code stands back from its old teardown while any of four latches is set,
and `IInv` says why that is right: a latch that F1 did not set, or an earlier session, means that
the session is over completely (`LatchedIsOver`); a return is owned by the recovery that waits for
it, or by the return key, which works outside the menu only (`OwnerKnown`); a cancel put off until
the tick has returned finds no latch set (`DeferredInTick`). That no teardown runs inside the tick
is claimed of cancels, deferred cleanups and recoveries, each of which asks where it is; the failed
start of a spectator does not ask and is finding 4.

**Hosting.** Its fifty actions are proved one by one over three groups of variables, with lemmas
for the operators they share (cancel, start, reset, hide, show a failure). `Pending`: a challenge
that waits to be sent was set with the start it waits for, and no discovery is under way beside
it, so no other start can come between. `Budget`: what overlay and task remember of a retry bounds
the starts that can still follow. `Accounted`: a connecting session that async_host does not
track, or will not after its next tick (`Accepted`), is on the menu's screen and not minimized;
`NoOrphanListener` alone would break on leaving the menu with a session handed over.

**HostProtocol.** What may be lost depends on which file operation comes next. The invariant
says, for each operation at the head of the list, what the one before it established (for
`unmark`: the INI already holds the user's value), and `Linked` says which operation may follow
which. Failures and deaths then cost nothing: they shorten the list to one that is linked again.

**ConsoleIngress.** `RingInv` says what every position of the ring's window holds and whose it
is, `TextInv` that a thread's next unread record continues its unfinished line or carries a later
loss generation, `FlushInv` that the entry of a flush lies behind every record of its thread. A
ring of one slot is excluded by assumption: there a published record would look like a free slot.
The code has 256 (`console_capture.cpp:1283`).

**ListenerMailbox.** The words are written and read one by one, so no step alone shows why an
accepted observation is an announcement. While the game has not cleared the mailbox of a live
helper (`Kept`), its serial counts the increments so far and each word is of the last
announcement or the one before (`Exact`). A cleared mailbox of a live helper is never read again
(`Places`). A reader that began with an even serial has read what still stands there, as long as
the serial is the same (`Reading`).

**Prompts.** Four serials are moved by two processes and read apart from each other. A delay
question is in one place, a printed line, the line being published or an open serial, and the
helper asks nothing while it is (`DelayPlaces`); so questions and answers advance in turn and a
queued answer belongs to the open question (`AnswersPaired`), and the overlay, whose apply spans
several steps, queues one answer per question (`OverlayPlaces`). Every wake follows a line
(`WakesCounted`); the timeout keeps the number of one that is not earlier than its own
(`TimeoutPlaces`), so the wake that opened the question does not release it.

**OverlayRing.** Masking turns wrapping indexes into slots that advance by one (`ModUnique`,
`MaskInc`), the number of waiting slots is a distance on a circle (`SlotsBetween`), and `RingInv`
says that waiting slots are whole, that the writer fills the slot behind them and that the
reader copies the first of them. `Refinement`: initial states map to initial states, each step
to a step of `FrameQueue` or to a stutter.

**OverlayAttach.** That an attached process sees a stamped block rests on who may still stamp
it: a mapping has at most one creator among its holders, and the block of a creator that has not
finished carries no version stamp.

**Rooms.** Handlers change a dozen fields at once, so the state is taken as one record and each
handler's result is shown to satisfy the invariant's parts. That a room is entered only when none
is being left rests on two facts about the screen: while a session closes behind it, it waits, so
no join begins (`WaitAt`), and a join under way keeps the user on it, so nothing is closed before
its answer was taken (`ActAt`). The cursor needs that the visible slots fit and that a list taken
is the newest one asked for. What `NoListOfLeftRoom` says of lists is about a room left for the
rooms screen: until the refresh owed for it is asked for, no list on its way is shown, and none is
asked for while a session is being closed. A room left through the stop-hosting answer
(`title_flow.cpp:1792-1825`, 5490-5524) drops no request and owes no refresh: a list asked for
before may be shown on the next visit (`player_rooms_menu.cpp:887-902`) until that visit's own.

**ResetGate.** `GateInv` ties what callers were told to the gate's transaction (`PendingInv`),
the binding to the context (`BoundInv`, `ObjectsInv`), and the render holding the gate to a
device that is not being reset (`DrawingInv`).

**StateExport.** Every thread inside the exporter is at some place of a handler, and the
invariant counts what is still to come: updates in flight per thread (`InFlightCounts`), who holds
the lock and what is left to do at each place (`Place`), the mode there (`Modes`). Once drained,
nothing is written, a handoff that found the exports suspended included (`QuietInv`), and a
simulation's suspension is nobody's to end (`SimInv`). That nothing older is published rests on
the stamps: one on its way is newer than the published status and older than the queued one
(`Stamps`), and an operation uses at most two (`Budget`). The book holds the newest session and
the highest score (`Scores`). A companion may start sessions from a
thread of its own (`dllmain.cpp:199-207` says nothing of threads), and neither run nor theorems
exclude it: that numbers advance and that an end is published with its reason hold with its thread
at work. The other four claims are of the time before its first start (`alone`), because there they
end in the code: a companion's handoff that began before the simulation's suspension resumes the
exports inside the simulation, after which the worker reads the game's memory beside it; and the
boundary a companion publishes overtakes a reading the worker took earlier, whose older status and
lower score are then published after it. With the condition dropped TLC finds all four, two of them
with five operations instead of the run's three.

**Logger.** Every line ever logged is in exactly one of six places, from the writer's hands to the
file or the counted losses (`AllPlaced`, `Apart`), and each thread's lines are in order in each of
them (`HandsInOrder`, `WrittenInOrder`, `Kept`). One reporter at a time holds the crash mutex. What
may still be in hand when the detach closes the file is known by place (`WriterEnds`).

Only model-checked: all liveness properties (the prover does no reasoning about fairness and
ENABLED), and the safety of the five components without a proof module (`Lobby`,
`Transport`, `Reachability`, `BattleLog`, `PaletteExchange`). Among these,
`Transport`, `BattleLog` and `Reachability` compute with sequences (folds and selections of the
library), whose meaning for every input needs induction that the installed provers do not offer.

## 6. Findings

Each is a run that is expected to be violated; TLC prints the behaviour.

1. `start_cancel_window`: CancelSession between the worker's publication and its retirement is
   acknowledged, but the helper of the cancelled start stays alive
   (`session_bridge.cpp:1241`, against `docs/HOW_IT_WORKS.md:112`).
2. `hosting_title_rehost`: every title frame's exit poll invalidates the running start, an
   automatic rehost included, and hosting ends (`session_bridge.cpp:1270`, against
   `README.md:222`).
3. `exit_return_key`: after F1 brought the user back to the panel, the return's latch suppresses
   the teardown of the session that still runs, so cancelling leaves the helper alive
   (`frontend_return.cpp:1474`, against `session_lifecycle.cpp:51` and `src/README.md:228`).

4. `exit_spectator_start`: when a spectator's helper ends between local init and handoff, or
   1.02j's spectator post-init fails, Tick re-initialises local play on the spot, also inside the
   native tick (`revival_takeover.cpp:4896` and 5399, against the comment at line 5748).

Also seen while modelling, without a run of their own:

- a refused rehost logs "retry after cooldown", but the next Tick gives up
  (`async_hosting.cpp:218`, 406-419);
- async_host leaves a first family mismatch to the overlay's retry, but if the overlay's debounce
  settles one frame later, the next Tick fails the listener and no retry happens
  (`async_hosting.cpp:365-390`);
- a joiner that looks between the block's two stamps gives up instead of waiting
  (`overlay_ipc.cpp:74`, against the comment at line 64);
- a repair that queues its own End while the menu queues one sends two
  (`lobby_client.cpp:3108-3170`, `docs/HOW_IT_WORKS.md:690`); `crossed` marks it in `Lobby`;
- when the server has forgotten the registration, a challenge or acceptance begun between the
  judgement of what is pending and the reset of the phase is wiped without its flag; one queued
  after the room was emptied is sent although its match is gone (`lobby_client.cpp:2755`), also
  marked by `crossed`;
- `efz_netplay_state.h:148` says the reason of an end latches until the next session starts, but the
  boundary a training handoff publishes clears it (`netplay_state_snapshot.h:47`); `EndIsReported`
  therefore speaks of the other publications;
- the branch for a family that became unavailable (`title_flow.cpp:2906-2935`) is dead: no start
  answers `FamilyUnavailable`;
- a boundary update can be read while a training mod is being asked to let go
  (`training_handoff.inl:35`, `docs/HOW_IT_WORKS.md:510`).

## 7. What is not modelled

Byte-level work (frame encoding, STUN, TLS records, address parsing), drawing, fonts, text and
translations, replay browsing, the patches of EfzRevival's closed binary, crash dumps, and
diagnostic counters that nothing reads. `PROJECT.json` gives the reason for each component left
out. Within the modelled ones:

- *SessionStart*: input delay and the VS-human hand-off. *Hosting*: joining and spectating.
- *HelperBoot*: Revival's own launch sequence is external, known from the stubs that serve it;
  TerminateProcess works at once. *Adoption*: a snapshot torn between its two readings is a failed
  read; `gen` stands for pointer, vtable and helper together; the emergency handler is an exception
  exit; of the cleanup after a tournament only what an attachment that failed needs is modelled,
  not the arms that belong to the tournament's own end. *LauncherGuard*: one installation per
  process; control operations hold the takeover's mutex; a detach with that mutex held by a killed
  thread is out.
- *ListenerMailbox*: a kill is immediate, a start happens with no helper alive, the serial does
  not wrap. *HostProtocol*: edits fall between operations; typing the temporary value during an
  override cannot be told from the override; a second game's helper publishing into the
  machine-wide block is out.
- *ConsoleIngress*: no restart of the capture in one process. *Prompts*: every delay prompt line
  is followed by one BEL (`tests/console_handoff_contract_tests.cpp:213`); the fall-back for a
  failed wake snapshot is out; Tick is one step.
- *ExitRecovery*: screens 4 and 6-8, the tournament role, the external launcher, the local
  process close, and the failure of a memory write. `late` means that a timer expired and the
  forced title succeeded. `ghost.stale` sets aside what a return's left-over latch does
  (finding 3 and its relatives at `menu_hooks.cpp:251` and `revival_memory.cpp:9069`).
- *Lobby*: a stop before the thread's first look leaves the registration of the join that
  preceded it, and so does a lost answer to a join; a lost pre-accept is not followed by an End;
  the reset of the lifecycle's atomics and the cleared strings that follow (2482-2497) are one step.
  *Rooms*: a request left in phase Running without a thread (`player_rooms_menu.cpp:364`) is set
  aside as `Stuck`. *Transport*: the settings are read as a whole; error pages count as bodies.
- *PaletteExchange*: spectators, the loopback and socket transports, the helper's table of
  outstanding receives. A round begins with the helpers' rings and the network drained, since a
  match lies between two of them, and a selection is left only when both rows are staged.
- *StateExport*: the update on the caller's thread when the worker could not be made
  (`netplay_state_export.cpp:299-306`); one derivation is one step; coalesced Connecting keeps the
  old session's end. *Logger*: the one-shot exception recovery, a crash inside the logger, killed
  threads at detach. *BattleLog*: durations, rates and favourite characters are left out; what a
  left view kept is forgotten.

`PROJECT.json` lists forty hazards. More were found while modelling (about a hundred); those kept
are the ones where the consequence is largest, and those marked without a property are real
behaviours of the code which no document rules out, each with its note.

## 8. Plan

1. The next proofs: `Lobby`, first type correctness and the safety parts that need no sequences,
   then `PaletteExchange`.
2. **ConnectionCheck**: the client's cancellation and the service's rate limits.

## 9. Running it

    tlc -workers 2 -config MCSession.cfg MCSession
    tlapm SessionProofs.tla

and likewise for the other pairs in `PROJECT.json`. A run takes two to four minutes on two
workers, a proof module between a few seconds and a few minutes.
