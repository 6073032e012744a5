-------------------------------- MODULE Prompts --------------------------------
(***************************************************************************)
(* The questions Revival's helper asks on its console, and their answers.  *)
(*                                                                         *)
(* The helper is a console program.  Its console reads are answered by a   *)
(* hook from a block it shares with the game; what it prints is parsed by  *)
(* a capture thread, which publishes a question as a serial in that block; *)
(* the game shows an overlay and queues the answer.  Each pair (serial,    *)
(* served) is advanced by two processes with no lock between them.  The    *)
(* helper also wakes its own reader with a BEL record, which the hook      *)
(* turns into a third pair: a question is not over, and the session may    *)
(* not be torn down, until the reader was freed by the right wake.         *)
(*                                                                         *)
(* The frame tick of the takeover (Tick) turns all this into the phase.    *)
(***************************************************************************)
EXTENDS Integers, Sequences, FiniteSets

CONSTANTS
  Roles,          \* the roles a session may be started with
  MaxAsk          \* how often the helper asks for the delay in a session

ASSUME PromptsAssumption == MaxAsk \in Nat

(* What the helper does by itself (not in src/): after the menu a reader   *)
(* is parked; the helper prints a question and then writes one BEL ("binds *)
(* the immediately following BEL", tests/console_handoff_contract_tests);  *)
(* it asks again only after it has read an answer.                         *)
Stages == {"menu", "waiting", "delay", "spectate", "answered", "timedout", "over"}
Live == {"Connecting", "DelaySetup", "Connected"}
Phases == Live \cup {"Failed", "SessionEnded", "Idle"}

VARIABLES
  role,      \* the role of the session
  phase,     \* NetbridgeStatus.phase
  console,   \* the helper: alive, its stage, a BEL it owes, questions left
  lines,     \* console lines not yet parsed, with the wake snapshot of each
  cap,       \* the line the capture thread is publishing
  menu,      \* the scripted menu choice has been served
  wake,      \* consoleControlWake{Request,Served}Serial
  dp,        \* the delay prompt: serial, served, metrics serial and range
  di,        \* the delay input: serial, served, value
  timeout,   \* nativeDelayTimeout{,RequiredWake,Handled}Serial and the
             \* prompt's transition wake
  sp,        \* the spectate prompt: serial, served, kind
  si,        \* the spectate input: serial, served, value
  err,       \* consoleErrorSerial is not 0
  rd,        \* the helper's console reader, inside the hook
  ui,        \* the two overlays and what they have submitted
  app,       \* ApplyInputDelay, between its reads of the block
  init,      \* the init handshake: event, retirement, applied, post-init
  ghost      \* for the properties: prompt of the queued answer, answers
             \* delivered, the wake that follows the timeout line

promptVars == <<role, phase, console, lines, cap, menu, wake, dp, di, timeout, sp, si, err,
          rd, ui, app, init, ghost>>
block == <<menu, wake, dp, di, timeout, sp, si, err>>
gameSide == <<phase, ui, app, init>>

Online == role \in {"host", "join", "joinspectate"}
Terminated == err \/ timeout.serial > timeout.handled       \* IsDelayPromptTerminated

(* The native range of the n-th prompt, in frames. *)
RangeOf(n) == n .. n + 1

NoPair == [req |-> 0, served |-> 0]
NoDelayPrompt == [serial |-> 0, served |-> 0, metrics |-> 0, range |-> 0]
NoInput == [serial |-> 0, served |-> 0, val |-> -1]
NoTimeout == [serial |-> 0, required |-> 0, handled |-> 0, trans |-> 0]
NoSpectate == [serial |-> 0, served |-> 0, kind |-> "none"]
NoUi == [delay |-> "off", prompt |-> 0, spectate |-> FALSE, sent |-> FALSE]
NoApply == [prompt |-> 0, val |-> 0, range |-> 0]
NoLine == [what |-> "idle", n |-> 0, required |-> 0]
Out == [at |-> "out", prompt |-> 0, input |-> 0]

PromptsInit ==
  /\ role \in Roles
  /\ phase = "Connecting"
  /\ console = [alive |-> TRUE, stage |-> "menu", owes |-> FALSE, asks |-> MaxAsk, bound |-> FALSE]
  /\ lines = <<>> /\ cap = NoLine
  /\ menu = FALSE /\ wake = NoPair /\ err = FALSE
  /\ dp = NoDelayPrompt /\ di = NoInput /\ timeout = NoTimeout
  /\ sp = NoSpectate /\ si = NoInput
  /\ rd = Out /\ ui = NoUi /\ app = NoApply
  /\ init = [event |-> FALSE, retired |-> FALSE, applied |-> FALSE, post |-> "NotAttempted"]
  /\ ghost = [for |-> 0, got |-> {}, dup |-> FALSE, wake |-> 0]

---------------------------------------------------------------------------
(* The helper's main thread (not in src/). *)

\* CaptureControlWakeRequestSerialSnapshot, when the line is written.
Emit(k) == lines' = Append(lines, [k |-> k, snap |-> wake.req])

PrintsDelayPrompt ==
  /\ console.alive /\ Online /\ console.asks > 0 /\ ~console.owes
  /\ console.stage \in {"waiting", "answered"} /\ ~console.bound
  /\ Emit("delay")
  /\ console' = [console EXCEPT !.stage = "delay", !.asks = @ - 1, !.owes = TRUE]
  /\ UNCHANGED <<role, gameSide, cap, block, rd, ghost>>

PrintsSpectatePrompt ==
  /\ console.alive /\ role # "host" /\ console.stage = "waiting" /\ sp.serial = 0 /\ ~console.owes
  /\ ~\E i \in DOMAIN lines : lines[i].k \in {"already", "notyet"}
  /\ cap = NoLine
  /\ Emit(IF role = "spectate" THEN "notyet" ELSE "already")
  /\ console' = [console EXCEPT !.stage = "spectate", !.owes = Online]
  /\ UNCHANGED <<role, gameSide, cap, block, rd, ghost>>

PrintsTimeout ==
  /\ console.alive /\ console.stage = "delay" /\ ~console.owes
  /\ Emit("timeout")
  /\ console' = [console EXCEPT !.stage = "timedout", !.owes = TRUE]
  /\ ghost' = [ghost EXCEPT !.wake = wake.req + 1]
  /\ UNCHANGED <<role, gameSide, cap, block, rd>>

PrintsError ==
  /\ console.alive /\ console.stage \in {"waiting", "answered"} /\ ~console.owes
  /\ Emit("error")
  /\ console' = [console EXCEPT !.stage = "over"]
  /\ UNCHANGED <<role, gameSide, cap, block, rd, ghost>>

\* The answer is in: the session is bound to the helper, or synchronised.
Binds ==
  /\ console.alive /\ console.stage = "answered" /\ ~console.bound
  /\ console' = [console EXCEPT !.bound = TRUE]
  /\ UNCHANGED <<role, gameSide, lines, cap, block, rd, ghost>>

AsksForInit ==
  /\ console.alive /\ menu /\ ~init.event /\ ~init.applied
  /\ init' = [init EXCEPT !.event = TRUE]
  /\ UNCHANGED <<role, phase, console, lines, cap, block, rd, ui, app, ghost>>

HelperDies ==
  /\ console.alive
  /\ console' = [console EXCEPT !.alive = FALSE]
  /\ lines' = <<>> /\ cap' = NoLine /\ rd' = Out
  /\ UNCHANGED <<role, gameSide, block, ghost>>

(* StubWriteConsoleInputA: an exact BEL record of a session whose reads    *)
(* are answered becomes a request; any other goes to the real console.     *)
ControlWakeSession == role = "host" \/ dp.serial > 0 \/ (Online /\ menu)

WritesWake ==
  /\ console.alive /\ console.owes
  /\ wake' = IF ControlWakeSession THEN [wake EXCEPT !.req = @ + 1] ELSE wake
  /\ console' = [console EXCEPT !.owes = FALSE]
  /\ UNCHANGED <<role, gameSide, lines, cap, menu, dp, di, timeout, sp, si, err, rd, ghost>>

(* StubFlushConsoleInputBuffer, by the main thread once the old reader has *)
(* been joined: every wake requested so far counts as served.              *)
FlushesInput ==
  /\ console.alive /\ rd = Out /\ ControlWakeSession /\ wake.served < wake.req
  /\ wake' = [wake EXCEPT !.served = wake.req]
  /\ UNCHANGED <<role, gameSide, console, lines, cap, menu, dp, di, timeout, sp, si, err, rd,
                 ghost>>

---------------------------------------------------------------------------
(* The capture thread: NoteConsolePromptLine for one line after another.   *)

\* A line is taken; a delay prompt after the end of the prompt is dropped.
TakeLine ==
  /\ console.alive /\ cap = NoLine /\ lines # <<>>
  /\ LET l == Head(lines) IN
       cap' = IF l.k = "delay" /\ Terminated THEN NoLine
              ELSE [what |-> l.k, n |-> l.snap, required |-> 0]
  /\ lines' = Tail(lines)
  /\ UNCHANGED <<role, gameSide, console, block, rd, ghost>>

(* PublishDelayPromptMetrics: serial 0, the range, the serial; then        *)
(* PublishDelayPromptSerial: the wake that frees the parked reader, and    *)
(* the prompt's serial.                                                    *)
PublishMetrics ==
  /\ cap.what = "delay"
  /\ dp' = [dp EXCEPT !.metrics = 0]
  /\ cap' = [cap EXCEPT !.what = "range"]
  /\ UNCHANGED <<role, gameSide, console, lines, menu, wake, di, timeout, sp, si, err, rd, ghost>>

PublishRange ==
  /\ cap.what = "range"
  /\ dp' = [dp EXCEPT !.range = dp.serial + 1]
  /\ cap' = [cap EXCEPT !.what = "serial"]
  /\ UNCHANGED <<role, gameSide, console, lines, menu, wake, di, timeout, sp, si, err, rd, ghost>>

PublishMetricsSerial ==
  /\ cap.what = "serial"
  /\ dp' = [dp EXCEPT !.metrics = dp.serial + 1]
  /\ cap' = [cap EXCEPT !.what = "prompt"]
  /\ UNCHANGED <<role, gameSide, console, lines, menu, wake, di, timeout, sp, si, err, rd, ghost>>

SelectPromptTransitionWakeSerial(snap) == snap + 1

PublishDelayPromptSerial ==
  /\ cap.what = "prompt"
  /\ timeout' = [timeout EXCEPT !.trans = SelectPromptTransitionWakeSerial(cap.n)]
  /\ dp' = [dp EXCEPT !.serial = @ + 1]
  /\ cap' = NoLine
  /\ UNCHANGED <<role, gameSide, console, lines, menu, wake, di, sp, si, err, rd, ghost>>

PublishSpectateConfirmPrompt ==
  /\ cap.what \in {"already", "notyet"}
  /\ sp' = [sp EXCEPT !.serial = @ + 1, !.kind = cap.what]
  /\ cap' = NoLine
  /\ UNCHANGED <<role, gameSide, console, lines, menu, wake, dp, di, timeout, si, err, rd, ghost>>

PublishConsoleError ==
  /\ cap.what = "error"
  /\ err' = TRUE
  /\ cap' = NoLine
  /\ UNCHANGED <<role, gameSide, console, lines, menu, wake, dp, di, timeout, sp, si, rd, ghost>>

(* TryPublishHeldHostDelayTimeout: a host whose delay question is open     *)
(* defers the error; everybody else reports it at once.                    *)
HeldHostDelayReader ==
  role = "host" /\ dp.serial > dp.served /\ (di.serial > di.served \/ di.serial = 0)

SelectTimeoutRequiredWakeOfPrompt(snap) == timeout.trans
SelectTimeoutRequiredWakeLate(snap) == snap + 2
SelectTimeoutRequiredWakeSerial(snap) ==
  IF snap + 1 <= timeout.trans THEN timeout.trans + 1 ELSE snap + 1

JudgeTimeout ==
  /\ cap.what = "timeout"
  /\ cap' = IF HeldHostDelayReader
            THEN [cap EXCEPT !.what = "held", !.required = SelectTimeoutRequiredWakeSerial(cap.n)]
            ELSE [cap EXCEPT !.what = "error"]
  /\ UNCHANGED <<role, gameSide, console, lines, block, rd, ghost>>

PublishHeldTimeout ==
  /\ cap.what = "held"
  /\ timeout' = [timeout EXCEPT !.required = cap.required, !.serial = dp.serial]
  /\ cap' = NoLine
  /\ UNCHANGED <<role, gameSide, console, lines, menu, wake, dp, di, sp, si, err, rd, ghost>>

---------------------------------------------------------------------------
(* The reader: StubReadConsoleA and W.  The calling thread first waits     *)
(* until everything it printed has been parsed.                            *)

EntersReadConsole ==
  /\ console.alive /\ rd = Out /\ lines = <<>> /\ cap = NoLine
  /\ console.stage # "over"
  /\ rd' = [Out EXCEPT !.at = "loop"]
  /\ UNCHANGED <<role, gameSide, console, lines, cap, block, ghost>>

ServeMenuChoice ==
  /\ rd.at = "loop" /\ ~menu
  /\ menu' = TRUE
  /\ rd' = Out
  /\ console' = [console EXCEPT !.stage = "waiting"]
  /\ UNCHANGED <<role, gameSide, lines, cap, wake, dp, di, timeout, sp, si, err, ghost>>

\* A wake goes before any answer.
WakePending == ControlWakeSession /\ wake.req > wake.served

WakeAfterDeliveryKept == wake
WakeAfterDelivery == [wake EXCEPT !.served = wake.req]

DeliverWake ==
  /\ rd.at = "loop" /\ menu /\ WakePending
  /\ wake' = WakeAfterDelivery
  /\ rd' = Out
  /\ console' = IF console.stage = "timedout" /\ wake.req >= ghost.wake
               THEN [console EXCEPT !.stage = "over"] ELSE console
  /\ UNCHANGED <<role, gameSide, lines, cap, menu, dp, di, timeout, sp, si, err, ghost>>

(* A question is open and an answer is queued: the reader decides, then    *)
(* marks input and question as served.  The spectate question also ends by *)
(* itself, with a default, when its deadline passes without an answer.     *)
NoWake == rd.at = "loop" /\ menu /\ ~WakePending
SpectateOpen == sp.serial # sp.served /\ sp.serial > 0
DelayOpen == dp.serial # dp.served /\ dp.serial > 0

SeesSpectateAnswer ==
  /\ NoWake /\ SpectateOpen /\ si.serial > si.served
  /\ rd' = [at |-> "spectate", prompt |-> sp.serial, input |-> si.serial]
  /\ UNCHANGED <<role, gameSide, console, lines, cap, block, ghost>>

SpectateDeadlineNever == FALSE /\ UNCHANGED promptVars
SpectateDeadline ==
  /\ NoWake /\ SpectateOpen /\ si.serial <= si.served
  /\ rd' = [at |-> "default", prompt |-> sp.serial, input |-> 0]
  /\ UNCHANGED <<role, gameSide, console, lines, cap, block, ghost>>

ServeSpectateAnswer ==
  /\ rd.at \in {"spectate", "default"}
  /\ si' = IF rd.at = "spectate" THEN [si EXCEPT !.served = rd.input] ELSE si
  /\ sp' = [sp EXCEPT !.served = rd.prompt]
  /\ rd' = Out
  /\ console' = [console EXCEPT !.stage =
       IF rd.at = "default" /\ sp.kind = "already"
       THEN "over" ELSE "answered"]
  /\ UNCHANGED <<role, gameSide, lines, cap, menu, wake, dp, di, timeout, err, ghost>>

SeesDelayAnswer ==
  /\ NoWake /\ ~SpectateOpen /\ DelayOpen
  /\ ~Terminated /\ di.serial > di.served
  /\ rd' = [at |-> "answer", prompt |-> dp.serial, input |-> di.serial]
  /\ UNCHANGED <<role, gameSide, console, lines, cap, block, ghost>>

InputAfterServeKept(n) == di
InputAfterServeAhead(n) == [di EXCEPT !.served = n + 1]
InputAfterServe(n) == [di EXCEPT !.served = n]

ServeDelayAnswer ==
  /\ rd.at = "answer"
  /\ di' = InputAfterServe(rd.input)
  /\ dp' = [dp EXCEPT !.served = rd.prompt]
  /\ ghost' = [ghost EXCEPT
       !.dup = @ \/ \E g \in ghost.got : g.prompt = rd.prompt,
       !.got = @ \cup {[prompt |-> rd.prompt, for |-> ghost.for, val |-> di.val]}]
  /\ rd' = Out
  /\ console' = IF console.stage = "delay" THEN [console EXCEPT !.stage = "answered"] ELSE console
  /\ UNCHANGED <<role, gameSide, lines, cap, menu, wake, timeout, sp, si, err>>

\* Nothing is asked and nobody will wake this reader: the real console is read.
ReadsRealConsole ==
  /\ NoWake /\ ~SpectateOpen /\ ~DelayOpen /\ ~ControlWakeSession
  /\ rd' = [Out EXCEPT !.at = "native"]
  /\ UNCHANGED <<role, gameSide, console, lines, cap, block, ghost>>

\* The helper leaves the real console by itself, once it asks something.
LeavesRealConsole ==
  /\ rd.at = "native" /\ console.stage # "waiting"
  /\ rd' = Out
  /\ UNCHANGED <<role, gameSide, console, lines, cap, block, ghost>>

---------------------------------------------------------------------------
(* The game: the delay overlay. *)

\* UpdateNetplayMenu: a question opens the overlay, a new one reopens it.
IsRetry == ui.prompt > 0 /\ dp.serial > ui.prompt /\ dp.served < dp.serial

HasRange(n) == n > 0 /\ dp.metrics = n /\ dp.serial = n /\ ~Terminated

ActivateDelaySetupOverlay ==
  /\ phase \in Live /\ dp.serial > 0 /\ app = NoApply
  /\ ui.delay = "off" \/ (ui.delay = "wait" /\ IsRetry)
  /\ ui' = [ui EXCEPT !.delay = "select",
                      !.prompt = IF HasRange(dp.serial) THEN dp.serial ELSE 0]
  /\ UNCHANGED <<role, phase, console, lines, cap, block, rd, app, init, ghost>>

UpdateDelaySetupMetrics ==
  /\ phase \in Live /\ ui.delay = "select" /\ app = NoApply
  /\ HasRange(dp.serial) /\ ui.prompt # dp.serial
  /\ ui' = [ui EXCEPT !.prompt = dp.serial]
  /\ UNCHANGED <<role, phase, console, lines, cap, block, rd, app, init, ghost>>

(* ApplyInputDelay for the value and the prompt the overlay shows: the     *)
(* prompt is open; the published range is read between two looks at its    *)
(* serials; then the value, and last its serial, are written.              *)
PromptStillOpen(n) == dp.serial = n /\ dp.served < dp.serial /\ HasRange(n)

ConfirmDelay(v) ==
  /\ phase \in Live /\ Online /\ ui.delay = "select" /\ app = NoApply
  /\ ui.prompt > 0 /\ v \in RangeOf(ui.prompt)
  /\ PromptStillOpen(ui.prompt)
  /\ app' = [prompt |-> ui.prompt, val |-> v, range |-> 0]
  /\ UNCHANGED <<role, phase, console, lines, cap, block, rd, ui, init, ghost>>

ReadRange ==
  /\ app.prompt > 0 /\ app.range = 0
  /\ app' = [app EXCEPT !.range = dp.range]
  /\ UNCHANGED <<role, phase, console, lines, cap, block, rd, ui, init, ghost>>

Accepted == HasRange(app.prompt) /\ app.val \in RangeOf(app.range)

QueueDelayInput ==
  /\ app.range > 0
  /\ app' = NoApply
  /\ IF Accepted
     THEN /\ di' = [di EXCEPT !.serial = @ + 1, !.val = app.val]
          /\ ui' = [ui EXCEPT !.delay = "wait"]
          /\ ghost' = [ghost EXCEPT !.for = app.prompt]
     ELSE UNCHANGED <<di, ui, ghost>>
  /\ UNCHANGED <<role, phase, console, lines, cap, menu, wake, dp, timeout, sp, si, err, rd, init>>

(* The spectate overlay, and the automatic yes of JoinSpectate. *)
SpectateConfirmPending ==
  phase \in Live /\ sp.serial > 0 /\ sp.served < sp.serial /\ ~init.applied

ActivateSpectateConfirmOverlay ==
  /\ SpectateConfirmPending /\ ~ui.spectate /\ ~ui.sent
  /\ ~(role = "joinspectate" /\ sp.kind = "already")
  /\ ui' = [ui EXCEPT !.spectate = TRUE]
  /\ UNCHANGED <<role, phase, console, lines, cap, block, rd, app, init, ghost>>

DismissSpectateConfirmOverlay ==
  /\ ui.spectate /\ ~SpectateConfirmPending
  /\ ui' = [ui EXCEPT !.spectate = FALSE]
  /\ UNCHANGED <<role, phase, console, lines, cap, block, rd, app, init, ghost>>

ChoicesOf(kind) == IF kind = "notyet" THEN {3} ELSE {1}

AnswerSpectatePromptChoice ==
  /\ SpectateConfirmPending /\ ~ui.sent
  /\ ui.spectate \/ (role = "joinspectate" /\ sp.kind = "already")
  /\ \E c \in ChoicesOf(sp.kind) : si' = [si EXCEPT !.serial = @ + 1, !.val = c]
  /\ ui' = [ui EXCEPT !.spectate = FALSE, !.sent = TRUE]
  /\ UNCHANGED <<role, phase, console, lines, cap, menu, wake, dp, di, timeout, sp, err, rd, app,
                 init, ghost>>

(* CancelSession, from an overlay (a declined question cancels too): the   *)
(* helper is ended and the block is cleared.                               *)
CancelFromOverlay ==
  /\ phase \in Live /\ app = NoApply /\ (ui.delay # "off" \/ ui.spectate)
  /\ phase' = "Idle"
  /\ console' = [console EXCEPT !.alive = FALSE]
  /\ lines' = <<>> /\ cap' = NoLine /\ rd' = Out
  /\ wake' = NoPair /\ dp' = NoDelayPrompt /\ di' = NoInput /\ timeout' = NoTimeout
  /\ sp' = NoSpectate /\ si' = NoInput /\ err' = FALSE
  /\ ui' = NoUi
  /\ init' = [init EXCEPT !.applied = FALSE, !.post = "NotAttempted"]
  /\ UNCHANGED <<role, menu, app, ghost>>

---------------------------------------------------------------------------
(* Tick, once a frame.  In order: a deferred timeout is released or holds  *)
(* everything; a dead helper; the init handshake; the spectator's          *)
(* post-init; an error; promotion.                                         *)

TimeoutPending == timeout.serial > timeout.handled
TimeoutCleanupReady == ~console.alive \/ (timeout.required > 0 /\ wake.served >= timeout.required)

(* EvaluateRuntimeReadyProbe *)
RuntimeReadyOnPrompt(i) == i.applied /\ dp.serial > 0
RuntimeReady(i) ==
  /\ i.applied /\ dp.serial > 0
  /\ di.serial > 0 /\ di.serial <= di.served
  /\ console.bound

\* PublishConsoleError of the game, when the reader has been freed.
ErrAfterRelease == err \/ TimeoutPending
Release == timeout' = [timeout EXCEPT !.handled = timeout.serial]

TickHelperDead ==
  /\ phase \in Live /\ ~console.alive
  /\ Release
  /\ err' = ErrAfterRelease
  /\ \/ /\ phase # "Connected" /\ init.applied /\ role = "spectate"
        /\ phase' = "Failed"
        /\ init' = [init EXCEPT !.applied = FALSE]
     \/ /\ phase # "Connected" /\ init.applied /\ role # "spectate"
        /\ phase' = IF RuntimeReady(init) THEN "Connected"
                    ELSE IF dp.serial > 0 THEN "DelaySetup" ELSE "Connecting"
        /\ UNCHANGED init
     \/ /\ phase # "Connected" /\ ~init.applied
        /\ phase' = "Failed"
        /\ UNCHANGED init
     \/ /\ phase = "Connected"
        /\ phase' = "SessionEnded"
        /\ UNCHANGED init
  /\ UNCHANGED <<role, console, lines, cap, menu, wake, dp, di, sp, si, rd, ui, app, ghost>>

\* Outside Revival's own tick; training data is retired first, in a tick of its own.
HandshakeDue == phase # "Connected" /\ init.event /\ ~init.applied

TickRequiresRetirement ==
  /\ phase \in Live /\ console.alive /\ (TimeoutPending => TimeoutCleanupReady)
  /\ HandshakeDue /\ ~init.retired
  /\ init' = [init EXCEPT !.retired = TRUE]
  /\ Release
  /\ err' = ErrAfterRelease
  /\ UNCHANGED <<role, phase, console, lines, cap, menu, wake, dp, di, sp, si, rd, ui, app, ghost>>

\* What the handshake and the post-init leave behind.
InitAfterHandshake ==
  IF HandshakeDue THEN [init EXCEPT !.event = FALSE, !.applied = TRUE] ELSE init

(* The rest of the tick.  inFrame: called from inside Revival's tick, where *)
(* the handshake is only noted.  post: how a spectator's post-init ends.    *)
TickProceeds(inFrame, post) ==
  /\ phase \in Live /\ console.alive /\ (TimeoutPending => TimeoutCleanupReady)
  /\ (~inFrame /\ HandshakeDue) => init.retired
  /\ Release
  /\ err' = ErrAfterRelease
  /\ LET after == IF inFrame THEN init ELSE InitAfterHandshake
         spectator == after.applied /\ role = "spectate" /\ after.post = "NotAttempted"
         ended == IF spectator THEN [after EXCEPT !.post = post] ELSE after
     IN IF spectator /\ post = "Failed"
        THEN /\ phase' = "Failed"
             /\ init' = [ended EXCEPT !.applied = FALSE]
        ELSE /\ init' = ended
             /\ phase' = IF ErrAfterRelease
                         THEN IF phase = "Connected" THEN "SessionEnded" ELSE "Failed"
                         ELSE IF phase = "Connected" \/ RuntimeReady(ended)
                                 \/ (ended.applied /\ role = "spectate" /\ ended.post = "Succeeded")
                              THEN "Connected"
                         ELSE IF ended.applied /\ dp.serial > 0 THEN "DelaySetup" ELSE phase
  /\ UNCHANGED <<role, console, lines, cap, menu, wake, dp, di, sp, si, rd, ui, app, ghost>>

\* The session is over: the overlays go, and nothing happens any more.
LeavesSession ==
  /\ phase \notin Live
  /\ ui' = NoUi /\ app' = NoApply
  /\ UNCHANGED <<role, phase, console, lines, cap, block, rd, init, ghost>>

---------------------------------------------------------------------------
HelperStep ==
  \/ PrintsDelayPrompt \/ PrintsSpectatePrompt \/ PrintsTimeout \/ PrintsError
  \/ Binds \/ AsksForInit \/ HelperDies \/ WritesWake \/ FlushesInput
CaptureStep ==
  \/ TakeLine \/ PublishMetrics \/ PublishRange \/ PublishMetricsSerial
  \/ PublishDelayPromptSerial \/ PublishSpectateConfirmPrompt \/ PublishConsoleError
  \/ JudgeTimeout \/ PublishHeldTimeout
ReaderStep ==
  \/ EntersReadConsole \/ ServeMenuChoice \/ DeliverWake
  \/ SeesSpectateAnswer \/ SpectateDeadline \/ ServeSpectateAnswer
  \/ SeesDelayAnswer \/ ServeDelayAnswer \/ ReadsRealConsole \/ LeavesRealConsole
OverlayStep ==
  \/ ActivateDelaySetupOverlay \/ UpdateDelaySetupMetrics
  \/ \E v \in 1 .. MaxAsk + 1 : ConfirmDelay(v)
  \/ ReadRange \/ QueueDelayInput
  \/ ActivateSpectateConfirmOverlay \/ DismissSpectateConfirmOverlay
  \/ AnswerSpectatePromptChoice \/ CancelFromOverlay \/ LeavesSession
TickStep ==
  \/ TickHelperDead \/ TickRequiresRetirement
  \/ \E f \in BOOLEAN, p \in {"NotAttempted", "Succeeded", "Failed"} : TickProceeds(f, p)

PromptsNext == HelperStep \/ CaptureStep \/ ReaderStep \/ OverlayStep \/ TickStep

(* The helper's two threads and the game's frame loop keep running; what   *)
(* the remote player and the user do is up to them.  A BEL follows the     *)
(* line it belongs to.                                                     *)
PromptsFairness ==
  /\ WF_promptVars(WritesWake)
  /\ WF_promptVars(CaptureStep)
  /\ WF_promptVars(ReaderStep)
  /\ WF_promptVars(TickStep)

PromptsSpec == PromptsInit /\ [][PromptsNext]_promptVars /\ PromptsFairness

---------------------------------------------------------------------------
Serials == 0 .. MaxAsk + 3

PromptsTypeOK ==
  /\ role \in Roles /\ phase \in Phases
  /\ console \in [alive : BOOLEAN, stage : Stages, owes : BOOLEAN, asks : 0 .. MaxAsk,
                  bound : BOOLEAN]
  /\ lines \in Seq([k : {"delay", "already", "notyet", "timeout", "error"}, snap : Serials])
  /\ wake \in [req : Serials, served : Serials] /\ wake.served <= wake.req
  /\ dp \in [serial : Serials, served : Serials, metrics : Serials, range : Serials]
  /\ dp.served <= dp.serial /\ dp.metrics <= dp.serial + 1
  /\ di.served <= di.serial /\ di.serial <= dp.serial
  /\ timeout.handled <= timeout.serial /\ timeout.serial <= dp.serial
  /\ sp.served <= sp.serial /\ si.served <= si.serial
  /\ menu \in BOOLEAN /\ err \in BOOLEAN

(* A delay answer reaches the very prompt it was given for, within that    *)
(* prompt's range, and no prompt is answered twice: the serials of prompt  *)
(* and input, moved by two processes, never pair an old answer with a new  *)
(* question.                                                               *)
AnswerMeetsItsPrompt ==
  /\ ~ghost.dup
  /\ \A g \in ghost.got : g.for = g.prompt /\ g.val \in RangeOf(g.prompt)

(* While the helper runs, a timed-out question is only turned into an      *)
(* error, and so into a teardown, after the reader was freed by the wake   *)
(* that followed the timeout line, and not by the one that opened the      *)
(* question.                                                               *)
ReleasedByItsOwnWake ==
  timeout.handled > 0 /\ console.alive => wake.served >= ghost.wake

(* A player's session counts as connected only after an answer the user    *)
(* gave was read by the helper.                                            *)
ConnectedMeansAnswered ==
  phase = "Connected" /\ role # "spectate" => ghost.got # {}

(* A queued delay answer is read, unless the question is closed by an      *)
(* error or a timeout, or the helper is gone.                              *)
QueuedAnswerIsServed ==
  di.serial > di.served ~> (di.serial <= di.served \/ Terminated \/ ~console.alive)

(* A deferred timeout ends the session: the wake it waits for comes and is *)
(* served, and the tick then reports the error.                            *)
TimeoutEndsSession ==
  TimeoutPending ~> (phase \notin Live \/ ~console.alive)

(* A spectate question is always closed, by the user or by its deadline.   *)
SpectateQuestionCloses ==
  SpectateOpen ~> (~SpectateOpen \/ ~console.alive)

(* Answers meet their prompts, wakes their timeouts, and a connected        *)
(* player has answered.                                                     *)
PromptsSafe ==
  /\ PromptsTypeOK /\ AnswerMeetsItsPrompt /\ ReleasedByItsOwnWake
  /\ ConnectedMeansAnswered
===============================================================================
