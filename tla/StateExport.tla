------------------------------- MODULE StateExport -------------------------------
(***************************************************************************)
(* The state published to companion mods.  The game's thread queues its     *)
(* status to a worker, which reads the game's memory and publishes.  Before *)
(* an online simulation the exports are suspended: ordinary updates stop,   *)
(* everything in flight is drained, and from then on only the game's own    *)
(* thread reads memory, at screen boundaries, while the worker republishes  *)
(* the last state as a heartbeat.  A training mod is asked to let go of the *)
(* game under the same suspension, around every start of a session.         *)
(*                                                                          *)
(* A status is a stamp (how new it is), a phase and the games won; names,   *)
(* pings, characters and addresses are copied the same way and left out.    *)
(* One lock stands for the update lock; the mutex of the snapshot is held   *)
(* for single copies only.  A suspension gives up after two seconds, at any *)
(* of its looks.                                                            *)
(***************************************************************************)
EXTENDS Integers, Sequences

CONSTANTS
  MaxOps,          \* bound: operations the game's thread begins
  MaxBeats         \* bound: heartbeats

ASSUME ExportAssumption == MaxOps \in Nat /\ MaxBeats \in Nat

VARIABLES
  status,          \* the bridge's status
  th,              \* the game's thread and the companion's: place, what is left to do
  worker,          \* the worker: place, the status it took, what it derived
  mode,            \* g_updateMode
  lock,            \* g_updateRequestLock: its holder or "none"
  req,             \* g_pendingStatus, g_updateRequestPending, g_updateEvent
  inFlight,        \* g_updateInFlight
  book,            \* what the exporter remembers between updates
  snap,            \* the published state
  seq,             \* g_stateSeq
  training,        \* the training mod: "absent", or the holder of the handoff's mutex
  sim,             \* the online simulation runs with the interface suspended
  left,            \* operations and heartbeats left
  alone            \* no companion has begun to start a session on a thread of its own

exportVars ==
  <<status, th, worker, mode, lock, req, inFlight, book, snap, seq, training, sim, left, alone>>

Clients == {"game", "api"}
Over == {"Idle", "Failed", "SessionEnded"}

--------------------------------------------------------------------------------
(* UpdateNow: what is published for a status.                                *)

NoStatus == [stamp |-> 0, phase |-> "Idle", wins |-> 0]
NoState == [by |-> "update", seq |-> 0, stamp |-> 0, phase |-> "Idle", id |-> 0, end |-> "None",
            wins |-> 0]

(* Mutant: a connection that fails has no end. *)
EndedOnly(phase, prev) == IF phase = "SessionEnded" /\ prev # phase THEN phase ELSE "None"
DeriveEndReason(phase, prev) ==
  IF phase \notin {"Failed", "SessionEnded"} \/ prev \in {"Failed", "SessionEnded"}
  THEN "None" ELSE phase

(* A session begins when a connection is attempted after none: its scores and  *)
(* end are its own.                                                            *)
NewSession(b) == [b EXCEPT !.id = @ + 1, !.end = "None", !.wins = 0, !.prevWins = 0]

(* Live wins may read 0 for a moment: the highest total of the session counts.  *)
(* Mutant: the live total counts. *)
Live(wins, latched) == wins
HighWater(wins, latched) == IF wins > latched THEN wins ELSE latched

Remembered(s) ==
  LET b == IF s.phase = "Connecting" /\ book.phase \in Over THEN NewSession(book) ELSE book
      end == DeriveEndReason(s.phase, book.phase)
      wins == HighWater(s.wins, b.wins)
  IN [b EXCEPT !.phase = s.phase,
               !.end = IF end # "None" THEN end ELSE @,
               !.wins = wins,
               !.set = IF b.prevWins # 0 /\ wins = 0 THEN @ + 1 ELSE @,
               !.prevWins = wins]

Derived(s, b) ==
  [by |-> "update", seq |-> 0, stamp |-> s.stamp, phase |-> s.phase, id |-> b.id,
   end |-> b.end, wins |-> b.wins]

(* The state gets its number under the lock it is published under.             *)
(* Mutant: it is published under the number it began with. *)
PublishAsBegun(d, began) == snap' = [d EXCEPT !.seq = began] /\ seq' = seq
Publish(d, began) == snap' = [d EXCEPT !.seq = seq + 1] /\ seq' = seq + 1

--------------------------------------------------------------------------------
(* The threads that call the exporter.  A thread does what is left of its      *)
(* operation, one item after the other.                                        *)

Resting == [pc |-> "next", todo |-> <<>>, handoff |-> FALSE, kept |-> FALSE,
            state |-> NoState, began |-> 0]
At(t, pc) == th' = [th EXCEPT ![t].pc = pc]
Done(t) == th' = [th EXCEPT ![t] = [Resting EXCEPT !.todo = th[t].todo]]
Abandon(t) == th' = [th EXCEPT ![t] = Resting]

AtRest(t) == th[t].pc = "next" /\ th[t].todo = <<>> /\ worker.pc # "stopped"

(* The status an operation begins with: the same, or moved on.  A connection    *)
(* may be attempted and made between two updates.                              *)
Successors(s) ==
  CASE s.phase \in Over -> {[s EXCEPT !.phase = p, !.wins = 0] : p \in {"Connecting", "Connected"}}
    [] s.phase = "Connecting" -> {[s EXCEPT !.phase = p] : p \in {"Connected", "Failed"}}
    [] OTHER -> {[s EXCEPT !.wins = w] : w \in {0, s.wins + 1}}
                \cup {[s EXCEPT !.phase = "SessionEnded"]}
Moves == \E s \in {status} \cup Successors(status) : status' = [s EXCEPT !.stamp = @ + 1]

(* Bound: a start on a companion's thread counts for two operations.             *)
Cost(t) == IF t = "api" THEN 2 ELSE 1
Begin(t, todo) ==
  /\ AtRest(t) /\ left.ops >= Cost(t)
  /\ left' = [left EXCEPT !.ops = @ - Cost(t)]
  /\ th' = [th EXCEPT ![t].todo = todo]
  /\ alone' = (alone /\ t = "game")
  /\ UNCHANGED <<worker, mode, lock, req, inFlight, book, snap, seq, training, sim>>

(* Tick, with or without a session to initialise.                              *)
Tick ==
  /\ Begin("game", <<"Update">>) \/ Begin("game", <<"Training", "Update">>)
  /\ Moves

(* StartSession, whatever the bridge is doing: it asks the training mod first.  *)
StartSession == \E t \in Clients : Begin(t, <<"Training">>) /\ UNCHANGED status

(* SuspendUiHooksForOnlineSimulation, with a connection made.                  *)
GoOnline ==
  /\ ~sim
  /\ Begin("game", <<"Training", "Update", "Suspend", "Ui">>)
  /\ Moves /\ status'.phase = "Connected"

Takes(t, item) == th[t].pc = "next" /\ th[t].todo # <<>> /\ Head(th[t].todo) = item
Enter(t, pc) == th' = [th EXCEPT ![t].pc = pc, ![t].todo = Tail(@)]

(* The rest of the handoff: every hook of the interface is taken down, or the   *)
(* exports are resumed.                                                        *)
SuspendUi ==
  /\ Takes("game", "Ui")
  /\ Enter("game", "next")
  /\ \/ sim' = TRUE /\ UNCHANGED mode
     \/ mode' = "Full" /\ UNCHANGED sim
  /\ UNCHANGED <<status, worker, lock, req, inFlight, book, snap, seq, training, left, alone>>

(* EnterNetplayMenu, at the end of the simulation.                             *)
EnterNetplayMenu ==
  /\ th["game"].pc = "next" /\ th["game"].todo = <<>> /\ (sim \/ mode = "Suspended")
  /\ sim' = FALSE /\ mode' = "Full"
  /\ UNCHANGED <<status, th, worker, lock, req, inFlight, book, snap, seq, training, left, alone>>

(* QueueUpdate.                                                                *)
QueueCheck(t) ==
  /\ Takes(t, "Update")
  /\ IF mode = "Suspended" THEN Enter(t, "next") ELSE Enter(t, "count")
  /\ UNCHANGED <<status, worker, mode, lock, req, inFlight, book, snap, seq, training, sim, left, alone>>

QueueCount(t) ==
  /\ th[t].pc = "count"
  /\ inFlight' = inFlight + 1
  /\ At(t, "again")
  /\ UNCHANGED <<status, worker, mode, lock, req, book, snap, seq, training, sim, left, alone>>

QueueAgain(t) ==
  /\ th[t].pc = "again"
  /\ IF mode = "Suspended" THEN inFlight' = inFlight - 1 /\ Done(t)
     ELSE At(t, "try") /\ UNCHANGED inFlight
  /\ UNCHANGED <<status, worker, mode, lock, req, book, snap, seq, training, sim, left, alone>>

(* An update that finds the lock taken is dropped.                             *)
QueueTry(t) ==
  /\ th[t].pc = "try"
  /\ IF lock = "none" THEN lock' = t /\ At(t, "store") /\ UNCHANGED inFlight
     ELSE inFlight' = inFlight - 1 /\ Done(t) /\ UNCHANGED lock
  /\ UNCHANGED <<status, worker, mode, req, book, snap, seq, training, sim, left, alone>>

QueueStore(t) ==
  /\ th[t].pc = "store"
  /\ req' = [req EXCEPT !.status = status, !.pending = TRUE]
  /\ lock' = "none"
  /\ At(t, "leave")
  /\ UNCHANGED <<status, worker, mode, inFlight, book, snap, seq, training, sim, left, alone>>

QueueLeave(t) ==
  /\ th[t].pc = "leave"
  /\ inFlight' = inFlight - 1
  /\ At(t, "signal")
  /\ UNCHANGED <<status, worker, mode, lock, req, book, snap, seq, training, sim, left, alone>>

(* Mutant: the worker is not woken. *)
NoSignal == req
SetEvent == [req EXCEPT !.event = TRUE]

QueueSignal(t) ==
  /\ th[t].pc = "signal"
  /\ req' = SetEvent
  /\ Done(t)
  /\ UNCHANGED <<status, worker, mode, lock, inFlight, book, snap, seq, training, sim, left, alone>>

(* SuspendForOnlineSimulation.  The lock is crossed once; then two looks at     *)
(* the updates in flight and two at the request have to find nothing.           *)
SuspendSet(t) ==
  /\ Takes(t, "Suspend") \/ th[t].pc = "drain"
  /\ mode' = "Suspended"
  /\ th' = [th EXCEPT ![t].pc = "cross", ![t].handoff = th[t].pc = "drain",
                      ![t].todo = IF th[t].pc = "drain" THEN @ ELSE Tail(@)]
  /\ UNCHANGED <<status, worker, lock, req, inFlight, book, snap, seq, training, sim, left, alone>>

SuspendCross(t) ==
  /\ th[t].pc = "cross" /\ lock = "none"
  /\ req' = SetEvent
  /\ At(t, "look1")
  /\ UNCHANGED <<status, worker, mode, lock, inFlight, book, snap, seq, training, sim, left, alone>>

(* Mutant: one look at each is enough. *)
LooksOnce == <<"look1", "look2">>
Looks == <<"look1", "look2", "look3", "look4">>
Look(t, i) ==
  /\ th[t].pc = Looks[i]
  /\ LET busy == IF i % 2 = 1 THEN inFlight # 0 ELSE req.pending IN
     At(t, IF busy THEN "look1" ELSE IF i = Len(Looks) THEN "quiet" ELSE Looks[i + 1])
  /\ UNCHANGED <<status, worker, mode, lock, req, inFlight, book, snap, seq, training, sim, left, alone>>

SuspendLook(t) == \E i \in DOMAIN Looks : Look(t, i)

SuspendDone(t) ==
  /\ th[t].pc = "quiet"
  /\ IF th[t].handoff THEN At(t, "prepared") ELSE Done(t)
  /\ UNCHANGED <<status, worker, mode, lock, req, inFlight, book, snap, seq, training, sim, left, alone>>

(* Out of time: a handoff that found the exports suspended leaves them so.      *)
SuspendTimeout(t) ==
  /\ th[t].pc \in {Looks[i] : i \in DOMAIN Looks}
  /\ inFlight # 0 \/ req.pending
  /\ mode' = IF th[t].handoff /\ th[t].kept THEN mode ELSE "Full"
  /\ training' = IF th[t].handoff THEN "none" ELSE training
  /\ Abandon(t)
  /\ UNCHANGED <<status, worker, lock, req, inFlight, book, snap, seq, sim, left, alone>>

(* TrainingHandoff: not loaded, too old or unwilling, or prepared under the     *)
(* mutex, where it remembers whether the exports were suspended already.        *)
TrainingBegin(t) ==
  /\ Takes(t, "Training")
  /\ \/ training = "absent" /\ Enter(t, "next") /\ UNCHANGED training
     \/ training = "none" /\ Abandon(t) /\ UNCHANGED training
     \/ /\ training = "none"
        /\ training' = t
        /\ th' = [th EXCEPT ![t].pc = "drain", ![t].kept = mode = "Suspended", ![t].todo = Tail(@)]
  /\ UNCHANGED <<status, worker, mode, lock, req, inFlight, book, snap, seq, sim, left, alone>>

(* Under the handoff StartSession starts its session, unless there is one.        *)
TrainingWork(t) ==
  /\ th[t].pc = "prepared"
  /\ status' = IF th[t].todo = <<>> /\ status.phase \in Over
               THEN [phase |-> "Connecting", wins |-> 0, stamp |-> status.stamp + 1] ELSE status
  /\ At(t, "worked")
  /\ UNCHANGED <<worker, mode, lock, req, inFlight, book, snap, seq, training, sim, left, alone>>

(* PublishTrainingHandoffBoundary, when the handoff is over: the phase, and no   *)
(* end; the rest stays as published.                                            *)
TrainingPublish(t) ==
  /\ th[t].pc = "worked" /\ lock = "none"
  /\ Publish([snap EXCEPT !.stamp = status.stamp, !.phase = status.phase, !.end = "None",
                          !.by = "handoff"], seq)
  /\ At(t, "resume")
  /\ UNCHANGED <<status, worker, mode, lock, req, inFlight, book, training, sim, left, alone>>

(* Mutant: the exports are resumed whoever suspended them. *)
ResumeAlways(t) == "Full"
ResumeMode(t) == IF th[t].kept THEN mode ELSE "Full"
TrainingEnd(t) ==
  /\ th[t].pc = "resume"
  /\ mode' = ResumeMode(t)
  /\ training' = "none"
  /\ Done(t)
  /\ UNCHANGED <<status, worker, lock, req, inFlight, book, snap, seq, sim, left, alone>>

(* PublishOnlineBoundary: the game's thread, at a change of screen.              *)
BoundaryWalk ==
  /\ AtRest("game") /\ mode = "Suspended" /\ left.ops > 0
  /\ left' = [left EXCEPT !.ops = @ - 1]
  /\ Moves
  /\ book' = Remembered(status')
  /\ seq' = seq + 1
  /\ th' = [th EXCEPT !["game"].pc = "walked", !["game"].began = seq + 1,
                      !["game"].state = Derived(status', Remembered(status'))]
  /\ UNCHANGED <<worker, mode, lock, req, inFlight, snap, training, sim, alone>>

BoundaryPublish ==
  /\ th["game"].pc = "walked" /\ lock = "none"
  /\ Publish(th["game"].state, th["game"].began)
  /\ th' = [th EXCEPT !["game"] = Resting]
  /\ UNCHANGED <<status, worker, mode, lock, req, inFlight, book, training, sim, left, alone>>

(* Shutdown: the worker is stopped and joined, then everything is withdrawn.     *)
Shutdown ==
  /\ th["game"].pc = "next" /\ th["game"].todo = <<>> /\ ~worker.stopping
  /\ worker' = [worker EXCEPT !.stopping = TRUE]
  /\ req' = SetEvent
  /\ At("game", "join")
  /\ UNCHANGED <<status, mode, lock, inFlight, book, snap, seq, training, sim, left, alone>>

Joined ==
  /\ th["game"].pc = "join" /\ worker.pc = "stopped"
  /\ req' = [req EXCEPT !.pending = FALSE, !.event = FALSE]
  /\ mode' = "Suspended"
  /\ snap' = [snap EXCEPT !.by = "none"]
  /\ At("game", "down")
  /\ UNCHANGED <<status, worker, lock, inFlight, book, seq, training, sim, left, alone>>

--------------------------------------------------------------------------------
(* ExportWorkerMain.                                                         *)

Idle == [pc |-> "loop", beats |-> FALSE, stopping |-> FALSE, status |-> NoStatus,
         state |-> NoState, began |-> 0]
Goes(pc) == worker' = [worker EXCEPT !.pc = pc]

(* How long it waits is decided before it waits.                             *)
WorkerWaits ==
  /\ worker.pc = "loop"
  /\ worker' = [worker EXCEPT !.pc = "wait", !.beats = mode = "Suspended"]
  /\ UNCHANGED <<status, th, mode, lock, req, inFlight, book, snap, seq, training, sim, left, alone>>

WorkerWakes ==
  /\ worker.pc = "wait" /\ req.event
  /\ req' = [req EXCEPT !.event = FALSE]
  /\ worker' = [worker EXCEPT !.pc = IF worker.stopping THEN "stopped" ELSE "count",
                              !.beats = FALSE]
  /\ UNCHANGED <<status, th, mode, lock, inFlight, book, snap, seq, training, sim, left, alone>>

(* PublishSuspendedHeartbeat copies, changes and publishes under the lock.    *)
(* Mutant: what it republishes was copied before it had the lock. *)
BeatAsCopied == Publish([worker.state EXCEPT !.by = "update"], seq)
Beat == Publish(snap, seq)
WorkerTimeout ==
  /\ worker.pc = "wait" /\ worker.beats /\ ~req.event /\ left.beats > 0
  /\ worker' = [worker EXCEPT !.pc = IF worker.stopping THEN "stopped"
                                     ELSE IF mode = "Suspended" THEN "beat" ELSE "loop",
                              !.beats = FALSE, !.state = snap]
  /\ left' = [left EXCEPT !.beats = @ - 1]
  /\ UNCHANGED <<status, th, mode, lock, req, inFlight, book, snap, seq, training, sim, alone>>
PublishSuspendedHeartbeat ==
  /\ worker.pc = "beat" /\ lock = "none"
  /\ Beat
  /\ worker' = [Idle EXCEPT !.stopping = worker.stopping]
  /\ UNCHANGED <<status, th, mode, lock, req, inFlight, book, training, sim, left, alone>>

WorkerCounts ==
  /\ worker.pc = "count"
  /\ inFlight' = inFlight + 1
  /\ Goes("take")
  /\ UNCHANGED <<status, th, mode, lock, req, book, snap, seq, training, sim, left, alone>>

WorkerTakes ==
  /\ worker.pc = "take"
  /\ req' = [req EXCEPT !.pending = FALSE]
  /\ IF req.pending THEN Goes("copy") /\ UNCHANGED inFlight
     ELSE Goes("loop") /\ inFlight' = inFlight - 1
  /\ UNCHANGED <<status, th, mode, lock, book, snap, seq, training, sim, left, alone>>

WorkerCopies ==
  /\ worker.pc = "copy" /\ lock = "none"
  /\ worker' = [worker EXCEPT !.pc = "walk", !.status = req.status]
  /\ UNCHANGED <<status, th, mode, lock, req, inFlight, book, snap, seq, training, sim, left, alone>>

(* UpdateNow reads the game's and the session's memory ...                    *)
WorkerWalks ==
  /\ worker.pc = "walk"
  /\ book' = Remembered(worker.status)
  /\ seq' = seq + 1
  /\ worker' = [worker EXCEPT !.pc = "lock", !.began = seq + 1,
                                 !.status = NoStatus,
                                 !.state = Derived(worker.status, Remembered(worker.status))]
  /\ UNCHANGED <<status, th, mode, lock, req, inFlight, snap, training, sim, left, alone>>

(* ... and publishes under the lock.                                          *)
WorkerLocks ==
  /\ worker.pc = "lock" /\ lock = "none"
  /\ lock' = "worker"
  /\ Goes("publish")
  /\ UNCHANGED <<status, th, mode, req, inFlight, book, snap, seq, training, sim, left, alone>>

WorkerPublishes ==
  /\ worker.pc = "publish"
  /\ Publish(worker.state, worker.began)
  /\ lock' = "none"
  /\ worker' = [Idle EXCEPT !.pc = "uncount", !.stopping = worker.stopping]
  /\ UNCHANGED <<status, th, mode, req, inFlight, book, training, sim, left, alone>>

WorkerUncounts ==
  /\ worker.pc = "uncount"
  /\ inFlight' = inFlight - 1
  /\ Goes(IF worker.stopping THEN "loop" ELSE "count")
  /\ UNCHANGED <<status, th, mode, lock, req, book, snap, seq, training, sim, left, alone>>

--------------------------------------------------------------------------------
ExportInit ==
  /\ status = NoStatus
  /\ th = [t \in Clients |-> Resting]
  /\ worker = Idle
  /\ mode = "Full" /\ lock = "none" /\ training \in {"absent", "none"} /\ sim = FALSE
  /\ req = [status |-> NoStatus, pending |-> FALSE, event |-> FALSE]
  /\ inFlight = 0
  /\ book = [phase |-> "Idle", id |-> 0, end |-> "None", wins |-> 0, prevWins |-> 0, set |-> 0]
  /\ snap = NoState
  /\ seq = 0
  /\ left = [ops |-> MaxOps, beats |-> MaxBeats]
  /\ alone = TRUE

Worker == WorkerWaits \/ WorkerWakes \/ WorkerCounts \/ WorkerTakes \/ WorkerCopies
          \/ WorkerWalks \/ WorkerLocks \/ WorkerPublishes \/ WorkerUncounts
Client(t) == QueueCheck(t) \/ QueueCount(t) \/ QueueAgain(t) \/ QueueTry(t) \/ QueueStore(t)
             \/ QueueLeave(t) \/ QueueSignal(t) \/ SuspendSet(t) \/ SuspendCross(t)
             \/ SuspendLook(t) \/ SuspendDone(t) \/ SuspendTimeout(t) \/ TrainingBegin(t) \/ TrainingWork(t)
             \/ TrainingPublish(t) \/ TrainingEnd(t)

ExportNext ==
  \/ Worker \/ WorkerTimeout \/ PublishSuspendedHeartbeat
  \/ \E t \in Clients : Client(t)
  \/ Tick \/ StartSession \/ GoOnline \/ SuspendUi \/ EnterNetplayMenu
  \/ BoundaryWalk \/ BoundaryPublish \/ Shutdown \/ Joined

ExportSpec == ExportInit /\ [][ExportNext]_exportVars

(* The worker is scheduled, and so is each thread inside the exporter.          *)
GameThread == Client("game") \/ SuspendUi \/ BoundaryPublish \/ Joined
ExportFairness ==
  /\ WF_exportVars(Worker \/ WorkerTimeout \/ PublishSuspendedHeartbeat)
  /\ WF_exportVars(GameThread)
  /\ WF_exportVars(Client("api"))

--------------------------------------------------------------------------------
ExportTypeOK ==
  /\ mode \in {"Full", "Suspended"}
  /\ lock \in {"none", "worker"} \cup Clients
  /\ inFlight \in 0 .. 3
  /\ status.stamp \in Nat
  /\ training \in {"absent", "none"} \cup Clients
  /\ left \in [ops : 0 .. MaxOps, beats : 0 .. MaxBeats]

(* Until a companion begins to start sessions on a thread of its own, no thread *)
(* but the game's own reads the game's memory beside a running simulation.      *)
QuietSimulation == alone /\ sim => worker.pc \notin {"copy", "walk"}

(* Until then the simulation keeps the exports suspended.  A companion's thread  *)
(* that was at its handoff when the simulation began resumes them at its end.    *)
ExportsStayOff == alone /\ sim => mode = "Suspended"

(* A publication carries a higher number than the one before, whoever makes it. *)
SeqAdvances == [][snap' # snap => snap'.seq > snap.seq \/ snap'.by = "none"]_exportVars

(* Until a companion starts sessions, a newer status is never replaced by an     *)
(* older one, nor by a heartbeat of it.                                          *)
NothingOlder == [][alone' => snap'.stamp >= snap.stamp]_exportVars

(* Nor does the score of a session fall, whatever the live counters show.        *)
ScoreHolds == [][alone' /\ snap'.id = snap.id => snap'.wins >= snap.wins]_exportVars

(* An ended session is published with its end, whoever starts sessions.          *)
EndIsReported ==
  snap.by = "update" /\ snap.phase \in {"Failed", "SessionEnded"} => snap.end # "None"

(* A queued status is taken by the worker.                                       *)
QueuedIsTaken == req.pending ~> ~req.pending

(* The exports keep quiet beside a simulation, and report an end as one.         *)
ExportSafe == ExportTypeOK /\ QuietSimulation /\ ExportsStayOff /\ EndIsReported
================================================================================
