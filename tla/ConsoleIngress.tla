----------------------------- MODULE ConsoleIngress -----------------------------
(***************************************************************************)
(* Console capture inside the helper.                                      *)
(*                                                                         *)
(* Every console write of the helper is hooked.  The hook must not block,  *)
(* so a writer claims a slot of a bounded ring and drops its chunk when    *)
(* the ring is full, contended or closed; a drop raises the loss           *)
(* generation.  One worker takes the chunks, puts lines together (one      *)
(* unfinished line per source) and throws the unfinished lines away        *)
(* whenever the generation stamped on a record differs from the last one.  *)
(* A reader of the console first flushes: it pauses the writers, queues an *)
(* entry at the current end of the ring, and waits until the worker has    *)
(* passed it.  Stopping drains in the same way and joins the worker.       *)
(*                                                                         *)
(* A thread here writes the chunks 1..LineLength of a line over and over,  *)
(* through a source of its own.                                            *)
(***************************************************************************)
EXTENDS Integers, Sequences, FiniteSets

CONSTANTS
  Threads,      \* threads of the helper that write to the console
  Capacity,     \* slots of the ring
  LineLength,   \* chunks of a line
  MaxCalls      \* bound on the console calls of all threads

\* In a ring of one slot a published record would look like a free slot.
ASSUME CapacityAssumption == Capacity \in Nat /\ Capacity >= 2
ASSUME LineAssumption == LineLength \in Nat \ {0}
ASSUME ThreadsAssumption == {"stopper", "free"} \cap Threads = {}

VARIABLES
  slots,        \* g_consoleIngress: sequence, chunk and loss generation of each slot
  enq, deq,     \* the two positions
  accepting,    \* g_consoleIngressAccepting
  active,       \* threads counted by g_consoleIngressActiveProducers
  lossGen,      \* g_consoleIngressLossGeneration
  seenGen,      \* g_consoleIngressConsumedLossGeneration
  mutex,        \* holder of g_ownedLogEfzQueueMutex across a pause
  queue,        \* g_ownedLogEfzQueue
  queued, done, \* the enqueued and the processed sequence numbers
  worker,       \* WorkerLifecycle
  running,      \* the worker thread exists
  emergency,    \* g_ownedLogEfzEmergencyStop
  pc,           \* what each thread, and the stopping thread, is doing
  chunk,        \* the chunk each thread writes next
  calls,        \* console calls made so far
  pending,      \* the unfinished line of each source
  line          \* the line handed to NoteConsolePromptLine last

vars == <<slots, enq, deq, accepting, active, lossGen, seenGen, mutex, queue, queued, done, worker,
          running, emergency, pc, chunk, calls, pending, line>>
ring == <<slots, enq, deq>>
gens == <<lossGen, seenGen>>
control == <<queue, queued, done, worker, running, emergency>>
text == <<pending, line>>
progress == <<chunk, calls>>

Stopper == "stopper"
Free == "free"
Idle == [at |-> "idle", pos |-> 0]
At(t, where) == pc[t].at = where
Goto(t, where, pos) == pc' = [pc EXCEPT ![t] = [at |-> where, pos |-> pos]]
Index(p) == p % Capacity
EmptyRing == [i \in 0..(Capacity - 1) |-> [seq |-> i, t |-> Stopper, k |-> 0, gen |-> 0]]

Init ==
  /\ slots = EmptyRing
  /\ enq = 0 /\ deq = 0
  /\ accepting = FALSE
  /\ active = {}
  /\ lossGen = 0 /\ seenGen = 0
  /\ mutex = Free
  /\ queue = <<>> /\ queued = 0 /\ done = 0
  /\ worker = "Stopped" /\ running = FALSE /\ emergency = FALSE
  /\ pc = [t \in Threads \cup {Stopper} |-> Idle]
  /\ chunk = [t \in Threads |-> 1]
  /\ calls = 0
  /\ pending = [t \in Threads |-> <<>>]
  /\ line = <<>>

---------------------------------------------------------------------------
(* StartConsoleCaptureWorker, with ResetConsoleIngress: once in the life   *)
(* of a process.                                                           *)
StartConsoleCaptureWorker ==
  /\ mutex = Free /\ worker = "Stopped" /\ queued = 0 /\ ~emergency
  /\ slots' = EmptyRing
  /\ enq' = 0 /\ deq' = 0
  /\ seenGen' = lossGen
  /\ worker' = "Running" /\ running' = TRUE
  /\ accepting' = TRUE
  /\ UNCHANGED <<active, lossGen, mutex, queue, queued, done, emergency, pc, progress, text>>

---------------------------------------------------------------------------
(* EnqueueConsoleParseChunk.                                               *)

NextChunk(t) == chunk' = [chunk EXCEPT ![t] = (@ % LineLength) + 1]

(* Each of the four ways to lose a chunk. *)
Drop(t) ==
  /\ lossGen' = lossGen + 1
  /\ active' = active \ {t}
  /\ pc' = [pc EXCEPT ![t] = Idle]
  /\ NextChunk(t)
  /\ UNCHANGED <<slots, enq>>

Write(t) ==
  /\ At(t, "idle") /\ calls < MaxCalls
  /\ calls' = calls + 1
  /\ active' = active \cup {t}
  /\ Goto(t, "check", 0)
  /\ UNCHANGED <<ring, accepting, gens, mutex, control, chunk, text>>

(* Closed or full: dropped.  (An oversized chunk is dropped as if closed.) *)
RoomUnchecked == accepting
Room == accepting /\ slots[Index(enq)].seq = enq

CheckSlot(t) ==
  /\ At(t, "check")
  /\ IF Room
     THEN Goto(t, "claim", enq) /\ UNCHANGED <<slots, enq, lossGen, active, chunk>>
     ELSE Drop(t)
  /\ UNCHANGED <<deq, accepting, seenGen, mutex, control, calls, text>>

(* The compare-exchange of the position; losing it drops the chunk. *)
WonUnchecked(t) == TRUE
Won(t) == enq = pc[t].pos

Claim(t) ==
  /\ At(t, "claim")
  /\ IF Won(t)
     THEN enq' = pc[t].pos + 1 /\ Goto(t, "stamp", pc[t].pos) /\ UNCHANGED <<slots, lossGen, active, chunk>>
     ELSE Drop(t)
  /\ UNCHANGED <<deq, accepting, seenGen, mutex, control, calls, text>>

Stamp(t) ==
  /\ At(t, "stamp")
  /\ slots' = [slots EXCEPT ![Index(pc[t].pos)] =
                 [seq |-> @.seq, t |-> t, k |-> chunk[t], gen |-> lossGen]]
  /\ Goto(t, "publish", pc[t].pos)
  /\ UNCHANGED <<enq, deq, accepting, active, gens, mutex, control, progress, text>>

Publish(t) ==
  /\ At(t, "publish")
  /\ slots' = [slots EXCEPT ![Index(pc[t].pos)].seq = pc[t].pos + 1]
  /\ active' = active \ {t}
  /\ pc' = [pc EXCEPT ![t] = Idle]
  /\ NextChunk(t)
  /\ UNCHANGED <<enq, deq, accepting, gens, mutex, control, calls, text>>

---------------------------------------------------------------------------
(* PauseConsoleIngress: close the ring, then wait for the writers already  *)
(* inside it; the queue's mutex is held.                                   *)
Quiesced == active = {}

Boundary(kind) == [kind |-> kind, at |-> enq, gen |-> lossGen, seq |-> queued + 1]

(* EnqueueConsoleParseFlush, called before every read of the console. *)
FlushPause(t) ==
  /\ At(t, "idle") /\ mutex = Free /\ calls < MaxCalls
  /\ worker = "Running" /\ ~emergency
  /\ calls' = calls + 1
  /\ mutex' = t
  /\ accepting' = FALSE
  /\ Goto(t, "flush", IF accepting THEN 1 ELSE 0)
  /\ UNCHANGED <<ring, active, gens, control, chunk, text>>

FlushQueue(t) ==
  /\ At(t, "flush") /\ Quiesced
  /\ queue' = Append(queue, Boundary("flush"))
  /\ queued' = queued + 1
  /\ accepting' = (pc[t].pos = 1)
  /\ mutex' = Free
  /\ Goto(t, "wait", queued + 1) \/ Goto(t, "idle", 0)    \* waitForDrain or not
  /\ UNCHANGED <<ring, active, gens, done, worker, running, emergency, progress, text>>

FlushDone(t) ==
  /\ At(t, "wait") /\ mutex = Free
  /\ done >= pc[t].pos \/ worker = "Stopped" \/ emergency
  /\ Goto(t, IF done >= pc[t].pos THEN "flushed" ELSE "idle", 0)
  /\ UNCHANGED <<ring, accepting, active, gens, mutex, control, progress, text>>

ReadConsole(t) ==
  /\ At(t, "flushed")
  /\ pc' = [pc EXCEPT ![t] = Idle]
  /\ UNCHANGED <<ring, accepting, active, gens, mutex, control, progress, text>>

(* FlushPendingConsoleOutput parses what is pending itself when no worker     *)
(* takes entries; a caller that does not wait for the drain also does so while *)
(* the worker drains, or after an emergency stop.                             *)
FlushUnmanaged(t) ==
  /\ At(t, "idle") /\ mutex = Free /\ (worker # "Running" \/ emergency)
  /\ \E s \in Threads :
       /\ pending[s] # <<>>
       /\ line' = pending[s]
       /\ pending' = [pending EXCEPT ![s] = <<>>]
  /\ UNCHANGED <<ring, accepting, active, gens, mutex, control, pc, progress>>

---------------------------------------------------------------------------
(* ManagedLogEfzWorkerMain.                                                *)

(* ApplyConsoleIngressLossBoundary: any difference counts, since a record  *)
(* claimed earlier may carry a later generation.                           *)
LossBoundaryRising(gen) == gen > seenGen
LossBoundary(gen) == gen # seenGen

Parse(t, k, before) ==
  IF k = LineLength
  THEN line' = Append(before[t], k) /\ pending' = [before EXCEPT ![t] = <<>>]
  ELSE pending' = [before EXCEPT ![t] = Append(@, k)] /\ UNCHANGED line

AfterLoss(gen) == IF LossBoundary(gen) THEN [t \in Threads |-> <<>>] ELSE pending
SeenAfter(gen) == IF LossBoundary(gen) THEN gen ELSE seenGen

EntryDueAnyTime == queue # <<>>
EntryDueLate == queue # <<>> /\ deq > Head(queue).at
EntryDue == queue # <<>> /\ deq >= Head(queue).at

TakeRecord ==
  LET s == slots[Index(deq)] IN
  /\ running /\ ~emergency /\ mutex = Free /\ ~EntryDue
  /\ s.seq = deq + 1
  /\ Parse(s.t, s.k, AfterLoss(s.gen))
  /\ seenGen' = SeenAfter(s.gen)
  /\ slots' = [slots EXCEPT ![Index(deq)].seq = deq + Capacity]
  /\ deq' = deq + 1
  /\ UNCHANGED <<enq, accepting, active, lossGen, mutex, control, pc, progress>>

(* FlushPendingConsoleOutputLocked hands over every unfinished line. *)
TakeEntry ==
  LET e == Head(queue)
      left == AfterLoss(e.gen)
  IN
  /\ running /\ ~emergency /\ mutex = Free /\ EntryDue
  /\ queue' = Tail(queue)
  /\ done' = e.seq
  /\ seenGen' = SeenAfter(e.gen)
  /\ IF e.kind = "flush"
     THEN /\ pending' = [t \in Threads |-> <<>>]
          /\ \/ \E t \in Threads : left[t] # <<>> /\ line' = left[t]
             \/ (\A t \in Threads : left[t] = <<>>) /\ UNCHANGED line
     ELSE pending' = left /\ UNCHANGED line
  /\ UNCHANGED <<ring, accepting, active, lossGen, mutex, queued, worker, running, emergency,
                 pc, progress>>

DrainedLate == queue = <<>> /\ deq > enq
Drained == queue = <<>> /\ deq >= enq

WorkerExits ==
  /\ running /\ mutex = Free
  /\ emergency \/ (worker = "Stopping" /\ Drained)
  /\ running' = FALSE
  /\ UNCHANGED <<ring, accepting, active, gens, mutex, queue, queued, done, worker, emergency,
                 pc, progress, text>>

---------------------------------------------------------------------------
(* StopManagedLogEfzWorker, draining: the close entry, the wait for it,    *)
(* the join, the clean up.                                                 *)
StopPause ==
  /\ At(Stopper, "idle") /\ mutex = Free /\ worker # "Stopped"
  /\ worker' = IF worker = "Running" THEN "Draining" ELSE worker
  /\ accepting' = FALSE
  /\ mutex' = Stopper
  /\ Goto(Stopper, "pause", 0)
  /\ UNCHANGED <<ring, active, gens, queue, queued, done, running, emergency, progress, text>>

StopQueue ==
  /\ At(Stopper, "pause") /\ Quiesced
  /\ queue' = Append(queue, Boundary("close"))
  /\ queued' = queued + 1
  /\ mutex' = Free
  /\ Goto(Stopper, "drain", queued + 1)
  /\ UNCHANGED <<ring, accepting, active, gens, done, worker, running, emergency, progress, text>>

StopDrained ==
  /\ At(Stopper, "drain") /\ mutex = Free
  /\ done >= pc[Stopper].pos \/ emergency
  /\ worker' = "Stopping"
  /\ Goto(Stopper, "join", 0)
  /\ UNCHANGED <<ring, accepting, active, gens, mutex, queue, queued, done, running, emergency,
                 progress, text>>

StopJoined ==
  /\ At(Stopper, "join") /\ mutex = Free /\ ~running
  /\ worker' = "Stopped"
  /\ accepting' = FALSE
  /\ queue' = <<>>
  /\ pc' = [pc EXCEPT ![Stopper] = Idle]
  /\ UNCHANGED <<ring, active, gens, mutex, queued, done, running, emergency, progress, text>>

(* The same under the loader lock: no mutex, no wait. *)
EmergencyStop ==
  /\ ~emergency /\ worker # "Stopped"
  /\ emergency' = TRUE
  /\ accepting' = FALSE
  /\ UNCHANGED <<ring, active, gens, mutex, queue, queued, done, worker, running, pc, progress,
                 text>>

---------------------------------------------------------------------------
WriterStep(t) == CheckSlot(t) \/ Claim(t) \/ Stamp(t) \/ Publish(t)
FlushStep(t) == FlushQueue(t) \/ FlushDone(t) \/ ReadConsole(t)
WorkerStep == TakeRecord \/ TakeEntry \/ WorkerExits
StopStep == StopQueue \/ StopDrained \/ StopJoined

Next ==
  \/ StartConsoleCaptureWorker
  \/ \E t \in Threads : Write(t) \/ WriterStep(t) \/ FlushPause(t) \/ FlushStep(t) \/ FlushUnmanaged(t)
  \/ WorkerStep
  \/ StopPause \/ StopStep \/ EmergencyStop

(* The worker polls and is notified; every writer leaves the hook; whoever *)
(* waits on a condition is woken and gets the mutex.                       *)
Fairness ==
  /\ WF_vars(WorkerStep)
  /\ \A t \in Threads : WF_vars(WriterStep(t)) /\ SF_vars(FlushStep(t))
  /\ SF_vars(StopStep)

Spec == Init /\ [][Next]_vars /\ Fairness

---------------------------------------------------------------------------
TypeOK ==
  /\ slots \in [0..(Capacity - 1) -> [seq : Nat, t : Threads \cup {Stopper}, k : 0..LineLength, gen : Nat]]
  /\ deq \in Nat /\ enq \in deq..(deq + Capacity)
  /\ active \subseteq Threads
  /\ worker \in {"Stopped", "Running", "Draining", "Stopping"}
  /\ \A i \in 1..Len(queue) : queue[i].at <= enq

(* No line handed to the parser joins two chunks across one that was       *)
(* dropped, however records and drops of several threads interleave.       *)
NoSplice == \A i \in 1..(Len(line) - 1) : line[i + 1] = line[i] + 1

(* A thread that returns from a flush, and goes on to read the console,    *)
(* has nothing of its own left unparsed in the ring: the prompt it is      *)
(* about to answer has been recognised.                                    *)
FlushedIsParsed ==
  \A t \in Threads : At(t, "flushed") =>
    \A p \in deq..(enq - 1) : slots[Index(p)].seq = p + 1 => slots[Index(p)].t # t

(* Every slot is in the state its position calls for: no two writers ever  *)
(* own one slot, and none is lost to the ring.                             *)
RingSound ==
  \A p \in deq..(deq + Capacity - 1) :
    slots[Index(p)].seq =
      IF p >= enq \/ (\E t \in Threads : pc[t].at \in {"stamp", "publish"} /\ pc[t].pos = p)
      THEN p ELSE p + 1

(* Whoever waits for a flush is released. *)
FlushReturns == \A t \in Threads : At(t, "wait") ~> ~At(t, "wait")

(* A stop that waits ends with the worker joined. *)
StopCompletes == ~At(Stopper, "idle") ~> At(Stopper, "idle")

(* The capture loses no line silently: nothing is spliced, unparsed after   *)
(* a flush, or lost to the ring.                                            *)
ConsoleSafe == TypeOK /\ NoSplice /\ FlushedIsParsed /\ RingSound
=============================================================================
