---------------------------------- MODULE Logger ---------------------------------
(***************************************************************************)
(* The log and the crash report.  Any thread formats a line and puts it in  *)
(* a bounded queue that drops its oldest line when it is full; one writer   *)
(* thread of low priority takes the whole queue under one mutex and writes  *)
(* it under another.  A thread that must not lose its lines (a crash, a     *)
(* clean exit) takes the queue and writes it itself.  The options menu      *)
(* closes and reopens the file while all this goes on, and the module's     *)
(* detach stops the writer.                                                 *)
(*                                                                          *)
(* A line is its number.  The steps between two mutexes are actions; what   *)
(* is done under g_fileMutex is one.  The writer's condition variable is    *)
(* modelled with its two steps, the test under the mutex and the sleep that *)
(* gives the mutex up, since a signal between them is lost.                 *)
(***************************************************************************)
EXTENDS Integers, Sequences, FiniteSets

CONSTANTS
  MaxQueuedLines,  \* kNormalMaxQueuedLines
  MaxLines,        \* bound: lines logged
  MaxToggles,      \* bound: changes of the file logging setting
  MaxSessions,     \* bound: session boundaries
  Crashers         \* threads that may meet an unhandled exception

ASSUME LoggerAssumption ==
  /\ MaxQueuedLines \in Nat \ {0} /\ MaxLines \in Nat
  /\ "free" \notin Crashers

VARIABLES
  queue,           \* g_queue
  logged,          \* the number of the last line
  dropped,         \* the lines dropped by a full queue
  holder,          \* g_queueMutex: "free", or "writer" between test and sleep
  writer,          \* the writer thread: place and the batch in its hand
  flush,           \* the lines a crashing thread took from the queue
  file,            \* the log: contents, open, primed, whether it is enabled
  unlogged,        \* lines written while no file was open
  stop,            \* ShutdownLogger: place, and the last line before it
  crash,           \* each crashing thread's place
  latch,           \* g_dumpWritten
  crashMutex,      \* the holder of g_crashMutex, or "free"
  reports,         \* reports written since the latch was last armed
  count            \* how often the settings changed and sessions began

loggerVars ==
  <<queue, logged, dropped, holder, writer, flush, file, unlogged, stop, crash, latch, crashMutex,
    reports, count>>

Items(s) == {s[i] : i \in 1 .. Len(s)}

--------------------------------------------------------------------------------
(* The queue.                                                                 *)

(* EnqueueLine: at the limit the oldest line makes room, and is counted.       *)
Full == Len(queue) >= MaxQueuedLines
(* Mutant: the newest line takes the oldest one's place. *)
EnqueuedInPlace(line) == IF Full THEN [queue EXCEPT ![1] = line] ELSE Append(queue, line)
Enqueued(line) == IF Full THEN Append(Tail(queue), line) ELSE Append(queue, line)
(* The signal finds the writer asleep, or nobody.                              *)
Notify == writer' = IF writer.at = "asleep" THEN [writer EXCEPT !.at = "test"] ELSE writer

EnqueueLine ==
  /\ holder = "free" /\ logged < MaxLines
  /\ logged' = logged + 1
  /\ queue' = Enqueued(logged + 1)
  /\ dropped' = IF Full THEN dropped \cup {Head(queue)} ELSE dropped
  /\ Notify

Log ==
  /\ EnqueueLine
  /\ UNCHANGED <<holder, flush, file, unlogged, stop, crash, latch, crashMutex, reports, count>>

(* WriteBatchLocked, under g_fileMutex: a line is lost while no file is open.   *)
WriteBatchLocked(batch, by) ==
  IF file.open
  THEN /\ file' = [file EXCEPT !.lines =
                     @ \o [i \in 1 .. Len(batch) |-> [line |-> batch[i], by |-> by]]]
       /\ unlogged' = unlogged
  ELSE unlogged' = unlogged \cup Items(batch) /\ file' = file

--------------------------------------------------------------------------------
(* WriterThreadEntry.                                                         *)

Stopping == stop.at # "no"

WriterTests ==
  /\ writer.at = "test" /\ holder = "free"
  /\ IF queue # <<>> \/ Stopping
     THEN writer' = [at |-> "write", batch |-> queue] /\ queue' = <<>> /\ holder' = holder
     ELSE writer' = [writer EXCEPT !.at = "falling"] /\ holder' = "writer" /\ queue' = queue
  /\ UNCHANGED <<logged, dropped, flush, file, unlogged, stop, crash, latch, crashMutex, reports,
                 count>>

WriterSleeps ==
  /\ writer.at = "falling"
  /\ writer' = [writer EXCEPT !.at = "asleep"] /\ holder' = "free"
  /\ UNCHANGED <<queue, logged, dropped, flush, file, unlogged, stop, crash, latch, crashMutex,
                 reports, count>>

WriterWrites ==
  /\ writer.at \in {"write", "last"}
  /\ WriteBatchLocked(writer.batch, "writer")
  /\ writer' = [at |-> IF writer.at = "last" THEN "ended" ELSE "stop?", batch |-> <<>>]
  /\ UNCHANGED <<queue, logged, dropped, holder, flush, stop, crash, latch, crashMutex, reports,
                 count>>

(* After each batch the stop flag is read; before it ends the writer takes what *)
(* came in while it was writing.                                               *)
(* Mutant: it ends with the batch it was woken for. *)
EndAtOnce ==
  /\ writer.at = "stop?"
  /\ writer' = [writer EXCEPT !.at = IF Stopping THEN "ended" ELSE "test"]
  /\ UNCHANGED <<queue, logged, dropped, holder, flush, file, unlogged, stop, crash, latch,
                 crashMutex, reports, count>>
WriterReadsStop ==
  /\ writer.at = "stop?"
  /\ writer' = [writer EXCEPT !.at = IF Stopping THEN "drain" ELSE "test"]
  /\ UNCHANGED <<queue, logged, dropped, holder, flush, file, unlogged, stop, crash, latch,
                 crashMutex, reports, count>>

WriterDrains ==
  /\ writer.at = "drain" /\ holder = "free"
  /\ writer' = [at |-> "last", batch |-> queue] /\ queue' = <<>>
  /\ UNCHANGED <<logged, dropped, holder, flush, file, unlogged, stop, crash, latch, crashMutex,
                 reports, count>>

Writer == WriterTests \/ WriterSleeps \/ WriterWrites \/ WriterReadsStop \/ WriterDrains

--------------------------------------------------------------------------------
(* The file.                                                                  *)

(* The first file of a process starts afresh; every later one is appended to.   *)
(* Opening may fail.                                                            *)
(* Mutant: it starts afresh whenever the log is not kept across launches. *)
OpenAfresh == {[file EXCEPT !.open = TRUE, !.primed = TRUE, !.lines = <<>>], file}
OpenLogFileUnlocked ==
  {[file EXCEPT !.open = TRUE, !.primed = TRUE, !.lines = IF file.primed THEN @ ELSE <<>>], file}

SetFileLoggingEnabled ==
  /\ count.toggles < MaxToggles
  /\ count' = [count EXCEPT !.toggles = @ + 1]
  /\ IF file.enabled
     THEN file' = [file EXCEPT !.enabled = FALSE, !.open = FALSE]
     ELSE \E f \in OpenLogFileUnlocked : file' = [f EXCEPT !.enabled = TRUE]
  /\ UNCHANGED <<queue, logged, dropped, holder, writer, flush, unlogged, stop, crash, latch,
                 crashMutex, reports>>

(* ShutdownLogger: the flag is set under the writer's mutex, the writer is       *)
(* joined, and the file is closed under its own.                                *)
(* Mutant: the flag is an atomic and is set without the mutex. *)
StopUnlocked ==
  /\ stop.at = "no"
  /\ stop' = [at |-> "join", last |-> logged]
  /\ Notify
  /\ UNCHANGED <<queue, logged, dropped, holder, flush, file, unlogged, crash, latch, crashMutex,
                 reports, count>>
ShutdownLogger ==
  /\ stop.at = "no" /\ holder = "free"
  /\ stop' = [at |-> "join", last |-> logged]
  /\ Notify
  /\ UNCHANGED <<queue, logged, dropped, holder, flush, file, unlogged, crash, latch, crashMutex,
                 reports, count>>

ShutdownCloses ==
  /\ stop.at = "join" /\ writer.at = "ended"
  /\ stop' = [stop EXCEPT !.at = "closed"]
  /\ file' = [file EXCEPT !.open = FALSE]
  /\ UNCHANGED <<queue, logged, dropped, holder, writer, flush, unlogged, crash, latch, crashMutex,
                 reports, count>>

--------------------------------------------------------------------------------
(* The crash report.                                                          *)

CrashAt(t, place) == crash' = [crash EXCEPT ![t] = place]

(* UnhandledExceptionThunk: the lobby is left first, then one thread at a time   *)
(* reports.                                                                     *)
UnhandledException(t) ==
  /\ crash[t] = "runs"
  /\ CrashAt(t, "report")
  /\ UNCHANGED <<queue, logged, dropped, holder, writer, flush, file, unlogged, stop, latch,
                 crashMutex, reports, count>>

(* WriteCrashArtifacts: the first since the latch was armed.  The dump may fail. *)
(* Mutant: the latch is set by a dump that was written. *)
LatchIfDumped == latch' \in BOOLEAN
Latch == latch' = TRUE

WriteCrashArtifacts(t) ==
  /\ crash[t] = "report" /\ crashMutex = "free"
  /\ IF latch THEN CrashAt(t, "over") /\ UNCHANGED <<latch, crashMutex, reports>>
     ELSE CrashAt(t, "dumped") /\ Latch /\ crashMutex' = t /\ reports' = reports + 1
  /\ UNCHANGED <<queue, logged, dropped, holder, writer, flush, file, unlogged, stop, count>>

ReportLogs(t) ==
  /\ crash[t] = "dumped"
  /\ EnqueueLine
  /\ CrashAt(t, "take")
  /\ UNCHANGED <<holder, flush, file, unlogged, stop, latch, crashMutex, reports, count>>

(* FlushLoggerSync: the queue is taken, and written by this thread.              *)
(* Mutant: it is copied. *)
CopyQueue(t) ==
  /\ crash[t] = "take" /\ holder = "free"
  /\ flush' = queue /\ queue' = queue
  /\ CrashAt(t, "flush")
  /\ UNCHANGED <<logged, dropped, holder, writer, file, unlogged, stop, latch, crashMutex, reports,
                 count>>
FlushTakes(t) ==
  /\ crash[t] = "take" /\ holder = "free"
  /\ flush' = queue /\ queue' = <<>>
  /\ CrashAt(t, "flush")
  /\ UNCHANGED <<logged, dropped, holder, writer, file, unlogged, stop, latch, crashMutex, reports,
                 count>>

FlushWrites(t) ==
  /\ crash[t] = "flush"
  /\ WriteBatchLocked(flush, "flush")
  /\ flush' = <<>>
  /\ CrashAt(t, "over") /\ crashMutex' = "free"
  /\ UNCHANGED <<queue, logged, dropped, holder, writer, stop, latch, reports, count>>

(* RearmCrashArtifacts, at every session boundary.                              *)
RearmCrashArtifacts ==
  /\ crashMutex = "free" /\ count.sessions < MaxSessions
  /\ count' = [count EXCEPT !.sessions = @ + 1]
  /\ latch' = FALSE /\ reports' = 0
  /\ UNCHANGED <<queue, logged, dropped, holder, writer, flush, file, unlogged, stop, crash,
                 crashMutex>>

Crash == \E t \in Crashers :
  \/ UnhandledException(t) \/ WriteCrashArtifacts(t) \/ ReportLogs(t)
  \/ FlushTakes(t) \/ FlushWrites(t)

--------------------------------------------------------------------------------

(* InitializeLogger and InstallCrashHandlers have run.  An earlier launch may     *)
(* have left a line (number 0) in the file; with logging off it stays there.      *)
InitializeLogger ==
  {[lines |-> <<>>, open |-> TRUE, primed |-> TRUE, enabled |-> TRUE],
   [lines |-> <<[line |-> 0, by |-> "writer"]>>, open |-> FALSE, primed |-> FALSE,
    enabled |-> FALSE]}

LoggerInit ==
  /\ file \in InitializeLogger
  /\ queue = <<>> /\ logged = 0 /\ dropped = {} /\ holder = "free"
  /\ writer = [at |-> "test", batch |-> <<>>]
  /\ flush = <<>> /\ unlogged = {}
  /\ stop = [at |-> "no", last |-> 0]
  /\ crash = [t \in Crashers |-> "runs"] /\ latch = FALSE /\ crashMutex = "free" /\ reports = 0
  /\ count = [toggles |-> 0, sessions |-> 0]

LoggerNext ==
  \/ Log \/ Writer \/ SetFileLoggingEnabled \/ ShutdownLogger \/ ShutdownCloses
  \/ Crash \/ RearmCrashArtifacts

LoggerSpec == LoggerInit /\ [][LoggerNext]_loggerVars

(* The writer, the detach and a crashing thread are scheduled.                   *)
LoggerFairness ==
  WF_loggerVars(Writer) /\ WF_loggerVars(ShutdownCloses) /\ WF_loggerVars(Crash)

--------------------------------------------------------------------------------
(* Properties.                                                                *)

Written == {file.lines[i].line : i \in 1 .. Len(file.lines)} \ {0}

LoggerTypeOK ==
  /\ queue \in Seq(1 .. MaxLines) /\ Len(queue) <= MaxQueuedLines
  /\ logged \in 0 .. MaxLines /\ dropped \subseteq 1 .. MaxLines
  /\ holder \in {"free", "writer"} /\ (holder = "writer" <=> writer.at = "falling")
  /\ writer.at \in {"test", "falling", "asleep", "write", "stop?", "drain", "last", "ended"}
  /\ crashMutex \in Crashers \cup {"free"}
  /\ stop.at \in {"no", "join", "closed"}

(* Every line is in exactly one place: the queue, the writer's hand, a crashing   *)
(* thread's hand, the file, or among the dropped and the unlogged; the writer and *)
(* FlushLoggerSync never both write it and never both leave it.                    *)
EveryLineOnce ==
  LET places == <<Items(queue), Items(writer.batch), Items(flush), Written, dropped, unlogged>>
  IN /\ UNION Items(places) = 1 .. logged
     /\ \A i, j \in DOMAIN places : i # j => places[i] \cap places[j] = {}
     /\ \A i, j \in DOMAIN file.lines : i # j => file.lines[i].line # file.lines[j].line

(* The writer keeps the order in which lines were logged, and so do the flushes     *)
(* among themselves; lines change places only between the two, when one writes      *)
(* while the other holds an older batch in its hand.                                *)
OrderKept ==
  \A i, j \in DOMAIN file.lines :
    i < j /\ file.lines[i].line > file.lines[j].line => file.lines[i].by # file.lines[j].by

(* Switching the log off and on never loses what this process wrote to it           *)
(* (OpenLogFileUnlocked starts a file afresh once per process).                     *)
KeepsItsLines ==
  [][\A i \in DOMAIN file.lines : file.lines[i].line # 0 => i \in DOMAIN file'.lines]_file

(* When the module has closed its log, every line logged before the shutdown was    *)
(* asked for has been written, or was dropped, or is in a crashing thread's hand.   *)
ShutdownWritesAll ==
  stop.at = "closed" =>
    1 .. stop.last \subseteq Written \cup dropped \cup unlogged \cup Items(flush)

(* At most one report between two session boundaries, however many threads fail.    *)
OneReport == reports <= 1

(* The detach does not wait for ever on the writer.                                 *)
ShutdownEnds == stop.at = "join" ~> stop.at = "closed"

(* Every line logged is in one place, in order, and written at the end;     *)
(* there is one crash report.                                               *)
LoggerSafe ==
  /\ LoggerTypeOK /\ EveryLineOnce /\ OrderKept /\ ShutdownWritesAll /\ OneReport
================================================================================
