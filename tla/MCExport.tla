------------------------------- MODULE MCExport -------------------------------
(***************************************************************************)
(* What the mod shows others: the overlay's reset gate (ResetGate), the    *)
(* state it exports to companion mods (StateExport) and its log file       *)
(* (Logger).  A behaviour runs one of the three; the others stay in an     *)
(* initial state.                                                          *)
(***************************************************************************)
EXTENDS ResetGate, StateExport, Logger

VARIABLE part

--------------------------------------------------------------------------------
allVars == <<part, vars, exportVars, loggerVars>>

Gate(A) == part = "gate" /\ A /\ UNCHANGED <<part, exportVars, loggerVars>>
Exports(A) == part = "export" /\ A /\ UNCHANGED <<part, vars, loggerVars>>
Logs(A) == part = "logger" /\ A /\ UNCHANGED <<part, vars, exportVars>>

PartsInit ==
  /\ part \in {"gate", "export", "logger"}
  /\ Init /\ ExportInit /\ LoggerInit
  /\ part # "export" => training = "none"
  /\ part # "logger" => file.open
PartsNext == Gate(Next) \/ Exports(ExportNext) \/ Logs(LoggerNext)

(* The fairness of StateExport and of Logger. *)
PartsSpec ==
  /\ PartsInit /\ [][PartsNext]_allVars
  /\ WF_allVars(\/ Exports(Worker \/ WorkerTimeout \/ PublishSuspendedHeartbeat)
                \/ Logs(Writer))
  /\ WF_allVars(Exports(GameThread) \/ Logs(ShutdownCloses))
  /\ WF_allVars(Exports(Client("api")) \/ Logs(Crash))

--------------------------------------------------------------------------------
(* Nothing that was published goes back: the export's numbers, statuses and *)
(* scores (StateExport), and the lines of this process in the log (Logger). *)
NothingGoesBack == SeqAdvances /\ NothingOlder /\ ScoreHolds /\ KeepsItsLines

(* Nothing waits for ever: a queued status is taken by the exporter's       *)
(* worker, and the detach is not held up by the log's writer.               *)
Waiting == \/ part = "export" /\ req.pending
           \/ part = "logger" /\ stop.at = "join"
WaitsEnd == Waiting ~> ~Waiting
================================================================================
