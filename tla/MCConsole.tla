------------------------------- MODULE MCConsole -------------------------------
(***************************************************************************)
(* The helper's console (ConsoleIngress), the mailbox its listener lines   *)
(* are published in (ListenerMailbox) and the questions recognised in it   *)
(* (Prompts).  A behaviour runs one of the three; the others stay in an    *)
(* initial state.                                                          *)
(***************************************************************************)
EXTENDS ConsoleIngress, ListenerMailbox, Prompts

VARIABLE part

--------------------------------------------------------------------------------
allVars == <<part, vars, mailboxVars, promptVars>>

Ingress(A) == part = "ingress" /\ A /\ UNCHANGED <<part, mailboxVars, promptVars>>
Mail(A) == part = "mailbox" /\ A /\ UNCHANGED <<part, vars, promptVars>>
Asks(A) == part = "prompts" /\ A /\ UNCHANGED <<part, vars, mailboxVars>>

PartsInit ==
  /\ part \in {"ingress", "mailbox", "prompts"}
  /\ Init /\ MailboxInit /\ PromptsInit
  /\ part # "prompts" => role = "host"
PartsNext == Ingress(Next) \/ Mail(MailboxNext) \/ Asks(PromptsNext)

(* The fairness of ConsoleIngress and of Prompts, each over its own variables. *)
PartsSpec ==
  /\ PartsInit /\ [][PartsNext]_allVars
  /\ WF_vars(part = "ingress" /\ WorkerStep)
  /\ \A t \in Threads : /\ WF_vars(part = "ingress" /\ WriterStep(t))
                        /\ SF_vars(part = "ingress" /\ FlushStep(t))
  /\ SF_vars(part = "ingress" /\ StopStep)
  /\ WF_promptVars(part = "prompts" /\ WritesWake)
  /\ WF_promptVars(part = "prompts" /\ CaptureStep)
  /\ WF_promptVars(part = "prompts" /\ ReaderStep)
  /\ WF_promptVars(part = "prompts" /\ TickStep)

--------------------------------------------------------------------------------
(* Console: whoever waits for a flush is released (ConsoleIngress,            *)
(* FlushReturns); questions: a queued answer is read (Prompts,                *)
(* QueuedAnswerIsServed) and a spectate question is closed (Prompts,          *)
(* SpectateQuestionCloses), unless the helper ends.  Two formulas serve both  *)
(* parts, one for each thread that flushes.                                   *)
Asking(t) ==
  \/ part = "ingress" /\ At(t, "wait")
  \/ /\ part = "prompts" /\ console.alive
     /\ IF t = (CHOOSE u \in Threads : TRUE)
        THEN SpectateOpen
        ELSE di.serial > di.served /\ ~Terminated
AskingEnds == \A t \in Threads : Asking(t) ~> ~Asking(t)

(* A stop of the capture ends with the worker joined (ConsoleIngress,         *)
(* StopCompletes), a deferred timeout ends the session (Prompts,              *)
(* TimeoutEndsSession).                                                       *)
StopsEnd ==
  (\/ part = "ingress" /\ ~At(Stopper, "idle")
   \/ part = "prompts" /\ TimeoutPending)
  ~> (\/ part = "ingress" /\ At(Stopper, "idle")
      \/ part = "prompts" /\ (phase \notin Live \/ ~console.alive))

(* Both: nobody waits in vain for the console or for an answer.              *)
ConsoleLive == AskingEnds /\ StopsEnd
================================================================================
