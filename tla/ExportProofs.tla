----------------------------- MODULE ExportProofs -----------------------------
(***************************************************************************)
(* Proofs about what the mod shows others: the overlay's reset gate         *)
(* (ResetGate), the state it exports to companion mods (StateExport) and    *)
(* its log file (Logger), for any values of their constants.                *)
(*                                                                          *)
(* GateInv is inductive; it adds to the types that the backend is bound on  *)
(* the context's thread, that live objects belong to the bound device, that *)
(* a pending transaction is the acknowledged one and finds a backend of its *)
(* device invalidated, and that the render holding the gate is not on the   *)
(* device being reset.                                                      *)
(*                                                                          *)
(* ExportInv counts the updates in flight by thread, says where in an       *)
(* operation of the game's thread the exports are suspended and nothing can *)
(* be under way in the worker, and orders what is on its way behind what is *)
(* published.                                                               *)
(*                                                                          *)
(* LogInv puts every line logged in one place and orders what each of the   *)
(* two writers has written, holds and will take.                            *)
(***************************************************************************)
EXTENDS ResetGate, StateExport, Logger, TLAPS

--------------------------------------------------------------------------------
(* ResetGate *)

(* The gate starts open, unbound and without objects. *)
LEMMA InitGate == Init => GateInv
BY SpaceAssumption, NoneAssumption
   DEF Init, GateInv, TypeOK, BoundInv, ObjectsInv, PendingInv, DrawingInv,
       IsResetPending, Epochs

(* An accepted beforeReset closes the gate for its device and acknowledges
   the transaction: a backend bound there has a context to invalidate it. *)
LEMMA BeforeKeeps ==
    ASSUME GateInv, NEW d \in Devices, NEW e \in Epochs, NEW t \in Threads,
           BeforeOverlayReset(d, e, t)
    PROVE  GateInv'
<1> USE DEF GateInv
<1>1. NeedsInvalidation(d) <=> Invalidates(d)
  BY NoneAssumption DEF NeedsInvalidation, Invalidates, BoundInv
<1>2. /\ ackThread' = [ackThread EXCEPT ![d] = t]
      /\ ackEpoch' = [ackEpoch EXCEPT ![d] =
                        IF ackEpoch[d] # 0 /\ Older(e, ackEpoch[d]) THEN ackEpoch[d] ELSE e]
  BY <1>1 DEF BeforeOverlayReset
<1>3. ackEpoch' = [ackEpoch EXCEPT ![d] = e]
  <2>1. CASE ackEpoch[d] = 0
    BY <1>2, <2>1
  <2>2. CASE ackEpoch[d] # 0
    <3>1. IsResetPending /\ resetDevice = d /\ ackEpoch[d] = epoch
      BY <2>2 DEF PendingInv
    <3>2. ~Older(e, epoch)
      BY <3>1 DEF BeforeOverlayReset, AcceptsBefore, NotStale
    <3> QED BY <1>2, <3>1, <3>2
  <2> QED BY <2>1, <2>2
<1>4. /\ d # None /\ e # 0
      /\ resetDevice' = d /\ resetThread' = t /\ epoch' = e
      /\ phase' \in {"Pending", "BackendInvalidated"}
  BY NoneAssumption DEF BeforeOverlayReset, AcceptsBefore, TypeOK, IsResetPending
<1>5. TypeOK'
  BY <1>2, <1>3, <1>4 DEF BeforeOverlayReset, TypeOK, IsResetPending
<1>6. ObjectsInv' /\ BoundInv'
  BY DEF BeforeOverlayReset, ObjectsInv, BoundInv
<1>7. PendingInv'
  <2>1. \A x \in Devices : x # d => ackEpoch'[x] = 0
    BY <1>3, NoneAssumption DEF PendingInv, BeforeOverlayReset, AcceptsBefore, TypeOK
  <2>2. ackEpoch'[d] = e /\ ackThread'[d] = t
    BY <1>2, <1>3 DEF TypeOK
  <2>3. bound' = d => owner' = t /\ objects' = None /\ phase' = "BackendInvalidated"
    <3>1. CASE NeedsInvalidation(d)
      BY <1>1, <3>1 DEF BeforeOverlayReset, AcceptsBefore
    <3>2. CASE bound = d /\ phase = "BackendInvalidated"
      BY <3>2, <1>1 DEF BeforeOverlayReset, AcceptsBefore, PendingInv, IsResetPending,
                        NeedsInvalidation, Invalidates
    <3> QED BY <3>1, <3>2 DEF NeedsInvalidation, BeforeOverlayReset
  <2> QED BY <1>4, <2>1, <2>2, <2>3 DEF PendingInv, IsResetPending
<1>8. DrawingInv'
  BY DEF BeforeOverlayReset, DrawingInv, Free
<1> QED BY <1>5, <1>6, <1>7, <1>8

(* An accepted ready notification ends the one pending transaction. *)
LEMMA AfterKeeps ==
    ASSUME GateInv, NEW d \in Devices, NEW e \in Epochs, NEW t \in Threads,
           AfterOverlayReset(d, e, t)
    PROVE  GateInv'
<1> USE DEF GateInv
<1>1. IsResetPending /\ resetDevice = d /\ epoch = e /\ ackEpoch[d] = e
  BY DEF AfterOverlayReset, AcceptsAfter, PendingInv
<1>2. /\ ackEpoch' = [ackEpoch EXCEPT ![d] = 0]
      /\ ackThread' = [ackThread EXCEPT ![d] = None]
  BY <1>1 DEF AfterOverlayReset
<1>3. TypeOK'
  BY <1>2, SpaceAssumption DEF AfterOverlayReset, ClearReset, TypeOK, IsResetPending, Epochs
<1>4. ObjectsInv' /\ BoundInv'
  BY DEF AfterOverlayReset, ObjectsInv, BoundInv
<1>5. PendingInv'
  <2>1. \A x \in Devices : ackEpoch'[x] = 0
    BY <1>1, <1>2 DEF PendingInv, TypeOK
  <2> QED BY <2>1 DEF PendingInv, IsResetPending, AfterOverlayReset, ClearReset
<1>6. DrawingInv'
  BY DEF AfterOverlayReset, ClearReset, DrawingInv, Free, IsResetPending
<1> QED BY <1>3, <1>4, <1>5, <1>6

(* Binding, unbinding and drawing leave the transaction alone; a backend that
   goes away only takes the note that it was invalidated with it. *)
LEMMA BackendKeeps ==
    ASSUME GateInv, Rebind \/ Initialise \/ Draw \/ (\E t \in Threads : Suspend(t))
    PROVE  GateInv'
<1> USE DEF GateInv
<1> DEFINE Bound == Bind(drawing, drawer)
<1>0. ASSUME Rebind \/ Initialise
      PROVE  /\ drawing \in Devices /\ drawer \in Threads
             /\ drawing' = drawing /\ drawer' = drawer /\ objects' = None
             /\ resetDevice' = resetDevice /\ resetThread' = resetThread /\ epoch' = epoch
             /\ phase' \in {"Idle", "Pending", "BackendInvalidated"}
             /\ IsResetPending' <=> IsResetPending
             /\ ackEpoch' = ackEpoch /\ ackThread' = ackThread
             /\ ~(IsResetPending /\ resetDevice = drawing)
  BY <1>0, NoneAssumption DEF Rebind, Initialise, Free, DropInvalidation, CanRender, IsResetPending,
     reset, ack, TypeOK, DrawingInv
<1>1. CASE Rebind
  <2>1. contextThread' = contextThread /\ contextThread = drawer
    BY <1>0, <1>1, NoneAssumption DEF Rebind, DrawingInv
  <2>2. CASE Bound
    BY <1>0, <1>1, <2>1, <2>2, NoneAssumption DEF Bind, TypeOK, BoundInv, ObjectsInv,
       PendingInv, DrawingInv
  <2>3. CASE Unbind /\ context' = "AwaitingDevice"
    BY <1>0, <1>1, <2>1, <2>3, NoneAssumption DEF Unbind, TypeOK, BoundInv, ObjectsInv,
       PendingInv, DrawingInv
  <2> QED BY <1>1, <2>2, <2>3 DEF Rebind
<1>2. CASE Initialise
  <2>1. CASE Bound /\ contextThread' = drawer
    BY <1>0, <1>2, <2>1, NoneAssumption DEF Bind, TypeOK, BoundInv, ObjectsInv,
       PendingInv, DrawingInv
  <2>2. CASE Unbind /\ context' = "Dormant" /\ contextThread' = None
    BY <1>0, <1>2, <2>2, NoneAssumption DEF Unbind, TypeOK, BoundInv, ObjectsInv,
       PendingInv, DrawingInv
  <2> QED BY <1>2, <2>1, <2>2 DEF Initialise
<1>3. CASE Draw
  BY <1>3, NoneAssumption DEF Draw, CanRender, Free, TypeOK, BoundInv,
     ObjectsInv, PendingInv, DrawingInv, IsResetPending, reset, ack
<1>4. CASE \E t \in Threads : Suspend(t)
  BY <1>4, NoneAssumption DEF Suspend, Free, Unbind, DropInvalidation, TypeOK, BoundInv,
     ObjectsInv, PendingInv, DrawingInv, IsResetPending, ack
<1> QED BY <1>1, <1>2, <1>3, <1>4

(* Taking and leaving the gate. *)
LEMMA RenderKeeps ==
    ASSUME GateInv, RenderEnd \/ (\E d \in Devices, t \in Threads : RenderBegin(d, t))
    PROVE  GateInv'
BY NoneAssumption DEF GateInv, RenderEnd, RenderBegin, CanRender, Free, TypeOK, BoundInv,
   ObjectsInv, PendingInv, DrawingInv, IsResetPending, backend, reset, ack

LEMMA StepKeeps == GateInv /\ [Next]_vars => GateInv'
<1> SUFFICES ASSUME GateInv, [Next]_vars PROVE GateInv'
  OBVIOUS
<1>1. CASE UNCHANGED vars
  BY <1>1 DEF vars, GateInv, TypeOK, BoundInv, ObjectsInv, PendingInv, DrawingInv, IsResetPending
<1>2. CASE Next
  BY <1>2, BeforeKeeps, AfterKeeps, BackendKeeps, RenderKeeps DEF Next
<1> QED BY <1>1, <1>2

(* The inductive invariant holds in every state. *)
THEOREM Inductive == Spec => []GateInv
BY InitGate, StepKeeps, PTL DEF Spec

(* The gate's fields keep their types and are set and cleared together
   (overlay_reset_gate.h BeforeReset and AfterReset). *)
THEOREM TypeCorrect == Spec => []TypeOK
<1>1. GateInv => TypeOK
  BY DEF GateInv
<1> QED BY <1>1, Inductive, PTL

(* An acknowledged device stays without overlay objects and without renders
   until its newest transaction is completed. *)
THEOREM QuietDuringReset == Spec => []Quiesced
<1>1. GateInv => Quiesced
  BY NoneAssumption DEF GateInv, Quiesced, ObjectsInv, PendingInv, DrawingInv
<1> QED BY <1>1, Inductive, PTL

(* No order of calls leaves a gate that its own caller cannot reopen. *)
THEOREM NeverWedged == Spec => []CompletionAccepted
<1>1. GateInv => CompletionAccepted
  BY NoneAssumption DEF GateInv, CompletionAccepted, AcceptsAfter, BoundInv, PendingInv
<1> QED BY <1>1, Inductive, PTL

(* A reset takes objects from the device it is for, and from no other. *)
THEOREM OthersUntouched == Spec => OnlyTargetInvalidated
<1>1. GateInv /\ [Next]_vars =>
        [objects # None /\ objects' = None /\ bound' = bound /\ bound # None
            => ackEpoch'[objects] # 0]_vars
  <2> SUFFICES ASSUME GateInv, Next, objects # None, objects' = None, bound' = bound, bound # None
               PROVE  ackEpoch'[objects] # 0
    OBVIOUS
  <2> USE DEF GateInv
  <2>1. CASE \E d \in Devices, e \in Epochs, t \in Threads : BeforeOverlayReset(d, e, t)
    <3> PICK d \in Devices, e \in Epochs, t \in Threads : BeforeOverlayReset(d, e, t)
      BY <2>1
    <3>1. objects = d /\ Invalidates(d) /\ e # 0
      BY DEF BeforeOverlayReset, Invalidates, NeedsInvalidation, ObjectsInv, AcceptsBefore
    <3> QED BY <3>1 DEF BeforeOverlayReset, TypeOK
  <2>2. CASE \E d \in Devices, e \in Epochs, t \in Threads : AfterOverlayReset(d, e, t)
    BY <2>2, NoneAssumption DEF AfterOverlayReset
  <2>3. CASE Rebind
    BY <2>3, NoneAssumption DEF Rebind, Bind, Unbind, DrawingInv
  <2>4. CASE Initialise
    BY <2>4, NoneAssumption DEF Initialise, Bind, Unbind, DrawingInv
  <2>5. CASE Draw
    BY <2>5, NoneAssumption DEF Draw, Free, DrawingInv, TypeOK
  <2>6. CASE RenderEnd \/ (\E d \in Devices, t \in Threads : RenderBegin(d, t))
    BY <2>6 DEF RenderEnd, RenderBegin, backend
  <2>7. CASE \E t \in Threads : Suspend(t)
    BY <2>7 DEF Suspend, Unbind
  <2> QED BY <2>1, <2>2, <2>3, <2>4, <2>5, <2>6, <2>7 DEF Next
<1> QED BY <1>1, Inductive, PTL DEF Spec, OnlyTargetInvalidated

(* What the run export checks of the gate as one invariant. *)
THEOREM GateSafety == Spec => []GateSafe
<1>1. TypeOK /\ Quiesced /\ CompletionAccepted => GateSafe
  BY DEF GateSafe
<1> QED BY <1>1, TypeCorrect, QuietDuringReset, NeverWedged, PTL

--------------------------------------------------------------------------------
(* StateExport *)

Phases == {"Idle", "Connecting", "Connected", "Failed", "SessionEnded"}
Statuses == [stamp : Nat, phase : Phases, wins : Nat]
States == [by : {"update", "handoff", "none"}, seq : Nat, stamp : Nat, phase : Phases, id : Nat,
           end : {"None", "Failed", "SessionEnded"}, wins : Nat]
Books == [phase : Phases, id : Nat, end : {"None", "Failed", "SessionEnded"}, wins : Nat,
          prevWins : Nat, set : Nat]

(* What an operation of the game's thread still has to do. *)
Update == <<"Update">>
Training == <<"Training">>
TrainingUpdate == <<"Training", "Update">>
Online == <<"Training", "Update", "Suspend", "Ui">>
OnlineUpdate == <<"Update", "Suspend", "Ui">>
OnlineSuspend == <<"Suspend", "Ui">>
OnlineUi == <<"Ui">>
Todos ==
  {<<>>, Update, Training, TrainingUpdate, Online, OnlineUpdate, OnlineSuspend, OnlineUi}

(* Where the two threads are. *)
Queueing == {"count", "again", "try", "store", "leave", "signal"}
Suspending == {"cross", "look1", "look2", "look3", "look4", "quiet"}
Handing == {"prepared", "worked", "resume"}
GamePcs == {"next", "drain", "walked", "join", "down"} \cup Queueing \cup Suspending \cup Handing
Taken == {"take", "copy", "walk", "lock", "publish", "uncount"}
WorkerPcs == {"loop", "wait", "stopped", "count", "beat"} \cup Taken
Clerks == [pc : GamePcs, todo : Todos, handoff : BOOLEAN, kept : BOOLEAN, state : States,
           began : Nat]
Workers == [pc : WorkerPcs, beats : BOOLEAN, stopping : BOOLEAN, status : Statuses,
            state : States, began : Nat]

ExportTypes ==
  /\ status \in Statuses /\ th \in [{"game", "api"} -> Clerks] /\ worker \in Workers
  /\ mode \in {"Full", "Suspended"} /\ lock \in {"none", "worker", "game"}
  /\ req \in [status : Statuses, pending : BOOLEAN, event : BOOLEAN]
  /\ inFlight \in Nat /\ book \in Books /\ snap \in States /\ seq \in Nat
  /\ training \in {"absent", "none", "game"} /\ sim \in BOOLEAN
  /\ left \in [ops : 0 .. MaxOps, beats : 0 .. MaxBeats]

(* The game's thread. *)
Game == th["game"]
One(b) == IF b THEN 1 ELSE 0
(* The updates in flight are those of the two threads. *)
InFlightCounts ==
  inFlight = One(worker.pc \in Taken) + One(Game.pc \in {"again", "try", "store", "leave"})
Locked == (lock = "game" <=> Game.pc = "store") /\ (lock = "worker" <=> worker.pc = "publish")
(* What is left to do at each place. *)
InHandoff == Game.pc = "drain" \/ Game.handoff
Place ==
  /\ Game.pc \notin Suspending \cup Handing => ~Game.handoff
  /\ Game.pc \in Handing => Game.handoff
  /\ Game.kept => InHandoff
  /\ InHandoff => Game.todo \in {<<>>, Update, OnlineUpdate}
  /\ Game.pc \in Suspending /\ ~Game.handoff => Game.todo = OnlineUi
  /\ Game.pc \in Queueing => Game.todo \in {<<>>, OnlineSuspend}
  /\ Game.pc \in {"walked", "join", "down"} => Game.todo = <<>>
(* The game's thread alone changes the mode. *)
Modes ==
  /\ Game.pc \in Queueing => mode = "Full"
  /\ Game.pc \in Suspending \cup Handing \cup {"walked"} => mode = "Suspended"
  /\ Game.kept => mode = "Suspended"
  /\ Game.pc = "next" /\ Game.todo = OnlineUi => mode = "Suspended"
(* When nothing is, or can come, under way in the worker. *)
Quiet == ~req.pending /\ worker.pc \notin {"copy", "walk", "lock", "publish"}
Drained ==
  \/ Game.pc \in {"next", "walked", "join", "down", "look4", "quiet"} \cup Handing
  \/ Game.kept
QuietInv ==
  /\ mode = "Suspended" /\ Drained => Quiet
  /\ Game.pc = "look3" => ~req.pending
(* The simulation runs under a suspension that nobody is about to end. *)
SimInv ==
  sim => /\ mode = "Suspended" /\ (InHandoff => Game.kept)
         /\ Game.todo \in {<<>>, Update, Training, TrainingUpdate}
ThreadsInv == InFlightCounts /\ Locked /\ Place /\ Modes /\ QuietInv /\ SimInv

(* An end is published with its reason. *)
Ends(s) == s.by = "update" /\ s.phase \in {"Failed", "SessionEnded"} => s.end # "None"
EndsInv ==
  /\ Ends(worker.state) /\ Ends(Game.state) /\ Ends(snap)
  /\ book.phase \in {"Failed", "SessionEnded"} => book.end # "None"
(* What is on its way is newer than what is published, and older than what      *)
(* may follow it.                                                              *)
Newer(stamp, next) == snap.stamp <= stamp /\ stamp <= next
Stamps ==
  /\ snap.stamp <= status.stamp /\ req.status.stamp <= status.stamp
  /\ req.pending \/ worker.pc = "copy" => snap.stamp <= req.status.stamp
  /\ worker.pc = "walk" => Newer(worker.status.stamp, req.status.stamp)
  /\ worker.pc \in {"lock", "publish"} => Newer(worker.state.stamp, req.status.stamp)
  /\ Game.pc = "walked" => Newer(Game.state.stamp, status.stamp)
(* The book holds the newest session and its highest score. *)
Latest(s) == s.id = book.id /\ s.wins = book.wins
Scores ==
  /\ snap.id <= book.id /\ (snap.id = book.id => snap.wins <= book.wins)
  /\ worker.pc \in {"lock", "publish"} => Latest(worker.state)
  /\ Game.pc = "walked" => Latest(Game.state)
(* An operation of the game's thread gives two stamps at most. *)
Owing ==
  \/ Game.todo = Training
  \/ Game.todo = <<>> /\ Game.pc = "drain"
  \/ Game.todo = <<>> /\ Game.handoff /\ Game.pc \in Suspending \cup {"prepared"}
Budget == status.stamp + One(Owing) <= 2 * (MaxOps - left.ops)
DataInv == EndsInv /\ Stamps /\ Scores /\ Budget /\ snap.seq <= seq

ExportInv == ExportTypes /\ ThreadsInv /\ DataInv

--------------------------------------------------------------------------------
(* What is left to do, taken item by item. *)
LEMMA TodoItems ==
  /\ \A q \in Todos : q # <<>> /\ Head(q) = "Training" =>
       \/ q = Training /\ Tail(q) = <<>>
       \/ q = TrainingUpdate /\ Tail(q) = Update
       \/ q = Online /\ Tail(q) = OnlineUpdate
  /\ \A q \in Todos : q # <<>> /\ Head(q) = "Update" =>
       \/ q = Update /\ Tail(q) = <<>>
       \/ q = OnlineUpdate /\ Tail(q) = OnlineSuspend
  /\ \A q \in Todos : q # <<>> /\ Head(q) = "Suspend" =>
       q = OnlineSuspend /\ Tail(q) = OnlineUi
  /\ \A q \in Todos : q # <<>> /\ Head(q) = "Ui" => q = OnlineUi /\ Tail(q) = <<>>
<1> DEFINE P(q) ==
      /\ Head(q) = "Training" =>
           \/ q = Training /\ Tail(q) = <<>>
           \/ q = TrainingUpdate /\ Tail(q) = Update
           \/ q = Online /\ Tail(q) = OnlineUpdate
      /\ Head(q) = "Update" =>
           \/ q = Update /\ Tail(q) = <<>>
           \/ q = OnlineUpdate /\ Tail(q) = OnlineSuspend
      /\ Head(q) = "Suspend" => q = OnlineSuspend /\ Tail(q) = OnlineUi
      /\ Head(q) = "Ui" => q = OnlineUi /\ Tail(q) = <<>>
<1>1. P(Update)
  BY DEF Update
<1>2. P(Training)
  BY DEF Training
<1>3. P(TrainingUpdate)
  BY DEF TrainingUpdate, Update
<1>4. P(Online)
  BY DEF Online, OnlineUpdate
<1>5. P(OnlineUpdate)
  BY DEF OnlineUpdate, OnlineSuspend
<1>6. P(OnlineSuspend)
  BY DEF OnlineSuspend, OnlineUi
<1>7. P(OnlineUi)
  BY DEF OnlineUi
<1> HIDE DEF P
<1>8. \A q \in Todos : q # <<>> => P(q)
  BY <1>1, <1>2, <1>3, <1>4, <1>5, <1>6, <1>7 DEF Todos
<1> QED
  BY <1>8 DEF P

(* They are different. *)
LEMMA TodosDiffer ==
  /\ Update # <<>> /\ Training # <<>> /\ TrainingUpdate # <<>> /\ Online # <<>>
  /\ OnlineUpdate # <<>> /\ OnlineSuspend # <<>> /\ OnlineUi # <<>>
  /\ Update # Training /\ Update # TrainingUpdate /\ Update # Online /\ Update # OnlineUpdate
  /\ Update # OnlineSuspend /\ Update # OnlineUi
  /\ Training # TrainingUpdate /\ Training # Online /\ Training # OnlineUpdate
  /\ Training # OnlineSuspend /\ Training # OnlineUi
  /\ TrainingUpdate # Online /\ TrainingUpdate # OnlineUpdate /\ TrainingUpdate # OnlineSuspend
  /\ TrainingUpdate # OnlineUi
  /\ Online # OnlineUpdate /\ Online # OnlineSuspend /\ Online # OnlineUi
  /\ OnlineUpdate # OnlineSuspend /\ OnlineUpdate # OnlineUi /\ OnlineSuspend # OnlineUi
<1>1. /\ Len(<<>>) = 0 /\ Len(Update) = 1 /\ Len(Training) = 1 /\ Len(TrainingUpdate) = 2
      /\ Len(Online) = 4 /\ Len(OnlineUpdate) = 3 /\ Len(OnlineSuspend) = 2 /\ Len(OnlineUi) = 1
  BY DEF Update, Training, TrainingUpdate, Online, OnlineUpdate, OnlineSuspend, OnlineUi
<1>2. /\ Head(Update) = "Update" /\ Head(Training) = "Training" /\ Head(OnlineUi) = "Ui"
      /\ Head(TrainingUpdate) = "Training" /\ Head(OnlineSuspend) = "Suspend"
  BY DEF Update, Training, OnlineUi, TrainingUpdate, OnlineSuspend
<1>4. /\ Update # <<>> /\ Training # <<>> /\ TrainingUpdate # <<>> /\ Online # <<>>
      /\ OnlineUpdate # <<>> /\ OnlineSuspend # <<>> /\ OnlineUi # <<>>
  BY <1>1, SMT
<1>5. /\ Update # Training /\ Update # TrainingUpdate /\ Update # Online /\ Update # OnlineUpdate
      /\ Update # OnlineSuspend /\ Update # OnlineUi
  BY <1>1, <1>2, SMT
<1>6. /\ Training # TrainingUpdate /\ Training # Online /\ Training # OnlineUpdate
      /\ Training # OnlineSuspend /\ Training # OnlineUi
  BY <1>1, <1>2, SMT
<1>7. /\ TrainingUpdate # Online /\ TrainingUpdate # OnlineUpdate
      /\ TrainingUpdate # OnlineSuspend /\ TrainingUpdate # OnlineUi
  BY <1>1, <1>2, SMT
<1>8. /\ Online # OnlineUpdate /\ Online # OnlineSuspend /\ Online # OnlineUi
      /\ OnlineUpdate # OnlineSuspend /\ OnlineUpdate # OnlineUi /\ OnlineSuspend # OnlineUi
  BY <1>1, SMT
<1> QED
  BY <1>4, <1>5, <1>6, <1>7, <1>8

--------------------------------------------------------------------------------
(* What a thread is that has nothing to do. *)
LEMMA RestingIsClerk ==
  /\ Resting \in Clerks /\ Resting.pc = "next" /\ Resting.todo = <<>> /\ ~Resting.handoff
  /\ ~Resting.kept /\ Ends(Resting.state) /\ NoState \in States
<1>1. \A b \in {"update"}, p \in Phases, e \in {"None"} :
        [by |-> b, seq |-> 0, stamp |-> 0, phase |-> p, id |-> 0, end |-> e, wins |-> 0] \in States
  BY DEF States
<1>2. NoState \in States
  BY <1>1 DEF NoState, Phases
<1>3. \A q \in Todos, h \in {FALSE}, n \in States :
        [pc |-> "next", todo |-> q, handoff |-> h, kept |-> h, state |-> n, began |-> 0] \in Clerks
  BY DEF Clerks, GamePcs
<1>4. <<>> \in Todos /\ FALSE \in {FALSE}
  BY DEF Todos
<1>5. Resting \in Clerks
  BY <1>2, <1>3, <1>4, Zenon DEF Resting
<1> QED
  BY <1>2, <1>5 DEF Resting, Ends, NoState

(* Stamps are numbers. *)
LEMMA StampTypes ==
  ASSUME ExportTypes
  PROVE  /\ status.stamp \in Nat /\ snap.stamp \in Nat /\ req.status.stamp \in Nat
         /\ worker.status.stamp \in Nat /\ worker.state.stamp \in Nat
<1>1. status.stamp \in Nat
  BY DEF ExportTypes, Statuses
<1>2. req.status.stamp \in Nat
  <2>1. req.status \in Statuses
    BY DEF ExportTypes
  <2> QED
    BY <2>1 DEF Statuses
<1>3. worker.status.stamp \in Nat /\ worker.state.stamp \in Nat
  <2>1. worker.status \in Statuses /\ worker.state \in States
    BY DEF ExportTypes, Workers
  <2> QED
    BY <2>1 DEF Statuses, States
<1>4. snap.stamp \in Nat
  BY DEF ExportTypes, States
<1> QED
  BY <1>1, <1>2, <1>3, <1>4

(* Steps that move on without touching what is on its way. *)
LEMMA DataStays ==
  ASSUME ExportTypes, DataInv, UNCHANGED <<status, snap, seq, book>>, left'.ops = left.ops,
         worker'.status = worker.status, worker'.state = worker.state,
         Game'.state = Game.state \/ (Game'.state = NoState /\ Game'.pc # "walked"),
         req'.status = req.status,
         req'.pending \/ worker'.pc = "copy" => req.pending \/ worker.pc = "copy",
         worker'.pc = "walk" => worker.pc = "walk",
         worker'.pc \in {"lock", "publish"} => worker.pc \in {"lock", "publish"},
         Game'.pc = "walked" => Game.pc = "walked",
         Owing' => Owing
  PROVE  DataInv'
<1>1. EndsInv'
  BY RestingIsClerk DEF DataInv, EndsInv, Ends, Resting
<1>2. Stamps'
  BY DEF DataInv, Stamps, Newer
<1>3. Scores'
  BY DEF DataInv, Scores, Latest
<1>4. Budget'
  <2>1. One(Owing)' <= One(Owing) /\ One(Owing) \in {0, 1} /\ One(Owing)' \in {0, 1}
    BY DEF One
  <2>2. status.stamp \in Nat /\ left.ops \in Nat /\ MaxOps \in Nat
    BY ExportAssumption DEF ExportTypes, Statuses
  <2> QED
    BY <2>1, <2>2 DEF DataInv, Budget
<1> QED
  BY <1>1, <1>2, <1>3, <1>4 DEF DataInv

(* A step that moves the game's thread and nothing else of it. *)
GameGoes(pc, todo, handoff, kept) ==
  /\ th' \in [{"game", "api"} -> Clerks]
  /\ Game'.pc = pc /\ Game'.todo = todo /\ Game'.handoff = handoff /\ Game'.kept = kept
  /\ Game'.state = Game.state

(* At, for the game's thread. *)
LEMMA GameAt ==
  ASSUME th \in [{"game", "api"} -> Clerks], NEW pc \in GamePcs, At("game", pc)
  PROVE  GameGoes(pc, Game.todo, Game.handoff, Game.kept)
<1>1. Game \in Clerks
  BY DEF Game
<1>2. th' = [th EXCEPT !["game"].pc = pc]
  BY DEF At
<1>3. Game' = [Game EXCEPT !.pc = pc]
  BY <1>2 DEF Game
<1>4. [Game EXCEPT !.pc = pc] \in Clerks
  BY <1>1 DEF Clerks
<1>5. th' \in [{"game", "api"} -> Clerks]
  BY <1>2, <1>3, <1>4 DEF Game
<1> QED
  BY <1>1, <1>3, <1>5 DEF GameGoes, Clerks

(* Enter: the next item is begun. *)
LEMMA GameEnters ==
  ASSUME th \in [{"game", "api"} -> Clerks], NEW pc \in GamePcs, Enter("game", pc),
         Tail(Game.todo) \in Todos
  PROVE  GameGoes(pc, Tail(Game.todo), Game.handoff, Game.kept)
<1>1. Game \in Clerks
  BY DEF Game
<1>2. th' = [th EXCEPT !["game"].pc = pc, !["game"].todo = Tail(th["game"].todo)]
  BY DEF Enter
<1>3. Game' = [Game EXCEPT !.pc = pc, !.todo = Tail(Game.todo)]
  BY <1>2 DEF Game
<1>4. [Game EXCEPT !.pc = pc, !.todo = Tail(Game.todo)] \in Clerks
  BY <1>1 DEF Clerks
<1>5. th' \in [{"game", "api"} -> Clerks]
  BY <1>2, <1>3, <1>4 DEF Game
<1> QED
  BY <1>1, <1>3, <1>5 DEF GameGoes, Clerks

(* A thread that is done, or gives up, rests; what it derived is gone.         *)
LEMMA GameDone ==
  ASSUME th \in [{"game", "api"} -> Clerks], NEW q \in Todos,
         th' = [th EXCEPT !["game"] = [Resting EXCEPT !.todo = q]]
  PROVE  /\ th' \in [{"game", "api"} -> Clerks]
         /\ Game'.pc = "next" /\ Game'.todo = q /\ Game'.handoff = FALSE /\ Game'.kept = FALSE
         /\ Game'.state = NoState
<1>1. [Resting EXCEPT !.todo = q] \in Clerks
  BY RestingIsClerk DEF Clerks
<1>2. Game' = [Resting EXCEPT !.todo = q]
  BY DEF Game
<1>3. th' \in [{"game", "api"} -> Clerks]
  BY <1>1
<1>4. Resting.state = NoState
  BY DEF Resting
<1> QED
  BY <1>2, <1>3, <1>4, RestingIsClerk DEF Clerks

--------------------------------------------------------------------------------
(* QueueUpdate. *)
LEMMA QueueKeeps ==
  ASSUME ExportInv,
         \/ QueueCheck("game") \/ QueueCount("game") \/ QueueAgain("game") \/ QueueTry("game")
         \/ QueueStore("game") \/ QueueLeave("game") \/ QueueSignal("game")
  PROVE  ExportInv'
<1> USE DEF ExportInv
<1>1. th \in [{"game", "api"} -> Clerks] /\ Game \in Clerks /\ th["game"] = Game
  BY DEF ExportTypes, Game
<1>2. CASE QueueCheck("game")
  <2>1. /\ Game.pc = "next" /\ Game.todo \in {Update, OnlineUpdate}
        /\ Tail(Game.todo) \in Todos
        /\ Tail(Game.todo) = IF Game.todo = Update THEN <<>> ELSE OnlineSuspend
        /\ UNCHANGED <<status, worker, mode, lock, req, inFlight, book, snap, seq, training, sim,
                       left>>
    BY <1>1, <1>2, TodoItems, TodosDiffer DEF QueueCheck, Takes, Clerks, Todos
  <2>2. \/ mode = "Suspended" /\ GameGoes("next", Tail(Game.todo), Game.handoff, Game.kept)
        \/ mode = "Full" /\ GameGoes("count", Tail(Game.todo), Game.handoff, Game.kept)
    BY <1>1, <1>2, <2>1, GameEnters DEF QueueCheck, ExportTypes, GamePcs, Queueing
  <2>3. ExportTypes'
    BY <2>1, <2>2 DEF ExportTypes, GameGoes
  <2>4. ThreadsInv'
    BY <2>1, <2>2, TodosDiffer DEF ThreadsInv, GameGoes, InFlightCounts, Locked, Place,
       InHandoff, Modes, QuietInv, Quiet, Drained, SimInv, Queueing, Suspending, Handing, Taken,
       One
  <2>5. DataInv'
    <3>1. ~Owing'
      BY <2>1, <2>2, TodosDiffer DEF GameGoes, Owing, ThreadsInv, Place, Suspending, Handing
    <3> QED
      BY <2>1, <2>2, <3>1, DataStays DEF GameGoes
  <2> QED
    BY <2>3, <2>4, <2>5
<1>3. CASE QueueCount("game")
  <2>1. /\ Game.pc = "count" /\ inFlight' = inFlight + 1
        /\ UNCHANGED <<status, worker, mode, lock, req, book, snap, seq, training, sim, left>>
    BY <1>1, <1>3 DEF QueueCount
  <2>2. GameGoes("again", Game.todo, Game.handoff, Game.kept)
    BY <1>1, <1>3, GameAt DEF QueueCount, GamePcs, Queueing
  <2>3. ExportTypes'
    BY <2>1, <2>2 DEF ExportTypes, GameGoes
  <2>4. ThreadsInv'
    BY <2>1, <2>2 DEF ExportTypes, ThreadsInv, GameGoes, InFlightCounts, Locked, Place,
       InHandoff, Modes, QuietInv, Quiet, Drained, SimInv, Queueing, Suspending, Handing, Taken,
       One
  <2>5. Owing' => Owing
    BY <2>2 DEF GameGoes, Owing, Suspending
  <2>6. DataInv'
    BY <2>1, <2>2, <2>5, DataStays DEF GameGoes
  <2> QED
    BY <2>3, <2>4, <2>6
<1>4. CASE QueueAgain("game")
  <2>1. /\ Game.pc = "again" /\ mode = "Full"
        /\ UNCHANGED <<status, worker, mode, lock, req, inFlight, book, snap, seq, training, sim,
                       left>>
    BY <1>1, <1>4 DEF QueueAgain, ThreadsInv, Modes, Queueing
  <2>2. GameGoes("try", Game.todo, Game.handoff, Game.kept)
    BY <1>1, <1>4, <2>1, GameAt DEF QueueAgain, GamePcs, Queueing
  <2>3. ExportTypes'
    BY <2>1, <2>2 DEF ExportTypes, GameGoes
  <2>4. ThreadsInv'
    BY <2>1, <2>2 DEF ThreadsInv, GameGoes, InFlightCounts, Locked, Place, InHandoff, Modes,
       QuietInv, Quiet, Drained, SimInv, Queueing, Suspending, Handing, Taken, One
  <2>5. Owing' => Owing
    BY <2>2 DEF GameGoes, Owing, Suspending
  <2>6. DataInv'
    BY <2>1, <2>2, <2>5, DataStays DEF GameGoes
  <2> QED
    BY <2>3, <2>4, <2>6
<1>5. CASE QueueTry("game")
  <2>1. /\ Game.pc = "try" /\ Game.todo \in {<<>>, OnlineSuspend} /\ Game.todo \in Todos
        /\ UNCHANGED <<status, worker, mode, req, book, snap, seq, training, sim, left>>
    BY <1>1, <1>5 DEF QueueTry, ThreadsInv, Place, Queueing, Clerks
  <2>2. CASE lock = "none"
    <3>1. lock' = "game" /\ inFlight' = inFlight
      BY <1>5, <2>2 DEF QueueTry
    <3>2. GameGoes("store", Game.todo, Game.handoff, Game.kept)
      BY <1>1, <1>5, <2>2, GameAt DEF QueueTry, GamePcs, Queueing
    <3>3. ExportTypes'
      BY <2>1, <3>1, <3>2 DEF ExportTypes, GameGoes
    <3>4. ThreadsInv'
      BY <2>1, <2>2, <3>1, <3>2 DEF ThreadsInv, GameGoes, InFlightCounts, Locked, Place,
         InHandoff, Modes, QuietInv, Quiet, Drained, SimInv, Queueing, Suspending, Handing,
         Taken, One
    <3>5. Owing' => Owing
      BY <3>2 DEF GameGoes, Owing, Suspending
    <3>6. DataInv'
      BY <2>1, <3>2, <3>5, DataStays DEF GameGoes
    <3> QED
      BY <3>3, <3>4, <3>6
  <2>3. CASE lock # "none"
    <3>1. lock' = lock /\ inFlight' = inFlight - 1 /\ Done("game")
      BY <1>5, <2>3 DEF QueueTry
    <3>2. /\ th' \in [{"game", "api"} -> Clerks]
          /\ Game'.pc = "next" /\ Game'.todo = Game.todo /\ Game'.handoff = FALSE
          /\ Game'.kept = FALSE /\ Game'.state = NoState
      BY <1>1, <2>1, <3>1, GameDone DEF Done
    <3>3. inFlight' \in Nat
      BY <2>1, <3>1 DEF ExportTypes, ThreadsInv, InFlightCounts, One
    <3>4. ExportTypes'
      BY <2>1, <3>1, <3>2, <3>3 DEF ExportTypes
    <3>5. ThreadsInv'
      BY <2>1, <3>1, <3>2, TodosDiffer DEF ExportTypes, ThreadsInv, GameGoes, InFlightCounts,
         Locked, Place, InHandoff, Modes, QuietInv, Quiet, Drained, SimInv, Queueing,
         Suspending, Handing, Taken, One
    <3>6. ~Owing'
      BY <2>1, <3>2, TodosDiffer DEF Owing, Suspending
    <3>7. DataInv'
      BY <2>1, <3>2, <3>6, DataStays
    <3> QED
      BY <3>4, <3>5, <3>7
  <2> QED
    BY <2>2, <2>3
<1>6. CASE QueueStore("game")
  <2>1. /\ Game.pc = "store" /\ lock' = "none"
        /\ req' = [req EXCEPT !.status = status, !.pending = TRUE]
        /\ UNCHANGED <<status, worker, mode, inFlight, book, snap, seq, training, sim, left>>
    BY <1>1, <1>6 DEF QueueStore
  <2>2. GameGoes("leave", Game.todo, Game.handoff, Game.kept)
    BY <1>1, <1>6, GameAt DEF QueueStore, GamePcs, Queueing
  <2>3. /\ req' \in [status : Statuses, pending : BOOLEAN, event : BOOLEAN]
        /\ req'.status = status /\ req'.pending = TRUE
    BY <2>1 DEF ExportTypes
  <2>4. ExportTypes'
    BY <2>1, <2>2, <2>3 DEF ExportTypes, GameGoes
  <2>5. ThreadsInv'
    BY <2>1, <2>2, <2>3 DEF ThreadsInv, GameGoes, InFlightCounts, Locked, Place, InHandoff,
       Modes, QuietInv, Quiet, Drained, SimInv, Queueing, Suspending, Handing, Taken, One
  <2>6. EndsInv' /\ Scores'
    BY <2>1, <2>2 DEF DataInv, EndsInv, Scores, Latest, GameGoes
  <2>7. Stamps'
    BY <2>1, <2>2, <2>3, StampTypes DEF DataInv, Stamps, Newer, GameGoes
  <2>8. Budget'
    <3>1. ~Owing' /\ ~Owing
      BY <2>1, <2>2, TodosDiffer DEF GameGoes, Owing, Suspending, ThreadsInv, Place, Queueing
    <3> QED
      BY <2>1, <3>1 DEF DataInv, Budget, One
  <2> QED
    BY <2>1, <2>4, <2>5, <2>6, <2>7, <2>8 DEF DataInv
<1>7. CASE QueueLeave("game")
  <2>1. /\ Game.pc = "leave" /\ inFlight' = inFlight - 1
        /\ UNCHANGED <<status, worker, mode, lock, req, book, snap, seq, training, sim, left>>
    BY <1>1, <1>7 DEF QueueLeave
  <2>2. GameGoes("signal", Game.todo, Game.handoff, Game.kept)
    BY <1>1, <1>7, GameAt DEF QueueLeave, GamePcs, Queueing
  <2>3. inFlight' \in Nat
    BY <2>1 DEF ExportTypes, ThreadsInv, InFlightCounts, One
  <2>4. ExportTypes'
    BY <2>1, <2>2, <2>3 DEF ExportTypes, GameGoes
  <2>5. ThreadsInv'
    BY <2>1, <2>2 DEF ExportTypes, ThreadsInv, GameGoes, InFlightCounts, Locked, Place,
       InHandoff, Modes, QuietInv, Quiet, Drained, SimInv, Queueing, Suspending, Handing, Taken,
       One
  <2>6. Owing' => Owing
    BY <2>2 DEF GameGoes, Owing, Suspending
  <2>7. DataInv'
    BY <2>1, <2>2, <2>6, DataStays DEF GameGoes
  <2> QED
    BY <2>4, <2>5, <2>7
<1>8. CASE QueueSignal("game")
  <2>1. /\ Game.pc = "signal" /\ Game.todo \in {<<>>, OnlineSuspend} /\ Game.todo \in Todos
        /\ req' = [req EXCEPT !.event = TRUE] /\ Done("game")
        /\ UNCHANGED <<status, worker, mode, lock, inFlight, book, snap, seq, training, sim, left>>
    BY <1>1, <1>8 DEF QueueSignal, SetEvent, ThreadsInv, Place, Queueing, Clerks
  <2>2. /\ th' \in [{"game", "api"} -> Clerks]
        /\ Game'.pc = "next" /\ Game'.todo = Game.todo /\ Game'.handoff = FALSE
        /\ Game'.kept = FALSE /\ Game'.state = NoState
    BY <1>1, <2>1, GameDone DEF Done
  <2>3. /\ req' \in [status : Statuses, pending : BOOLEAN, event : BOOLEAN]
        /\ req'.status = req.status /\ req'.pending = req.pending
    BY <2>1 DEF ExportTypes
  <2>4. ExportTypes'
    BY <2>1, <2>2, <2>3 DEF ExportTypes
  <2>5. ThreadsInv'
    BY <2>1, <2>2, <2>3, TodosDiffer DEF ThreadsInv, GameGoes, InFlightCounts, Locked, Place,
       InHandoff, Modes, QuietInv, Quiet, Drained, SimInv, Queueing, Suspending, Handing, Taken,
       One
  <2>6. ~Owing'
    BY <2>1, <2>2, TodosDiffer DEF Owing, Suspending
  <2>7. DataInv'
    BY <2>1, <2>2, <2>3, <2>6, DataStays
  <2> QED
    BY <2>4, <2>5, <2>7
<1> QED
  BY <1>2, <1>3, <1>4, <1>5, <1>6, <1>7, <1>8

(* A thread that gives up its operation. *)
LEMMA GameAbandons ==
  ASSUME th \in [{"game", "api"} -> Clerks], Abandon("game")
  PROVE  /\ th' \in [{"game", "api"} -> Clerks]
         /\ Game'.pc = "next" /\ Game'.todo = <<>> /\ Game'.handoff = FALSE
         /\ Game'.kept = FALSE /\ Game'.state = NoState
<1>1. th' = [th EXCEPT !["game"] = Resting]
  BY DEF Abandon
<1>2. Game' = Resting
  BY <1>1 DEF Game
<1>3. th' \in [{"game", "api"} -> Clerks]
  BY <1>1, RestingIsClerk
<1>4. Resting.state = NoState
  BY DEF Resting
<1> QED
  BY <1>2, <1>3, <1>4, RestingIsClerk

(* The looks, in their order. *)
LEMMA LooksAre ==
  /\ DOMAIN Looks = 1 .. 4 /\ Len(Looks) = 4
  /\ Looks[1] = "look1" /\ Looks[2] = "look2" /\ Looks[3] = "look3" /\ Looks[4] = "look4"
BY DEF Looks

(* SuspendForOnlineSimulation. *)
LEMMA SuspendKeeps ==
  ASSUME ExportInv,
         \/ SuspendSet("game") \/ SuspendCross("game") \/ SuspendDone("game")
         \/ SuspendTimeout("game") \/ \E i \in DOMAIN Looks : Look("game", i)
  PROVE  ExportInv'
<1> USE DEF ExportInv
<1>1. th \in [{"game", "api"} -> Clerks] /\ Game \in Clerks /\ th["game"] = Game
  BY DEF ExportTypes, Game
<1>2. CASE SuspendSet("game")
  <2>1. /\ mode' = "Suspended"
        /\ UNCHANGED <<status, worker, lock, req, inFlight, book, snap, seq, training, sim, left>>
    BY <1>2 DEF SuspendSet
  <2>2. CASE Game.pc = "drain"
    <3>1. th' = [th EXCEPT !["game"].pc = "cross", !["game"].handoff = TRUE,
                           !["game"].todo = Game.todo]
      BY <1>1, <1>2, <2>2 DEF SuspendSet, Takes
    <3>2. Game' = [Game EXCEPT !.pc = "cross", !.handoff = TRUE, !.todo = Game.todo]
      BY <1>1, <3>1 DEF Game
    <3>3. [Game EXCEPT !.pc = "cross", !.handoff = TRUE, !.todo = Game.todo] \in Clerks
      BY <1>1 DEF Clerks, GamePcs, Suspending
    <3>4. th' \in [{"game", "api"} -> Clerks]
      BY <1>1, <3>1, <3>2, <3>3 DEF Game
    <3>5. GameGoes("cross", Game.todo, TRUE, Game.kept)
      BY <1>1, <3>2, <3>4 DEF GameGoes, Clerks
    <3>6. ExportTypes'
      BY <2>1, <3>5 DEF ExportTypes, GameGoes
    <3>7. ThreadsInv'
      BY <2>1, <2>2, <3>5, TodosDiffer DEF ThreadsInv, GameGoes, InFlightCounts, Locked, Place,
         InHandoff, Modes, QuietInv, Quiet, Drained, SimInv, Queueing, Suspending, Handing,
         Taken, One
    <3>8. Owing' => Owing
      BY <2>2, <3>5 DEF GameGoes, Owing
    <3>9. DataInv'
      BY <2>1, <3>5, <3>8, DataStays DEF GameGoes
    <3> QED
      BY <3>6, <3>7, <3>9
  <2>3. CASE Game.pc # "drain"
    <3>1. Game.pc = "next" /\ Game.todo = OnlineSuspend /\ Tail(Game.todo) = OnlineUi
      BY <1>1, <1>2, <2>3, TodoItems DEF SuspendSet, Takes, Clerks
    <3>2. th' = [th EXCEPT !["game"].pc = "cross", !["game"].handoff = FALSE,
                           !["game"].todo = OnlineUi]
      BY <1>1, <1>2, <2>3, <3>1 DEF SuspendSet
    <3>3. Game' = [Game EXCEPT !.pc = "cross", !.handoff = FALSE, !.todo = OnlineUi]
      BY <1>1, <3>2 DEF Game
    <3>4. [Game EXCEPT !.pc = "cross", !.handoff = FALSE, !.todo = OnlineUi] \in Clerks
      BY <1>1 DEF Clerks, GamePcs, Suspending, Todos
    <3>5. th' \in [{"game", "api"} -> Clerks]
      BY <1>1, <3>2, <3>3, <3>4 DEF Game
    <3>6. GameGoes("cross", OnlineUi, FALSE, Game.kept)
      BY <1>1, <3>3, <3>5 DEF GameGoes, Clerks
    <3>7. ExportTypes'
      BY <2>1, <3>6 DEF ExportTypes, GameGoes
    <3>8. ThreadsInv'
      BY <2>1, <3>1, <3>6, TodosDiffer DEF ThreadsInv, GameGoes, InFlightCounts, Locked, Place,
         InHandoff, Modes, QuietInv, Quiet, Drained, SimInv, Queueing, Suspending, Handing,
         Taken, One
    <3>9. ~Owing'
      BY <3>6, TodosDiffer DEF GameGoes, Owing
    <3>10. DataInv'
      BY <2>1, <3>6, <3>9, DataStays DEF GameGoes
    <3> QED
      BY <3>7, <3>8, <3>10
  <2> QED
    BY <2>2, <2>3
<1>3. CASE SuspendCross("game")
  <2>1. /\ Game.pc = "cross" /\ req' = [req EXCEPT !.event = TRUE]
        /\ UNCHANGED <<status, worker, mode, lock, inFlight, book, snap, seq, training, sim, left>>
    BY <1>1, <1>3 DEF SuspendCross, SetEvent
  <2>2. GameGoes("look1", Game.todo, Game.handoff, Game.kept)
    BY <1>1, <1>3, GameAt DEF SuspendCross, GamePcs, Suspending
  <2>3. /\ req' \in [status : Statuses, pending : BOOLEAN, event : BOOLEAN]
        /\ req'.status = req.status /\ req'.pending = req.pending
    BY <2>1 DEF ExportTypes
  <2>4. ExportTypes'
    BY <2>1, <2>2, <2>3 DEF ExportTypes, GameGoes
  <2>5. ThreadsInv'
    BY <2>1, <2>2, <2>3 DEF ThreadsInv, GameGoes, InFlightCounts, Locked, Place, InHandoff,
       Modes, QuietInv, Quiet, Drained, SimInv, Queueing, Suspending, Handing, Taken, One
  <2>6. Owing' => Owing
    BY <2>1, <2>2 DEF GameGoes, Owing, Suspending
  <2>7. DataInv'
    BY <2>1, <2>2, <2>3, <2>6, DataStays DEF GameGoes
  <2> QED
    BY <2>4, <2>5, <2>7
<1>4. CASE SuspendDone("game")
  <2>1. /\ Game.pc = "quiet"
        /\ UNCHANGED <<status, worker, mode, lock, req, inFlight, book, snap, seq, training, sim,
                       left>>
    BY <1>1, <1>4 DEF SuspendDone
  <2>2. CASE Game.handoff
    <3>1. GameGoes("prepared", Game.todo, Game.handoff, Game.kept)
      BY <1>1, <1>4, <2>2, GameAt DEF SuspendDone, GamePcs, Handing
    <3>2. ExportTypes'
      BY <2>1, <3>1 DEF ExportTypes, GameGoes
    <3>3. ThreadsInv'
      BY <2>1, <2>2, <3>1 DEF ThreadsInv, GameGoes, InFlightCounts, Locked, Place, InHandoff,
         Modes, QuietInv, Quiet, Drained, SimInv, Queueing, Suspending, Handing, Taken, One
    <3>4. Owing' => Owing
      BY <2>1, <2>2, <3>1 DEF GameGoes, Owing, Suspending
    <3>5. DataInv'
      BY <2>1, <3>1, <3>4, DataStays DEF GameGoes
    <3> QED
      BY <3>2, <3>3, <3>5
  <2>3. CASE ~Game.handoff
    <3>1. Game.todo = OnlineUi /\ OnlineUi \in Todos
      BY <2>1, <2>3 DEF ThreadsInv, Place, Suspending, Todos
    <3>2. /\ th' \in [{"game", "api"} -> Clerks]
          /\ Game'.pc = "next" /\ Game'.todo = OnlineUi /\ Game'.handoff = FALSE
          /\ Game'.kept = FALSE /\ Game'.state = NoState
      BY <1>1, <1>4, <2>3, <3>1, GameDone DEF SuspendDone, Done
    <3>3. ExportTypes'
      BY <2>1, <3>2 DEF ExportTypes
    <3>4. ThreadsInv'
      BY <2>1, <2>3, <3>1, <3>2, TodosDiffer DEF ThreadsInv, InFlightCounts, Locked, Place,
         InHandoff, Modes, QuietInv, Quiet, Drained, SimInv, Queueing, Suspending, Handing,
         Taken, One
    <3>5. ~Owing'
      BY <3>2, TodosDiffer DEF Owing
    <3>6. DataInv'
      BY <2>1, <3>2, <3>5, DataStays
    <3> QED
      BY <3>3, <3>4, <3>6
  <2> QED
    BY <2>2, <2>3
<1>5. CASE SuspendTimeout("game")
  <2>1. /\ Game.pc \in {"look1", "look2", "look3", "look4"}
        /\ mode' = IF Game.handoff /\ Game.kept THEN mode ELSE "Full"
        /\ training' = IF Game.handoff THEN "none" ELSE training
        /\ Abandon("game")
        /\ UNCHANGED <<status, worker, lock, req, inFlight, book, snap, seq, sim, left>>
    BY <1>1, <1>5, LooksAre DEF SuspendTimeout
  <2>2. /\ th' \in [{"game", "api"} -> Clerks]
        /\ Game'.pc = "next" /\ Game'.todo = <<>> /\ Game'.handoff = FALSE
        /\ Game'.kept = FALSE /\ Game'.state = NoState
    BY <1>1, <2>1, GameAbandons
  <2>3. ExportTypes'
    BY <2>1, <2>2 DEF ExportTypes
  <2>4. ThreadsInv'
    BY <2>1, <2>2, TodosDiffer DEF ThreadsInv, InFlightCounts, Locked, Place, InHandoff, Modes,
       QuietInv, Quiet, Drained, SimInv, Queueing, Suspending, Handing, Taken, One
  <2>5. ~Owing'
    BY <2>2, TodosDiffer DEF Owing, Suspending
  <2>6. DataInv'
    BY <2>1, <2>2, <2>5, DataStays
  <2> QED
    BY <2>3, <2>4, <2>6
<1>6. ASSUME NEW i \in DOMAIN Looks, Look("game", i) PROVE ExportInv'
  <2>1. UNCHANGED <<status, worker, mode, lock, req, inFlight, book, snap, seq, training, sim,
                    left>>
    BY <1>6 DEF Look
  <2>2. \/ Game.pc = "look1" /\ At("game", IF inFlight # 0 THEN "look1" ELSE "look2")
        \/ Game.pc = "look2" /\ At("game", IF req.pending THEN "look1" ELSE "look3")
        \/ Game.pc = "look3" /\ At("game", IF inFlight # 0 THEN "look1" ELSE "look4")
        \/ Game.pc = "look4" /\ At("game", IF req.pending THEN "look1" ELSE "quiet")
    <3>1. i = 1 \/ i = 2 \/ i = 3 \/ i = 4
      BY LooksAre
    <3>2. CASE i = 1
      BY <1>1, <1>6, <3>2, LooksAre DEF Look
    <3>3. CASE i = 2
      BY <1>1, <1>6, <3>3, LooksAre DEF Look
    <3>4. CASE i = 3
      BY <1>1, <1>6, <3>4, LooksAre DEF Look
    <3>5. CASE i = 4
      BY <1>1, <1>6, <3>5, LooksAre DEF Look
    <3> QED
      BY <3>1, <3>2, <3>3, <3>4, <3>5
  <2>3. ASSUME NEW pc \in {"look1", "look2", "look3", "look4", "quiet"}, At("game", pc),
               Game.pc \in {"look1", "look2", "look3", "look4"},
               pc = "look3" => ~req.pending,
               pc = "look4" => Game.pc = "look3" /\ inFlight = 0,
               pc = "quiet" => Game.pc = "look4"
        PROVE  ExportInv'
    <3>1. GameGoes(pc, Game.todo, Game.handoff, Game.kept)
      BY <1>1, <2>3, GameAt DEF GamePcs, Suspending
    <3>2. ExportTypes'
      BY <2>1, <3>1 DEF ExportTypes, GameGoes
    <3>3. ThreadsInv'
      BY <2>1, <2>3, <3>1 DEF ThreadsInv, GameGoes, InFlightCounts, Locked, Place, InHandoff,
         Modes, QuietInv, Quiet, Drained, SimInv, Queueing, Suspending, Handing, Taken, One
    <3>4. Owing' => Owing
      BY <2>3, <3>1 DEF GameGoes, Owing, Suspending
    <3>5. DataInv'
      BY <2>1, <2>3, <3>1, <3>4, DataStays DEF GameGoes
    <3> QED
      BY <3>2, <3>3, <3>5
  <2> QED
    BY <2>2, <2>3
<1> QED
  BY <1>2, <1>3, <1>4, <1>5, <1>6

(* TrainingHandoff. *)
LEMMA TrainingKeeps ==
  ASSUME ExportInv,
         \/ TrainingBegin("game") \/ TrainingWork("game") \/ TrainingPublish("game")
         \/ TrainingEnd("game")
  PROVE  ExportInv'
<1> USE DEF ExportInv
<1>1. th \in [{"game", "api"} -> Clerks] /\ Game \in Clerks /\ th["game"] = Game
  BY DEF ExportTypes, Game
<1>2. CASE TrainingBegin("game")
  <2>1. /\ Game.pc = "next" /\ Game.todo \in {Training, TrainingUpdate, Online}
        /\ Tail(Game.todo) = IF Game.todo = Training THEN <<>>
                             ELSE IF Game.todo = TrainingUpdate THEN Update ELSE OnlineUpdate
        /\ Tail(Game.todo) \in Todos
        /\ UNCHANGED <<status, worker, mode, lock, req, inFlight, book, snap, seq, sim, left>>
    BY <1>1, <1>2, TodoItems, TodosDiffer DEF TrainingBegin, Takes, Clerks, Todos
  <2>2. CASE Enter("game", "next") /\ UNCHANGED training
    <3>1. GameGoes("next", Tail(Game.todo), Game.handoff, Game.kept)
      BY <1>1, <2>1, <2>2, GameEnters DEF GamePcs
    <3>2. ExportTypes'
      BY <2>1, <2>2, <3>1 DEF ExportTypes, GameGoes
    <3>3. ThreadsInv'
      BY <2>1, <3>1, TodosDiffer DEF ThreadsInv, GameGoes, InFlightCounts, Locked, Place,
         InHandoff, Modes, QuietInv, Quiet, Drained, SimInv, Queueing, Suspending, Handing,
         Taken, One
    <3>4. ~Owing'
      BY <2>1, <3>1, TodosDiffer DEF GameGoes, Owing, Suspending
    <3>5. DataInv'
      BY <2>1, <3>1, <3>4, DataStays DEF GameGoes
    <3> QED
      BY <3>2, <3>3, <3>5
  <2>3. CASE Abandon("game") /\ UNCHANGED training
    <3>1. /\ th' \in [{"game", "api"} -> Clerks]
          /\ Game'.pc = "next" /\ Game'.todo = <<>> /\ Game'.handoff = FALSE
          /\ Game'.kept = FALSE /\ Game'.state = NoState
      BY <1>1, <2>3, GameAbandons
    <3>2. ExportTypes'
      BY <2>1, <2>3, <3>1 DEF ExportTypes
    <3>3. ThreadsInv'
      BY <2>1, <3>1, TodosDiffer DEF ThreadsInv, InFlightCounts, Locked, Place, InHandoff,
         Modes, QuietInv, Quiet, Drained, SimInv, Queueing, Suspending, Handing, Taken, One
    <3>4. ~Owing'
      BY <3>1, TodosDiffer DEF Owing, Suspending
    <3>5. DataInv'
      BY <2>1, <3>1, <3>4, DataStays
    <3> QED
      BY <3>2, <3>3, <3>5
  <2>4. CASE /\ training' = "game"
             /\ th' = [th EXCEPT !["game"].pc = "drain", !["game"].kept = mode = "Suspended",
                                 !["game"].todo = Tail(@)]
    <3>1. Game' = [Game EXCEPT !.pc = "drain", !.kept = mode = "Suspended",
                               !.todo = Tail(Game.todo)]
      BY <1>1, <2>4 DEF Game
    <3>2. [Game EXCEPT !.pc = "drain", !.kept = mode = "Suspended", !.todo = Tail(Game.todo)]
            \in Clerks
      BY <1>1, <2>1 DEF Clerks, GamePcs
    <3>3. th' \in [{"game", "api"} -> Clerks]
      BY <1>1, <2>4, <3>1, <3>2 DEF Game
    <3>4. GameGoes("drain", Tail(Game.todo), Game.handoff, mode = "Suspended")
      BY <1>1, <3>1, <3>3 DEF GameGoes, Clerks
    <3>5. ExportTypes'
      BY <2>1, <2>4, <3>4 DEF ExportTypes, GameGoes
    <3>6. ThreadsInv'
      BY <2>1, <3>4, TodosDiffer DEF ThreadsInv, GameGoes, InFlightCounts, Locked, Place,
         InHandoff, Modes, QuietInv, Quiet, Drained, SimInv, Queueing, Suspending, Handing,
         Taken, One
    <3>7. Owing' => Owing
      BY <2>1, <3>4, TodosDiffer DEF GameGoes, Owing, Suspending
    <3>8. DataInv'
      BY <2>1, <3>4, <3>7, DataStays DEF GameGoes
    <3> QED
      BY <3>5, <3>6, <3>8
  <2> QED
    BY <1>2, <2>2, <2>3, <2>4 DEF TrainingBegin
<1>3. CASE TrainingWork("game")
  <2>1. /\ Game.pc = "prepared" /\ Game.handoff
        /\ status' = IF Game.todo = <<>> /\ status.phase \in Over
                     THEN [phase |-> "Connecting", wins |-> 0, stamp |-> status.stamp + 1]
                     ELSE status
        /\ UNCHANGED <<worker, mode, lock, req, inFlight, book, snap, seq, training, sim, left>>
    BY <1>1, <1>3 DEF TrainingWork, ThreadsInv, Place, Handing
  <2>2. GameGoes("worked", Game.todo, Game.handoff, Game.kept)
    BY <1>1, <1>3, GameAt DEF TrainingWork, GamePcs, Handing
  <2>3. /\ status' \in Statuses /\ status.stamp \in Nat
        /\ status'.stamp = status.stamp \/ (Game.todo = <<>> /\ status'.stamp = status.stamp + 1)
    BY <2>1 DEF ExportTypes, Statuses, Phases
  <2>4. ExportTypes'
    BY <2>1, <2>2, <2>3 DEF ExportTypes, GameGoes
  <2>5. ThreadsInv'
    BY <2>1, <2>2 DEF ThreadsInv, GameGoes, InFlightCounts, Locked, Place, InHandoff, Modes,
       QuietInv, Quiet, Drained, SimInv, Queueing, Suspending, Handing, Taken, One
  <2>6. EndsInv' /\ Scores'
    BY <2>1, <2>2 DEF DataInv, EndsInv, Scores, Latest, GameGoes
  <2>7. Stamps'
    <3>1. Game'.pc # "walked"
      BY <2>2 DEF GameGoes
    <3>2. /\ snap.stamp \in Nat /\ req.status.stamp \in Nat /\ worker.status.stamp \in Nat
          /\ worker.state.stamp \in Nat /\ status'.stamp >= status.stamp
      BY <2>3, StampTypes
    <3> QED
      BY <2>1, <2>3, <3>1, <3>2 DEF DataInv, Stamps, Newer
  <2>8. Budget'
    <3>1. ~Owing' /\ (Game.todo = <<>> => Owing)
      BY <2>1, <2>2, TodosDiffer DEF GameGoes, Owing, Suspending, ThreadsInv, Place, InHandoff
    <3>2. left' = left /\ left.ops \in Nat /\ MaxOps \in Nat
      BY <2>1, ExportAssumption DEF ExportTypes
    <3>3. CASE Game.todo = <<>>
      <4>1. One(Owing) = 1 /\ One(Owing)' = 0
        BY <3>1, <3>3 DEF One
      <4> QED
        BY <2>3, <3>2, <4>1 DEF DataInv, Budget
    <3>4. CASE Game.todo # <<>>
      <4>1. One(Owing) \in {0, 1} /\ One(Owing)' = 0
        BY <3>1 DEF One
      <4> QED
        BY <2>3, <3>2, <3>4, <4>1 DEF DataInv, Budget
    <3> QED
      BY <3>3, <3>4
  <2> QED
    BY <2>1, <2>4, <2>5, <2>6, <2>7, <2>8 DEF DataInv
<1>4. CASE TrainingPublish("game")
  <2>1. /\ Game.pc = "worked"
        /\ snap' = [[snap EXCEPT !.stamp = status.stamp, !.phase = status.phase, !.end = "None",
                                 !.by = "handoff"] EXCEPT !.seq = seq + 1]
        /\ seq' = seq + 1
        /\ UNCHANGED <<status, worker, mode, lock, req, inFlight, book, training, sim, left>>
    BY <1>1, <1>4 DEF TrainingPublish, Publish
  <2>2. GameGoes("resume", Game.todo, Game.handoff, Game.kept)
    BY <1>1, <1>4, GameAt DEF TrainingPublish, GamePcs, Handing
  <2>3. /\ snap' \in States /\ snap'.seq = seq' /\ snap'.stamp = status.stamp
        /\ snap'.by = "handoff" /\ snap'.id = snap.id /\ snap'.wins = snap.wins /\ seq' \in Nat
    <3> DEFINE d == [snap EXCEPT !.stamp = status.stamp, !.phase = status.phase, !.end = "None",
                                 !.by = "handoff"]
    <3>1. snap \in States /\ seq + 1 \in Nat /\ status.stamp \in Nat /\ status.phase \in Phases
      BY DEF ExportTypes, Statuses
    <3>2. /\ d \in States /\ d.stamp = status.stamp /\ d.by = "handoff" /\ d.id = snap.id
          /\ d.wins = snap.wins
      BY <3>1 DEF States
    <3>3. snap' = [d EXCEPT !.seq = seq + 1]
      BY <2>1
    <3> HIDE DEF d
    <3>4. /\ [d EXCEPT !.seq = seq + 1] \in States /\ [d EXCEPT !.seq = seq + 1].seq = seq + 1
          /\ [d EXCEPT !.seq = seq + 1].stamp = d.stamp /\ [d EXCEPT !.seq = seq + 1].by = d.by
          /\ [d EXCEPT !.seq = seq + 1].id = d.id /\ [d EXCEPT !.seq = seq + 1].wins = d.wins
      BY <3>1, <3>2 DEF States
    <3> QED
      BY <2>1, <3>1, <3>2, <3>3, <3>4
  <2>4. ExportTypes'
    BY <2>1, <2>2, <2>3 DEF ExportTypes, GameGoes
  <2>5. ThreadsInv'
    BY <2>1, <2>2 DEF ThreadsInv, GameGoes, InFlightCounts, Locked, Place, InHandoff, Modes,
       QuietInv, Quiet, Drained, SimInv, Queueing, Suspending, Handing, Taken, One
  <2>6. EndsInv' /\ Scores'
    BY <2>1, <2>2, <2>3 DEF DataInv, EndsInv, Ends, Scores, Latest, GameGoes
  <2>7. Quiet
    BY <2>1 DEF ThreadsInv, Modes, QuietInv, Drained, Handing
  <2>8. Stamps'
    BY <2>1, <2>2, <2>3, <2>7 DEF DataInv, Stamps, Newer, GameGoes, Quiet, ExportTypes, Statuses
  <2>9. Budget'
    <3>1. Owing' => Owing
      BY <2>2 DEF GameGoes, Owing, Suspending
    <3>2. One(Owing)' <= One(Owing) /\ One(Owing) \in {0, 1} /\ One(Owing)' \in {0, 1}
      BY <3>1 DEF One
    <3>3. status.stamp \in Nat /\ left.ops \in Nat /\ MaxOps \in Nat
      BY ExportAssumption DEF ExportTypes, Statuses
    <3> QED
      BY <2>1, <3>2, <3>3 DEF DataInv, Budget
  <2>10. (snap.seq <= seq)'
    BY <2>3 DEF ExportTypes
  <2> QED
    BY <2>4, <2>5, <2>6, <2>8, <2>9, <2>10 DEF DataInv
<1>5. CASE TrainingEnd("game")
  <2>1. /\ Game.pc = "resume" /\ Game.handoff /\ Game.todo \in {<<>>, Update, OnlineUpdate}
        /\ Game.todo \in Todos
        /\ mode' = (IF Game.kept THEN mode ELSE "Full") /\ training' = "none" /\ Done("game")
        /\ UNCHANGED <<status, worker, lock, req, inFlight, book, snap, seq, sim, left>>
    BY <1>1, <1>5 DEF TrainingEnd, ResumeMode, ThreadsInv, Place, InHandoff, Handing, Clerks
  <2>2. /\ th' \in [{"game", "api"} -> Clerks]
        /\ Game'.pc = "next" /\ Game'.todo = Game.todo /\ Game'.handoff = FALSE
        /\ Game'.kept = FALSE /\ Game'.state = NoState
    BY <1>1, <2>1, GameDone DEF Done
  <2>3. ExportTypes'
    BY <2>1, <2>2 DEF ExportTypes
  <2>4. ThreadsInv'
    BY <2>1, <2>2, TodosDiffer DEF ThreadsInv, InFlightCounts, Locked, Place, InHandoff, Modes,
       QuietInv, Quiet, Drained, SimInv, Queueing, Suspending, Handing, Taken, One
  <2>5. ~Owing'
    BY <2>1, <2>2, TodosDiffer DEF Owing, Suspending
  <2>6. DataInv'
    BY <2>1, <2>2, <2>5, DataStays
  <2> QED
    BY <2>3, <2>4, <2>6
<1> QED
  BY <1>2, <1>3, <1>4, <1>5

--------------------------------------------------------------------------------
(* A publication numbers what it publishes. *)
LEMMA Publishing ==
  ASSUME NEW d \in States, NEW n, seq \in Nat, Publish(d, n)
  PROVE  /\ snap' \in States /\ seq' = seq + 1 /\ seq' \in Nat /\ snap'.seq = seq'
         /\ snap'.by = d.by /\ snap'.stamp = d.stamp /\ snap'.phase = d.phase /\ snap'.id = d.id
         /\ snap'.end = d.end /\ snap'.wins = d.wins
<1>1. snap' = [d EXCEPT !.seq = seq + 1] /\ seq' = seq + 1 /\ seq + 1 \in Nat
  BY DEF Publish
<1>2. /\ [d EXCEPT !.seq = seq + 1] \in States /\ [d EXCEPT !.seq = seq + 1].seq = seq + 1
      /\ [d EXCEPT !.seq = seq + 1].stamp = d.stamp /\ [d EXCEPT !.seq = seq + 1].by = d.by
      /\ [d EXCEPT !.seq = seq + 1].id = d.id /\ [d EXCEPT !.seq = seq + 1].wins = d.wins
      /\ [d EXCEPT !.seq = seq + 1].phase = d.phase /\ [d EXCEPT !.seq = seq + 1].end = d.end
  BY <1>1 DEF States
<1> QED
  BY <1>1, <1>2

(* The high water of two totals. *)
LEMMA HighWaterIs ==
  \A a, b \in Nat : HighWater(a, b) \in Nat /\ HighWater(a, b) >= b
BY DEF HighWater

(* What UpdateNow remembers: never an older session, never a lower score of it,  *)
(* and an end once the phase is one.                                           *)
LEMMA RememberedIs ==
  ASSUME book \in Books, NEW s \in Statuses,
         book.phase \in {"Failed", "SessionEnded"} => book.end # "None"
  PROVE  /\ Remembered(s) \in Books /\ Remembered(s).phase = s.phase
         /\ Remembered(s).id >= book.id
         /\ Remembered(s).id = book.id => Remembered(s).wins >= book.wins
         /\ s.phase \in {"Failed", "SessionEnded"} => Remembered(s).end # "None"
<1> DEFINE b == IF s.phase = "Connecting" /\ book.phase \in Over THEN NewSession(book) ELSE book
           e == DeriveEndReason(s.phase, book.phase)
           w == HighWater(s.wins, b.wins)
           end == IF e # "None" THEN e ELSE b.end
           set == IF b.prevWins # 0 /\ w = 0 THEN b.set + 1 ELSE b.set
<1>1. s.phase \in Phases /\ s.wins \in Nat
  BY DEF Statuses
<1>2. NewSession(book) \in Books /\ NewSession(book).id = book.id + 1
  <2>1. book.id + 1 \in Nat
    BY DEF Books
  <2>2. ASSUME NEW i \in Nat
        PROVE  /\ [book EXCEPT !.id = i, !.end = "None", !.wins = 0, !.prevWins = 0] \in Books
               /\ [book EXCEPT !.id = i, !.end = "None", !.wins = 0, !.prevWins = 0].id = i
    BY DEF Books
  <2>3. NewSession(book)
        = [book EXCEPT !.id = book.id + 1, !.end = "None", !.wins = 0, !.prevWins = 0]
    BY DEF NewSession
  <2> QED
    BY <2>1, <2>2, <2>3
<1>3. /\ b \in Books /\ b.id >= book.id /\ (b.id = book.id => b = book)
      /\ (s.phase # "Connecting" => b = book)
  BY <1>2 DEF Books
<1>4. e \in {"None", "Failed", "SessionEnded"}
  BY DEF DeriveEndReason
<1>5. s.phase \in {"Failed", "SessionEnded"} =>
        e # "None" \/ book.phase \in {"Failed", "SessionEnded"}
  BY DEF DeriveEndReason
<1> HIDE DEF b, e
<1>6. w \in Nat /\ w >= b.wins
  BY <1>1, <1>3, HighWaterIs DEF Books
<1> HIDE DEF w
<1>7. end \in {"None", "Failed", "SessionEnded"} /\ set \in Nat
  BY <1>3, <1>4 DEF Books
<1>8. Remembered(s)
      = [b EXCEPT !.phase = s.phase, !.end = end, !.wins = w, !.set = set, !.prevWins = w]
  BY DEF Remembered, b, e, w
<1>9. s.phase \in {"Failed", "SessionEnded"} => end # "None"
  BY <1>3, <1>5
<1> HIDE DEF end, set
<1>10. ASSUME NEW r,
              r = [b EXCEPT !.phase = s.phase, !.end = end, !.wins = w, !.set = set,
                            !.prevWins = w]
       PROVE  r \in Books /\ r.phase = s.phase /\ r.id = b.id /\ r.wins = w /\ r.end = end
  BY <1>1, <1>3, <1>6, <1>7, <1>10 DEF Books
<1> QED
  BY <1>3, <1>6, <1>8, <1>9, <1>10

(* What is derived from it. *)
LEMMA DerivedIs ==
  ASSUME NEW s \in Statuses, NEW b \in Books
  PROVE  /\ Derived(s, b) \in States /\ Derived(s, b).stamp = s.stamp /\ Derived(s, b).by = "update"
         /\ Derived(s, b).phase = s.phase /\ Derived(s, b).id = b.id /\ Derived(s, b).end = b.end
         /\ Derived(s, b).wins = b.wins
<1>1. /\ s.stamp \in Nat /\ s.phase \in Phases /\ b.id \in Nat /\ b.wins \in Nat
      /\ b.end \in {"None", "Failed", "SessionEnded"}
  BY DEF Statuses, Books
<1>2. \A a \in {"update"}, n \in {0}, p \in Phases, t, i, v \in Nat,
        r \in {"None", "Failed", "SessionEnded"} :
        [by |-> a, seq |-> n, stamp |-> t, phase |-> p, id |-> i, end |-> r, wins |-> v] \in States
  BY DEF States
<1>3. Derived(s, b) \in States
  BY <1>1, <1>2 DEF Derived
<1> QED
  BY <1>3 DEF Derived

(* The status moves on by one stamp. *)
LEMMA MovesOn ==
  ASSUME status \in Statuses, Moves
  PROVE  status' \in Statuses /\ status'.stamp = status.stamp + 1 /\ status.stamp \in Nat
<1>1. status.stamp \in Nat /\ status.wins \in Nat
  BY DEF Statuses
<1>2. \A p \in Phases : [status EXCEPT !.phase = p, !.wins = 0] \in Statuses
                        /\ [status EXCEPT !.phase = p, !.wins = 0].stamp = status.stamp
  BY DEF Statuses
<1>3. \A p \in Phases : [status EXCEPT !.phase = p] \in Statuses
                        /\ [status EXCEPT !.phase = p].stamp = status.stamp
  BY DEF Statuses
<1>4. \A w \in Nat : [status EXCEPT !.wins = w] \in Statuses
                     /\ [status EXCEPT !.wins = w].stamp = status.stamp
  BY DEF Statuses
<1>5. \A s \in Successors(status) : s \in Statuses /\ s.stamp = status.stamp
  <2>1. CASE status.phase \in Over
    <3>1. ASSUME NEW s \in Successors(status)
          PROVE  s \in Statuses /\ s.stamp = status.stamp
      <4>1. PICK p \in {"Connecting", "Connected"} : s = [status EXCEPT !.phase = p, !.wins = 0]
        BY <2>1, <3>1 DEF Successors, Over
      <4>2. p \in Phases
        BY <4>1 DEF Phases
      <4> QED
        BY <1>2, <4>1, <4>2
    <3> QED
      BY <3>1
  <2>2. CASE status.phase = "Connecting"
    BY <1>3, <2>2 DEF Successors, Phases, Over
  <2>3. CASE status.phase \notin Over /\ status.phase # "Connecting"
    <3>1. 0 \in Nat /\ status.wins + 1 \in Nat /\ "SessionEnded" \in Phases
      BY <1>1 DEF Phases
    <3>2. Successors(status) = {[status EXCEPT !.wins = w] : w \in {0, status.wins + 1}}
                               \cup {[status EXCEPT !.phase = "SessionEnded"]}
      BY <2>3 DEF Successors
    <3>3. ASSUME NEW s \in Successors(status) PROVE s \in Statuses /\ s.stamp = status.stamp
      <4>1. CASE s = [status EXCEPT !.phase = "SessionEnded"]
        BY <1>3, <3>1, <4>1
      <4>2. CASE \E w \in {0, status.wins + 1} : s = [status EXCEPT !.wins = w]
        BY <1>4, <3>1, <4>2
      <4> QED
        BY <3>2, <3>3, <4>1, <4>2
    <3> QED
      BY <3>3
  <2> QED
    BY <2>1, <2>2, <2>3
<1>6. PICK s \in Statuses : s.stamp = status.stamp /\ status' = [s EXCEPT !.stamp = s.stamp + 1]
  BY <1>5 DEF Moves
<1>7. /\ [s EXCEPT !.stamp = s.stamp + 1] \in Statuses
      /\ [s EXCEPT !.stamp = s.stamp + 1].stamp = s.stamp + 1
  BY DEF Statuses
<1> QED
  BY <1>1, <1>6, <1>7

(* One operation fewer leaves room for two stamps more. *)
LEMMA OneMoreFits ==
  ASSUME NEW a \in Nat, NEW b \in Int, NEW m \in Nat, NEW x \in Nat,
         a <= 2 * (m - x), b <= a + 1
  PROVE  \A y : y = x - 1 => b <= 2 * (m - y)
<1>1. 2 * (m - (x - 1)) = 2 * (m - x) + 2
  OBVIOUS
<1> QED
  BY <1>1

(* An operation of the game's thread begins, with a new status or without. *)
LEMMA DataBegins ==
  ASSUME ExportTypes, DataInv, UNCHANGED <<worker, req, book, snap, seq>>,
         Game'.state = Game.state, Game.pc = "next", Game'.pc = "next", Game.todo = <<>>,
         ~Game.handoff, left.ops > 0, left'.ops = left.ops - 1,
         \/ status' = status
         \/ status'.stamp = status.stamp + 1 /\ ~Owing'
  PROVE  DataInv'
<1>1. /\ status.stamp \in Nat /\ left.ops \in Nat /\ MaxOps \in Nat /\ snap.stamp \in Nat
      /\ req.status.stamp \in Nat /\ worker.status.stamp \in Nat /\ worker.state.stamp \in Nat
      /\ left.ops \in Int
  <2>1. left.ops \in Nat /\ MaxOps \in Nat /\ left.ops \in Int
    BY ExportAssumption DEF ExportTypes
  <2> QED
    BY <2>1, StampTypes
<1>2. status'.stamp >= status.stamp /\ status'.stamp \in Nat
  BY <1>1
<1>3. EndsInv' /\ Scores'
  BY DEF DataInv, EndsInv, Ends, Scores, Latest
<1>4. Stamps'
  BY <1>1, <1>2 DEF DataInv, Stamps, Newer
<1>5. Budget'
  <2>1. ~Owing
    BY TodosDiffer DEF Owing, Suspending
  <2>2. status.stamp <= 2 * (MaxOps - left.ops)
    BY <1>1, <2>1 DEF DataInv, Budget, One
  <2>3. status'.stamp + One(Owing)' <= status.stamp + 1
    BY <1>1 DEF One
  <2>4. One(Owing)' \in {0, 1}
    BY DEF One
  <2>5. status'.stamp + One(Owing)' \in Int
    BY <1>2, <2>4
  <2>6. status'.stamp + One(Owing)' <= 2 * (MaxOps - left'.ops)
    BY <1>1, <2>2, <2>3, <2>5, OneMoreFits, Zenon
  <2> QED
    BY <2>6 DEF Budget
<1> QED
  BY <1>3, <1>4, <1>5 DEF DataInv

(* Tick, StartSession, GoOnline, the end of a handoff, and EnterNetplayMenu. *)
LEMMA OperationKeeps ==
  ASSUME ExportInv, alone',
         Tick \/ StartSession \/ GoOnline \/ SuspendUi \/ EnterNetplayMenu
  PROVE  ExportInv'
<1> USE DEF ExportInv
<1>1. th \in [{"game", "api"} -> Clerks] /\ Game \in Clerks /\ th["game"] = Game
  BY DEF ExportTypes, Game
<1>2. \A t \in Clients : \A q : Begin(t, q) => t = "game"
  BY DEF Clients, Begin
<1>3. ASSUME NEW q \in {Update, Training, TrainingUpdate, Online}, Begin("game", q),
             \/ status' = status
             \/ Moves /\ q # Training,
             q = Online => ~sim
      PROVE  ExportInv'
  <2>1. /\ Game.pc = "next" /\ Game.todo = <<>> /\ left.ops > 0
        /\ left' = [left EXCEPT !.ops = left.ops - 1]
        /\ th' = [th EXCEPT !["game"].todo = q]
        /\ UNCHANGED <<worker, mode, lock, req, inFlight, book, snap, seq, training, sim>>
    <3>1. Cost("game") = 1 /\ left.ops \in 0 .. MaxOps
      BY DEF Cost, ExportTypes
    <3> QED
      BY <1>1, <1>3, <3>1, ExportAssumption DEF Begin, AtRest
  <2>2. GameGoes(Game.pc, q, Game.handoff, Game.kept)
    <3>1. Game' = [Game EXCEPT !.todo = q]
      BY <1>1, <2>1 DEF Game
    <3>2. [Game EXCEPT !.todo = q] \in Clerks
      BY <1>1, <1>3 DEF Clerks, Todos
    <3>3. th' \in [{"game", "api"} -> Clerks]
      BY <1>1, <2>1, <3>1, <3>2 DEF Game
    <3> QED
      BY <1>1, <3>1, <3>3 DEF GameGoes, Clerks
  <2>3. left' \in [ops : 0 .. MaxOps, beats : 0 .. MaxBeats] /\ left'.ops = left.ops - 1
    <3>1. left \in [ops : 0 .. MaxOps, beats : 0 .. MaxBeats] /\ left.ops - 1 \in 0 .. MaxOps
      BY <2>1, ExportAssumption DEF ExportTypes
    <3> QED
      BY <2>1, <3>1
  <2>4. status' \in Statuses /\ (status' = status \/ status'.stamp = status.stamp + 1)
    BY <1>3, MovesOn DEF ExportTypes
  <2>5. ExportTypes'
    BY <2>1, <2>2, <2>3, <2>4 DEF ExportTypes, GameGoes
  <2>6. ~Game.handoff
    BY <2>1 DEF ThreadsInv, Place, Suspending, Handing
  <2>7. ThreadsInv'
    BY <1>3, <2>1, <2>2, <2>6, TodosDiffer DEF GameGoes, ThreadsInv, InFlightCounts, Locked,
       Place, InHandoff, Modes, QuietInv, Quiet, Drained, SimInv, Queueing, Suspending, Handing,
       Taken, One
  <2>8. status' = status \/ (status'.stamp = status.stamp + 1 /\ ~Owing')
    <3>1. ASSUME q # Training PROVE ~Owing'
      BY <1>3, <2>1, <2>2, <2>6, <3>1, TodosDiffer DEF GameGoes, Owing, Suspending
    <3> QED
      BY <1>3, <3>1, MovesOn DEF ExportTypes
  <2>9. DataInv'
    BY <2>1, <2>2, <2>3, <2>6, <2>8, DataBegins DEF GameGoes
  <2> QED
    BY <2>5, <2>7, <2>9
<1>4. CASE Tick
  BY <1>3, <1>4, TodosDiffer DEF Tick, Update, TrainingUpdate
<1>5. CASE StartSession
  BY <1>2, <1>3, <1>5, TodosDiffer DEF StartSession, Training
<1>6. CASE GoOnline
  BY <1>3, <1>6, TodosDiffer DEF GoOnline, Online
<1>7. CASE SuspendUi
  <2>1. /\ Game.pc = "next" /\ Game.todo = OnlineUi /\ Tail(Game.todo) = <<>>
        /\ Enter("game", "next")
        /\ \/ sim' = TRUE /\ UNCHANGED mode
           \/ mode' = "Full" /\ UNCHANGED sim
        /\ UNCHANGED <<status, worker, lock, req, inFlight, book, snap, seq, training, left>>
    BY <1>1, <1>7, TodoItems DEF SuspendUi, Takes, Clerks
  <2>2. GameGoes("next", <<>>, Game.handoff, Game.kept)
    BY <1>1, <2>1, GameEnters DEF GamePcs, Todos
  <2>3. ExportTypes'
    BY <2>1, <2>2 DEF ExportTypes, GameGoes
  <2>4. ThreadsInv'
    BY <2>1, <2>2, TodosDiffer DEF GameGoes, ThreadsInv, InFlightCounts, Locked, Place,
       InHandoff, Modes, QuietInv, Quiet, Drained, SimInv, Queueing, Suspending, Handing, Taken,
       One
  <2>5. ~Owing'
    BY <2>1, <2>2, TodosDiffer DEF GameGoes, Owing, Suspending
  <2>6. DataInv'
    BY <2>1, <2>2, <2>5, DataStays DEF GameGoes
  <2> QED
    BY <2>3, <2>4, <2>6
<1>8. CASE EnterNetplayMenu
  <2>1. /\ Game.pc = "next" /\ Game.todo = <<>> /\ sim' = FALSE /\ mode' = "Full" /\ Game' = Game
        /\ UNCHANGED <<status, th, worker, lock, req, inFlight, book, snap, seq, training, left>>
    BY <1>1, <1>8 DEF EnterNetplayMenu, Game
  <2>2. ExportTypes'
    BY <2>1 DEF ExportTypes
  <2>3. ThreadsInv'
    BY <2>1, TodosDiffer DEF ThreadsInv, InFlightCounts, Locked, Place, InHandoff, Modes,
       QuietInv, Quiet, Drained, SimInv, Queueing, Suspending, Handing, Taken, One
  <2>4. DataInv'
    BY <2>1, DataStays DEF Owing
  <2> QED
    BY <2>2, <2>3, <2>4
<1> QED
  BY <1>4, <1>5, <1>6, <1>7, <1>8

(* The stamps on their way when nothing is. *)
LEMMA QuietStamps ==
  ASSUME ExportTypes, Quiet, UNCHANGED <<req, worker>>, status.stamp <= status'.stamp,
         req.status.stamp <= status.stamp, status'.stamp \in Nat, snap'.stamp <= status'.stamp,
         Game'.pc = "walked" =>
           snap'.stamp <= Game'.state.stamp /\ Game'.state.stamp <= status'.stamp
  PROVE  Stamps'
<1>1. req.status.stamp \in Nat /\ status.stamp \in Nat
  BY DEF ExportTypes, Statuses
<1>2. req'.status.stamp <= status'.stamp
  BY <1>1
<1> QED
  BY <1>2 DEF Quiet, Stamps, Newer

(* PublishOnlineBoundary. *)
LEMMA BoundaryKeeps ==
  ASSUME ExportInv, BoundaryWalk \/ BoundaryPublish
  PROVE  ExportInv'
<1> USE DEF ExportInv
<1>1. th \in [{"game", "api"} -> Clerks] /\ Game \in Clerks /\ th["game"] = Game
  BY DEF ExportTypes, Game
<1>2. CASE BoundaryWalk
  <2> DEFINE r == Remembered(status')
             d == Derived(status', r)
  <2>1. /\ Game.pc = "next" /\ Game.todo = <<>> /\ mode = "Suspended" /\ left.ops > 0
        /\ left' = [left EXCEPT !.ops = left.ops - 1]
        /\ book' = r /\ seq' = seq + 1
        /\ th' = [th EXCEPT !["game"].pc = "walked", !["game"].began = seq + 1, !["game"].state = d]
        /\ UNCHANGED <<worker, mode, lock, req, inFlight, snap, training, sim>>
    BY <1>1, <1>2 DEF BoundaryWalk, AtRest
  <2>2. /\ status' \in Statuses /\ status'.stamp = status.stamp + 1 /\ status.stamp \in Nat
        /\ status'.stamp \in Nat
    BY <1>2, MovesOn DEF BoundaryWalk, ExportTypes
  <2>3. /\ r \in Books /\ r.phase = status'.phase /\ r.id >= book.id
        /\ r.id = book.id => r.wins >= book.wins
        /\ status'.phase \in {"Failed", "SessionEnded"} => r.end # "None"
    BY <2>2, RememberedIs DEF ExportTypes, DataInv, EndsInv
  <2> HIDE DEF r
  <2>4. /\ d \in States /\ d.stamp = status'.stamp /\ d.phase = status'.phase /\ d.id = r.id
        /\ d.end = r.end /\ d.wins = r.wins
    BY <2>2, <2>3, DerivedIs
  <2> HIDE DEF d
  <2>5. /\ th' \in [{"game", "api"} -> Clerks] /\ Game'.pc = "walked" /\ Game'.todo = Game.todo
        /\ Game'.handoff = Game.handoff /\ Game'.kept = Game.kept /\ Game'.state = d
    <3>1. Game' = [Game EXCEPT !.pc = "walked", !.began = seq + 1, !.state = d]
      BY <1>1, <2>1 DEF Game
    <3>2. "walked" \in GamePcs /\ seq + 1 \in Nat
      BY DEF GamePcs, ExportTypes
    <3>3. [Game EXCEPT !.pc = "walked", !.began = seq + 1, !.state = d] \in Clerks
      BY <1>1, <2>4, <3>2 DEF Clerks
    <3>4. th' \in [{"game", "api"} -> Clerks]
      BY <1>1, <2>1, <3>1, <3>3 DEF Game
    <3> QED
      BY <1>1, <3>1, <3>4 DEF Clerks
  <2>6. left' \in [ops : 0 .. MaxOps, beats : 0 .. MaxBeats] /\ left'.ops = left.ops - 1
    <3>1. left \in [ops : 0 .. MaxOps, beats : 0 .. MaxBeats] /\ left.ops - 1 \in 0 .. MaxOps
      BY <2>1, ExportAssumption DEF ExportTypes
    <3> QED
      BY <2>1, <3>1
  <2>7. ExportTypes'
    BY <2>1, <2>2, <2>3, <2>5, <2>6 DEF ExportTypes
  <2>8. ThreadsInv'
    BY <2>1, <2>5, TodosDiffer DEF ThreadsInv, InFlightCounts, Locked, Place, InHandoff, Modes,
       QuietInv, Quiet, Drained, SimInv, Queueing, Suspending, Handing, Taken, One
  <2>9. Quiet /\ ~Game.handoff
    BY <2>1 DEF ThreadsInv, QuietInv, Drained, Place, Suspending, Handing
  <2>10. EndsInv'
    BY <2>1, <2>3, <2>4, <2>5 DEF DataInv, EndsInv, Ends
  <2>11. Stamps'
    <3>1. snap.stamp \in Nat /\ snap'.stamp <= status'.stamp
      BY <2>1, <2>2 DEF ExportTypes, States, DataInv, Stamps
    <3> QED
      BY <2>1, <2>2, <2>4, <2>5, <2>9, <3>1, QuietStamps DEF DataInv, Stamps
  <2>12. Scores'
    <3>1. /\ snap.id \in Nat /\ snap.wins \in Nat /\ book.id \in Nat /\ book.wins \in Nat
          /\ r.id \in Nat /\ r.wins \in Nat
      BY <2>3 DEF ExportTypes, States, Books
    <3>2. snap.id <= r.id /\ (snap.id = r.id => snap.wins <= r.wins)
      BY <2>3, <3>1 DEF DataInv, Scores
    <3> QED
      BY <2>1, <2>4, <2>5, <2>9, <3>2 DEF Scores, Latest, Quiet
  <2>13. Budget'
    <3>1. ~Owing /\ ~Owing'
      BY <2>1, <2>5, <2>9, TodosDiffer DEF Owing, Suspending
    <3>2. left.ops \in Nat /\ MaxOps \in Nat
      BY ExportAssumption DEF ExportTypes
    <3> QED
      BY <2>2, <2>6, <3>1, <3>2 DEF DataInv, Budget, One
  <2>14. (snap.seq <= seq)'
    <3>1. snap.seq \in Nat /\ seq \in Nat
      BY DEF ExportTypes, States
    <3> QED
      BY <2>1, <3>1 DEF DataInv
  <2> QED
    BY <2>7, <2>8, <2>10, <2>11, <2>12, <2>13, <2>14 DEF DataInv
<1>3. CASE BoundaryPublish
  <2>1. /\ Game.pc = "walked" /\ Publish(Game.state, Game.began)
        /\ th' = [th EXCEPT !["game"] = Resting]
        /\ UNCHANGED <<status, worker, mode, lock, req, inFlight, book, training, sim, left>>
    BY <1>1, <1>3 DEF BoundaryPublish
  <2>2. /\ th' \in [{"game", "api"} -> Clerks]
        /\ Game'.pc = "next" /\ Game'.todo = <<>> /\ Game'.handoff = FALSE
        /\ Game'.kept = FALSE /\ Game'.state = NoState
    BY <1>1, <2>1, GameAbandons DEF Abandon
  <2>3. Game.state \in States /\ seq \in Nat
    BY <1>1 DEF Clerks, ExportTypes
  <2>4. /\ snap' \in States /\ seq' \in Nat /\ snap'.seq = seq' /\ snap'.by = Game.state.by
        /\ snap'.stamp = Game.state.stamp /\ snap'.phase = Game.state.phase
        /\ snap'.id = Game.state.id /\ snap'.end = Game.state.end /\ snap'.wins = Game.state.wins
    BY <2>1, <2>3, Publishing
  <2>5. ExportTypes'
    BY <2>1, <2>2, <2>4 DEF ExportTypes
  <2>6. ThreadsInv'
    BY <2>1, <2>2, TodosDiffer DEF ThreadsInv, InFlightCounts, Locked, Place, InHandoff, Modes,
       QuietInv, Quiet, Drained, SimInv, Queueing, Suspending, Handing, Taken, One
  <2>7. Quiet
    BY <2>1 DEF ThreadsInv, Modes, QuietInv, Drained
  <2>8. EndsInv'
    BY <2>1, <2>2, <2>4, RestingIsClerk DEF DataInv, EndsInv, Ends, Resting
  <2>9. Stamps'
    <3>1. /\ status.stamp \in Nat /\ Game.state.stamp <= status.stamp
          /\ req.status.stamp <= status.stamp
      BY <2>1 DEF DataInv, Stamps, Newer, ExportTypes, Statuses
    <3> QED
      BY <2>1, <2>2, <2>4, <2>7, <3>1, QuietStamps
  <2>10. Scores'
    <3>1. book.id \in Nat /\ book.wins \in Nat
      BY DEF ExportTypes, Books
    <3> QED
      BY <2>1, <2>2, <2>4, <2>7, <3>1 DEF DataInv, Scores, Latest, Quiet
  <2>11. Budget'
    <3>1. ~Owing /\ ~Owing'
      BY <2>1, <2>2, TodosDiffer DEF Owing, Suspending, ThreadsInv, Place, Handing
    <3> QED
      BY <2>1, <3>1 DEF DataInv, Budget, One
  <2>12. (snap.seq <= seq)'
    BY <2>4
  <2> QED
    BY <2>5, <2>6, <2>8, <2>9, <2>10, <2>11, <2>12 DEF DataInv
<1> QED
  BY <1>2, <1>3

(* Shutdown. *)
LEMMA ShutdownKeeps ==
  ASSUME ExportInv, Shutdown \/ Joined
  PROVE  ExportInv'
<1> USE DEF ExportInv
<1>1. th \in [{"game", "api"} -> Clerks] /\ Game \in Clerks /\ th["game"] = Game
  BY DEF ExportTypes, Game
<1>2. CASE Shutdown
  <2>1. /\ Game.pc = "next" /\ Game.todo = <<>>
        /\ worker' = [worker EXCEPT !.stopping = TRUE] /\ req' = [req EXCEPT !.event = TRUE]
        /\ UNCHANGED <<status, mode, lock, inFlight, book, snap, seq, training, sim, left>>
    BY <1>1, <1>2 DEF Shutdown, SetEvent
  <2>2. GameGoes("join", Game.todo, Game.handoff, Game.kept)
    BY <1>1, <1>2, GameAt DEF Shutdown, GamePcs
  <2>3. /\ worker' \in Workers /\ worker'.pc = worker.pc /\ worker'.status = worker.status
        /\ worker'.state = worker.state
        /\ req' \in [status : Statuses, pending : BOOLEAN, event : BOOLEAN]
        /\ req'.status = req.status /\ req'.pending = req.pending
    BY <2>1 DEF ExportTypes, Workers
  <2>4. ExportTypes'
    BY <2>1, <2>2, <2>3 DEF ExportTypes, GameGoes
  <2>5. ThreadsInv'
    BY <2>1, <2>2, <2>3, TodosDiffer DEF GameGoes, ThreadsInv, InFlightCounts, Locked, Place,
       InHandoff, Modes, QuietInv, Quiet, Drained, SimInv, Queueing, Suspending, Handing, Taken,
       One
  <2>6. Owing' => Owing
    BY <2>1, <2>2, TodosDiffer DEF GameGoes, Owing, Suspending
  <2>7. DataInv'
    BY <2>1, <2>2, <2>3, <2>6, DataStays DEF GameGoes
  <2> QED
    BY <2>4, <2>5, <2>7
<1>3. CASE Joined
  <2>1. /\ Game.pc = "join" /\ worker.pc = "stopped" /\ mode' = "Suspended"
        /\ req' = [req EXCEPT !.pending = FALSE, !.event = FALSE]
        /\ snap' = [snap EXCEPT !.by = "none"]
        /\ UNCHANGED <<status, worker, lock, inFlight, book, seq, training, sim, left>>
    BY <1>1, <1>3 DEF Joined
  <2>2. GameGoes("down", Game.todo, Game.handoff, Game.kept)
    BY <1>1, <1>3, GameAt DEF Joined, GamePcs
  <2>3. /\ req' \in [status : Statuses, pending : BOOLEAN, event : BOOLEAN]
        /\ req'.status = req.status /\ ~req'.pending
    BY <2>1 DEF ExportTypes
  <2>4. /\ snap' \in States /\ snap'.seq = snap.seq /\ snap'.by = "none" /\ snap'.id = snap.id
        /\ snap'.stamp = snap.stamp /\ snap'.wins = snap.wins
    BY <2>1 DEF ExportTypes, States
  <2>5. ExportTypes'
    BY <2>1, <2>2, <2>3, <2>4 DEF ExportTypes, GameGoes
  <2>6. ThreadsInv'
    BY <2>1, <2>2, <2>3, TodosDiffer DEF GameGoes, ThreadsInv, InFlightCounts, Locked, Place,
       InHandoff, Modes, QuietInv, Quiet, Drained, SimInv, Queueing, Suspending, Handing, Taken,
       One
  <2>7. EndsInv' /\ Scores' /\ Stamps' /\ (snap.seq <= seq)'
    BY <2>1, <2>2, <2>3, <2>4 DEF DataInv, EndsInv, Ends, Scores, Latest, Stamps, Newer, GameGoes
  <2>8. Budget'
    <3>1. ~Owing /\ ~Owing'
      BY <2>1, <2>2, TodosDiffer DEF Owing, Suspending, ThreadsInv, Place, Handing, GameGoes
    <3> QED
      BY <2>1, <3>1 DEF DataInv, Budget, One
  <2> QED
    BY <2>5, <2>6, <2>7, <2>8 DEF DataInv
<1> QED
  BY <1>2, <1>3

--------------------------------------------------------------------------------
(* A step of the worker's that moves it and does nothing else to it. *)
LEMMA WorkerAt ==
  ASSUME worker \in Workers, NEW pc \in WorkerPcs, NEW b \in BOOLEAN,
         worker' = [worker EXCEPT !.pc = pc, !.beats = b]
  PROVE  /\ worker' \in Workers /\ worker'.pc = pc /\ worker'.stopping = worker.stopping
         /\ worker'.status = worker.status /\ worker'.state = worker.state
<1>1. /\ [worker EXCEPT !.pc = pc, !.beats = b] \in Workers
      /\ [worker EXCEPT !.pc = pc, !.beats = b].pc = pc
      /\ [worker EXCEPT !.pc = pc, !.beats = b].stopping = worker.stopping
      /\ [worker EXCEPT !.pc = pc, !.beats = b].status = worker.status
      /\ [worker EXCEPT !.pc = pc, !.beats = b].state = worker.state
  BY DEF Workers
<1> QED
  BY <1>1

(* Goes, for the worker. *)
LEMMA WorkerGoes ==
  ASSUME worker \in Workers, NEW pc \in WorkerPcs, Goes(pc)
  PROVE  /\ worker' \in Workers /\ worker'.pc = pc /\ worker'.stopping = worker.stopping
         /\ worker'.status = worker.status /\ worker'.state = worker.state
<1>1. worker' = [worker EXCEPT !.pc = pc]
  BY DEF Goes
<1>2. /\ [worker EXCEPT !.pc = pc] \in Workers
      /\ [worker EXCEPT !.pc = pc].pc = pc
      /\ [worker EXCEPT !.pc = pc].stopping = worker.stopping
      /\ [worker EXCEPT !.pc = pc].status = worker.status
      /\ [worker EXCEPT !.pc = pc].state = worker.state
  BY DEF Workers
<1> QED
  BY <1>1, <1>2

(* The worker with nothing to do. *)
LEMMA IdleIsWorker ==
  Idle \in Workers /\ Idle.pc = "loop" /\ Idle.state = NoState
<1>1. NoStatus \in Statuses
  BY DEF NoStatus, Statuses, Phases
<1>2. \A p \in WorkerPcs, b \in {FALSE}, u \in Statuses, d \in States :
        [pc |-> p, beats |-> b, stopping |-> b, status |-> u, state |-> d, began |-> 0] \in Workers
  BY DEF Workers
<1>3. "loop" \in WorkerPcs /\ FALSE \in {FALSE}
  BY DEF WorkerPcs
<1>4. Idle \in Workers
  BY <1>1, <1>2, <1>3, RestingIsClerk, Zenon DEF Idle
<1> QED
  BY <1>4 DEF Idle

(* The worker between two updates: what it took and derived is gone. *)
LEMMA WorkerIdles ==
  ASSUME NEW pc \in WorkerPcs, NEW stopping \in BOOLEAN,
         worker' = [Idle EXCEPT !.pc = pc, !.stopping = stopping]
  PROVE  worker' \in Workers /\ worker'.pc = pc /\ worker'.state = NoState
<1> HIDE DEF Idle
<1>1. /\ [Idle EXCEPT !.pc = pc, !.stopping = stopping] \in Workers
      /\ [Idle EXCEPT !.pc = pc, !.stopping = stopping].pc = pc
      /\ [Idle EXCEPT !.pc = pc, !.stopping = stopping].state = Idle.state
  BY IdleIsWorker DEF Workers
<1> QED
  BY <1>1, IdleIsWorker

(* The worker waits, wakes, counts itself in, takes a status and counts itself out. *)
LEMMA WorkerTurnKeeps ==
  ASSUME ExportInv,
         WorkerWaits \/ WorkerWakes \/ WorkerCounts \/ WorkerTakes \/ WorkerLocks \/ WorkerUncounts
  PROVE  ExportInv'
<1> USE DEF ExportInv
<1>1. worker \in Workers /\ inFlight \in Nat
  BY DEF ExportTypes
<1>2. ASSUME UNCHANGED <<status, th, mode, book, snap, seq, training, sim, left>>,
             worker' \in Workers, worker'.status = worker.status, worker'.state = worker.state,
             req' \in [status : Statuses, pending : BOOLEAN, event : BOOLEAN],
             req'.status = req.status,
             lock' \in {"none", "worker", "game"}, inFlight' \in Nat,
             req'.pending \/ worker'.pc = "copy" => req.pending \/ worker.pc = "copy",
             worker'.pc = "walk" => worker.pc = "walk",
             worker'.pc \in {"lock", "publish"} => worker.pc \in {"lock", "publish"},
             ThreadsInv'
      PROVE  ExportInv'
  <2>1. ExportTypes'
    BY <1>2 DEF ExportTypes
  <2>2. Game' = Game /\ (Owing' => Owing)
    BY <1>2 DEF Game, Owing
  <2>3. DataInv'
    BY <1>2, <2>2, DataStays
  <2> QED
    BY <1>2, <2>1, <2>3
<1>3. CASE WorkerWaits
  <2>1. /\ worker.pc = "loop"
        /\ worker' = [worker EXCEPT !.pc = "wait", !.beats = mode = "Suspended"]
        /\ UNCHANGED <<status, th, mode, lock, req, inFlight, book, snap, seq, training, sim, left>>
        /\ "wait" \in WorkerPcs /\ Game' = Game
    BY <1>3 DEF WorkerWaits, WorkerPcs, Game
  <2>2. /\ worker' \in Workers /\ worker'.pc = "wait" /\ worker'.stopping = worker.stopping
        /\ worker'.status = worker.status /\ worker'.state = worker.state
    BY <1>1, <2>1, WorkerAt
  <2>3. ThreadsInv'
    BY <2>1, <2>2 DEF ThreadsInv, InFlightCounts, Locked, Place, InHandoff, Modes, QuietInv,
       Quiet, Drained, SimInv, Queueing, Suspending, Handing, Taken, One
  <2> QED
    BY <1>2, <2>1, <2>2, <2>3 DEF ExportTypes
<1>4. CASE WorkerWakes
  <2> DEFINE pc == IF worker.stopping THEN "stopped" ELSE "count"
  <2>1. /\ worker.pc = "wait" /\ worker' = [worker EXCEPT !.pc = pc, !.beats = FALSE]
        /\ req' = [req EXCEPT !.event = FALSE]
        /\ UNCHANGED <<status, th, mode, lock, inFlight, book, snap, seq, training, sim, left>>
        /\ pc \in {"stopped", "count"} /\ pc \in WorkerPcs /\ Game' = Game
    BY <1>4 DEF WorkerWakes, WorkerPcs, Game
  <2> HIDE DEF pc
  <2>2. /\ worker' \in Workers /\ worker'.pc = pc /\ worker'.stopping = worker.stopping
        /\ worker'.status = worker.status /\ worker'.state = worker.state
    BY <1>1, <2>1, WorkerAt
  <2>3. /\ req' \in [status : Statuses, pending : BOOLEAN, event : BOOLEAN]
        /\ req'.status = req.status /\ req'.pending = req.pending
    BY <2>1 DEF ExportTypes
  <2>4. ThreadsInv'
    BY <2>1, <2>2, <2>3 DEF ThreadsInv, InFlightCounts, Locked, Place, InHandoff, Modes,
       QuietInv, Quiet, Drained, SimInv, Queueing, Suspending, Handing, Taken, One
  <2> QED
    BY <1>2, <2>1, <2>2, <2>3, <2>4 DEF ExportTypes
<1>5. CASE WorkerCounts
  <2>1. /\ worker.pc = "count" /\ inFlight' = inFlight + 1 /\ Goes("take")
        /\ UNCHANGED <<status, th, mode, lock, req, book, snap, seq, training, sim, left>>
        /\ "take" \in WorkerPcs /\ Game' = Game
    BY <1>5 DEF WorkerCounts, WorkerPcs, Taken, Game
  <2>2. /\ worker' \in Workers /\ worker'.pc = "take" /\ worker'.stopping = worker.stopping
        /\ worker'.status = worker.status /\ worker'.state = worker.state
    BY <1>1, <2>1, WorkerGoes
  <2>3. ThreadsInv'
    BY <1>1, <2>1, <2>2 DEF ThreadsInv, InFlightCounts, Locked, Place, InHandoff, Modes,
       QuietInv, Quiet, Drained, SimInv, Queueing, Suspending, Handing, Taken, One
  <2> QED
    BY <1>1, <1>2, <2>1, <2>2, <2>3 DEF ExportTypes
<1>6. CASE WorkerTakes
  <2>1. /\ worker.pc = "take" /\ req' = [req EXCEPT !.pending = FALSE]
        /\ UNCHANGED <<status, th, mode, lock, book, snap, seq, training, sim, left>>
        /\ "copy" \in WorkerPcs /\ "loop" \in WorkerPcs /\ Game' = Game
    BY <1>6 DEF WorkerTakes, WorkerPcs, Taken, Game
  <2>2. /\ req' \in [status : Statuses, pending : BOOLEAN, event : BOOLEAN]
        /\ req'.status = req.status /\ ~req'.pending
    BY <2>1 DEF ExportTypes
  <2>3. CASE req.pending
    <3>1. Goes("copy") /\ UNCHANGED inFlight
      BY <1>6, <2>3 DEF WorkerTakes
    <3>2. /\ worker' \in Workers /\ worker'.pc = "copy" /\ worker'.stopping = worker.stopping
          /\ worker'.status = worker.status /\ worker'.state = worker.state
      BY <1>1, <2>1, <3>1, WorkerGoes
    <3>3. ThreadsInv'
      BY <2>1, <2>2, <2>3, <3>1, <3>2 DEF ThreadsInv, InFlightCounts, Locked, Place, InHandoff,
         Modes, QuietInv, Quiet, Drained, SimInv, Queueing, Suspending, Handing, Taken, One
    <3> QED
      BY <1>1, <1>2, <2>1, <2>2, <2>3, <3>1, <3>2, <3>3 DEF ExportTypes
  <2>4. CASE ~req.pending
    <3>1. Goes("loop") /\ inFlight' = inFlight - 1
      BY <1>6, <2>4 DEF WorkerTakes
    <3>2. /\ worker' \in Workers /\ worker'.pc = "loop" /\ worker'.stopping = worker.stopping
          /\ worker'.status = worker.status /\ worker'.state = worker.state
      BY <1>1, <2>1, <3>1, WorkerGoes
    <3>3. inFlight' \in Nat
      BY <1>1, <2>1, <3>1 DEF ThreadsInv, InFlightCounts, One, Taken
    <3>4. ThreadsInv'
      BY <1>1, <2>1, <2>2, <2>4, <3>1, <3>2 DEF ThreadsInv, InFlightCounts, Locked, Place,
         InHandoff, Modes, QuietInv, Quiet, Drained, SimInv, Queueing, Suspending, Handing,
         Taken, One
    <3> QED
      BY <1>2, <2>1, <2>2, <2>4, <3>2, <3>3, <3>4 DEF ExportTypes
  <2> QED
    BY <2>3, <2>4
<1>7. CASE WorkerLocks
  <2>1. /\ worker.pc = "lock" /\ lock = "none" /\ lock' = "worker" /\ Goes("publish")
        /\ UNCHANGED <<status, th, mode, req, inFlight, book, snap, seq, training, sim, left>>
        /\ "publish" \in WorkerPcs /\ Game' = Game
    BY <1>7 DEF WorkerLocks, WorkerPcs, Taken, Game
  <2>2. /\ worker' \in Workers /\ worker'.pc = "publish" /\ worker'.stopping = worker.stopping
        /\ worker'.status = worker.status /\ worker'.state = worker.state
    BY <1>1, <2>1, WorkerGoes
  <2>3. ThreadsInv'
    BY <2>1, <2>2 DEF ThreadsInv, InFlightCounts, Locked, Place, InHandoff, Modes, QuietInv,
       Quiet, Drained, SimInv, Queueing, Suspending, Handing, Taken, One
  <2> QED
    BY <1>1, <1>2, <2>1, <2>2, <2>3 DEF ExportTypes
<1>8. CASE WorkerUncounts
  <2> DEFINE pc == IF worker.stopping THEN "loop" ELSE "count"
  <2>1. /\ worker.pc = "uncount" /\ inFlight' = inFlight - 1 /\ Goes(pc)
        /\ UNCHANGED <<status, th, mode, lock, req, book, snap, seq, training, sim, left>>
        /\ pc \in {"loop", "count"} /\ pc \in WorkerPcs /\ Game' = Game
    BY <1>8 DEF WorkerUncounts, WorkerPcs, Game
  <2> HIDE DEF pc
  <2>2. /\ worker' \in Workers /\ worker'.pc = pc /\ worker'.stopping = worker.stopping
        /\ worker'.status = worker.status /\ worker'.state = worker.state
    BY <1>1, <2>1, WorkerGoes
  <2>3. inFlight' \in Nat
    BY <1>1, <2>1 DEF ThreadsInv, InFlightCounts, One, Taken
  <2>4. ThreadsInv'
    BY <1>1, <2>1, <2>2 DEF ThreadsInv, InFlightCounts, Locked, Place, InHandoff, Modes,
       QuietInv, Quiet, Drained, SimInv, Queueing, Suspending, Handing, Taken, One
  <2> QED
    BY <1>2, <2>1, <2>2, <2>3, <2>4 DEF ExportTypes
<1> QED
  BY <1>3, <1>4, <1>5, <1>6, <1>7, <1>8

(* The worker copies a status, walks the game's memory and publishes. *)
LEMMA WorkerUpdateKeeps ==
  ASSUME ExportInv, WorkerCopies \/ WorkerWalks \/ WorkerPublishes
  PROVE  ExportInv'
<1> USE DEF ExportInv
<1>1. worker \in Workers
  BY DEF ExportTypes
<1>2. CASE WorkerCopies
  <2>1. /\ worker.pc = "copy" /\ worker' = [worker EXCEPT !.pc = "walk", !.status = req.status]
        /\ UNCHANGED <<status, th, mode, lock, req, inFlight, book, snap, seq, training, sim, left>>
        /\ "walk" \in WorkerPcs /\ Game' = Game
    BY <1>2 DEF WorkerCopies, WorkerPcs, Taken, Game
  <2>2. /\ worker' \in Workers /\ worker'.pc = "walk" /\ worker'.status = req.status
        /\ worker'.state = worker.state
    <3>1. req.status \in Statuses
      BY DEF ExportTypes
    <3> QED
      BY <1>1, <2>1, <3>1 DEF Workers
  <2>3. ExportTypes'
    BY <2>1, <2>2 DEF ExportTypes
  <2>4. ThreadsInv'
    BY <2>1, <2>2 DEF ThreadsInv, InFlightCounts, Locked, Place, InHandoff, Modes, QuietInv,
       Quiet, Drained, SimInv, Queueing, Suspending, Handing, Taken, One
  <2>5. EndsInv' /\ Scores' /\ Budget' /\ (snap.seq <= seq)'
    BY <2>1, <2>2 DEF DataInv, EndsInv, Ends, Scores, Latest, Budget, Owing
  <2>6. Stamps'
    BY <2>1, <2>2, StampTypes DEF DataInv, Stamps, Newer
  <2> QED
    BY <2>3, <2>4, <2>5, <2>6 DEF DataInv
<1>3. CASE WorkerWalks
  <2> DEFINE s == worker.status
             r == Remembered(s)
             d == Derived(s, r)
  <2>1. /\ worker.pc = "walk" /\ book' = r /\ seq' = seq + 1
        /\ worker' = [worker EXCEPT !.pc = "lock", !.began = seq + 1, !.status = NoStatus,
                                    !.state = d]
        /\ UNCHANGED <<status, th, mode, lock, req, inFlight, snap, training, sim, left>>
        /\ "lock" \in WorkerPcs /\ Game' = Game
    BY <1>3 DEF WorkerWalks, WorkerPcs, Taken, Game
  <2>2. s \in Statuses /\ seq \in Nat /\ seq + 1 \in Nat
    BY <1>1 DEF Workers, ExportTypes
  <2>3. /\ r \in Books /\ r.phase = s.phase /\ r.id >= book.id
        /\ r.id = book.id => r.wins >= book.wins
        /\ s.phase \in {"Failed", "SessionEnded"} => r.end # "None"
    BY <2>2, RememberedIs DEF ExportTypes, DataInv, EndsInv
  <2> HIDE DEF r
  <2>4. /\ d \in States /\ d.stamp = s.stamp /\ d.phase = s.phase /\ d.id = r.id
        /\ d.end = r.end /\ d.wins = r.wins
    BY <2>2, <2>3, DerivedIs
  <2> HIDE DEF d
  <2>5. /\ worker' \in Workers /\ worker'.pc = "lock" /\ worker'.state = d
    <3>1. NoStatus \in Statuses
      BY DEF NoStatus, Statuses, Phases
    <3>2. ASSUME NEW w,
                 w = [worker EXCEPT !.pc = "lock", !.began = seq + 1, !.status = NoStatus,
                                    !.state = d]
          PROVE  w \in Workers /\ w.pc = "lock" /\ w.state = d
      BY <1>1, <2>1, <2>2, <2>4, <3>1, <3>2 DEF Workers
    <3> QED
      BY <2>1, <3>2
  <2>6. ExportTypes'
    BY <2>1, <2>2, <2>3, <2>5 DEF ExportTypes
  <2>7. ThreadsInv'
    BY <2>1, <2>5 DEF ThreadsInv, InFlightCounts, Locked, Place, InHandoff, Modes, QuietInv,
       Quiet, Drained, SimInv, Queueing, Suspending, Handing, Taken, One
  <2>8. Game.pc # "walked"
    BY <2>1 DEF ThreadsInv, Modes, QuietInv, Drained, Quiet
  <2>9. EndsInv'
    BY <2>1, <2>3, <2>4, <2>5 DEF DataInv, EndsInv, Ends
  <2>10. Stamps'
    BY <2>1, <2>4, <2>5, <2>8 DEF DataInv, Stamps, Newer
  <2>11. Scores'
    <3>1. /\ snap.id \in Nat /\ snap.wins \in Nat /\ book.id \in Nat /\ book.wins \in Nat
          /\ r.id \in Nat /\ r.wins \in Nat
      BY <2>3 DEF ExportTypes, States, Books
    <3>2. snap.id <= r.id /\ (snap.id = r.id => snap.wins <= r.wins)
      BY <2>3, <3>1 DEF DataInv, Scores
    <3> QED
      BY <2>1, <2>4, <2>5, <2>8, <3>2 DEF Scores, Latest
  <2>12. Budget'
    BY <2>1 DEF DataInv, Budget, Owing
  <2>13. (snap.seq <= seq)'
    <3>1. snap.seq \in Nat
      BY DEF ExportTypes, States
    <3> QED
      BY <2>1, <2>2, <3>1 DEF DataInv
  <2> QED
    BY <2>6, <2>7, <2>9, <2>10, <2>11, <2>12, <2>13 DEF DataInv
<1>4. CASE WorkerPublishes
  <2>1. /\ worker.pc = "publish" /\ Publish(worker.state, worker.began) /\ lock' = "none"
        /\ worker' = [Idle EXCEPT !.pc = "uncount", !.stopping = worker.stopping]
        /\ UNCHANGED <<status, th, mode, req, inFlight, book, training, sim, left>>
        /\ "uncount" \in WorkerPcs /\ Game' = Game
    BY <1>4 DEF WorkerPublishes, WorkerPcs, Taken, Game
  <2>2. worker.state \in States /\ seq \in Nat /\ worker.stopping \in BOOLEAN
    BY <1>1 DEF Workers, ExportTypes
  <2>3. /\ worker' \in Workers /\ worker'.pc = "uncount" /\ worker'.state = NoState
    BY <2>1, <2>2, WorkerIdles
  <2>4. /\ snap' \in States /\ seq' \in Nat /\ snap'.seq = seq' /\ snap'.by = worker.state.by
        /\ snap'.stamp = worker.state.stamp /\ snap'.phase = worker.state.phase
        /\ snap'.id = worker.state.id /\ snap'.end = worker.state.end
        /\ snap'.wins = worker.state.wins
    BY <2>1, <2>2, Publishing
  <2>5. ExportTypes'
    BY <2>1, <2>3, <2>4 DEF ExportTypes
  <2>6. ThreadsInv'
    BY <2>1, <2>3 DEF ThreadsInv, InFlightCounts, Locked, Place, InHandoff, Modes, QuietInv,
       Quiet, Drained, SimInv, Queueing, Suspending, Handing, Taken, One
  <2>7. Game.pc # "walked"
    BY <2>1 DEF ThreadsInv, Modes, QuietInv, Drained, Quiet
  <2>8. EndsInv'
    BY <2>1, <2>3, <2>4, RestingIsClerk DEF DataInv, EndsInv, Ends, Resting
  <2>9. Stamps'
    BY <2>1, <2>3, <2>4, <2>7, StampTypes DEF DataInv, Stamps, Newer
  <2>10. Scores'
    <3>1. book.id \in Nat /\ book.wins \in Nat
      BY DEF ExportTypes, Books
    <3> QED
      BY <2>1, <2>3, <2>4, <2>7, <3>1 DEF DataInv, Scores, Latest
  <2>11. Budget'
    BY <2>1 DEF DataInv, Budget, Owing
  <2>12. (snap.seq <= seq)'
    BY <2>4
  <2> QED
    BY <2>5, <2>6, <2>8, <2>9, <2>10, <2>11, <2>12 DEF DataInv
<1> QED
  BY <1>2, <1>3, <1>4

(* The worker's heartbeats. *)
LEMMA BeatKeeps ==
  ASSUME ExportInv, WorkerTimeout \/ PublishSuspendedHeartbeat
  PROVE  ExportInv'
<1> USE DEF ExportInv
<1>1. worker \in Workers /\ snap \in States
  BY DEF ExportTypes
<1>2. CASE WorkerTimeout
  <2> DEFINE pc == IF worker.stopping THEN "stopped"
                   ELSE IF mode = "Suspended" THEN "beat" ELSE "loop"
  <2>1. /\ worker.pc = "wait"
        /\ worker' = [worker EXCEPT !.pc = pc, !.beats = FALSE, !.state = snap]
        /\ left.beats > 0 /\ left' = [left EXCEPT !.beats = left.beats - 1]
        /\ UNCHANGED <<status, th, mode, lock, req, inFlight, book, snap, seq, training, sim>>
        /\ pc \in {"stopped", "beat", "loop"} /\ pc \in WorkerPcs /\ Game' = Game
    BY <1>2 DEF WorkerTimeout, WorkerPcs, Game
  <2> HIDE DEF pc
  <2>2. worker' \in Workers /\ worker'.pc = pc /\ worker'.state = snap
    BY <1>1, <2>1 DEF Workers
  <2>3. left' \in [ops : 0 .. MaxOps, beats : 0 .. MaxBeats] /\ left'.ops = left.ops
    <3>1. left \in [ops : 0 .. MaxOps, beats : 0 .. MaxBeats] /\ left.beats - 1 \in 0 .. MaxBeats
      BY <2>1, ExportAssumption DEF ExportTypes
    <3> QED
      BY <2>1, <3>1
  <2>4. ExportTypes'
    BY <2>1, <2>2, <2>3 DEF ExportTypes
  <2>5. ThreadsInv'
    BY <2>1, <2>2 DEF ThreadsInv, InFlightCounts, Locked, Place, InHandoff, Modes, QuietInv,
       Quiet, Drained, SimInv, Queueing, Suspending, Handing, Taken, One
  <2>6. DataInv'
    BY <2>1, <2>2, <2>3 DEF DataInv, EndsInv, Ends, Scores, Latest, Stamps, Newer, Budget, Owing
  <2> QED
    BY <2>4, <2>5, <2>6
<1>3. CASE PublishSuspendedHeartbeat
  <2>1. /\ worker.pc = "beat" /\ Publish(snap, seq)
        /\ worker' = [Idle EXCEPT !.stopping = worker.stopping]
        /\ UNCHANGED <<status, th, mode, lock, req, inFlight, book, training, sim, left>>
        /\ Game' = Game
    BY <1>3 DEF PublishSuspendedHeartbeat, Beat, Game
  <2>2. worker' \in Workers /\ worker'.pc = "loop" /\ worker'.state = NoState
    <3>1. worker.stopping \in BOOLEAN
      BY <1>1 DEF Workers
    <3>2. /\ [Idle EXCEPT !.stopping = worker.stopping] \in Workers
          /\ [Idle EXCEPT !.stopping = worker.stopping].pc = Idle.pc
          /\ [Idle EXCEPT !.stopping = worker.stopping].state = Idle.state
      BY <3>1, IdleIsWorker DEF Workers
    <3> QED
      BY <2>1, <3>2, IdleIsWorker
  <2>3. /\ snap' \in States /\ seq' \in Nat /\ snap'.seq = seq' /\ snap'.by = snap.by
        /\ snap'.stamp = snap.stamp /\ snap'.phase = snap.phase /\ snap'.id = snap.id
        /\ snap'.end = snap.end /\ snap'.wins = snap.wins
    BY <1>1, <2>1, Publishing DEF ExportTypes
  <2>4. ExportTypes'
    BY <2>1, <2>2, <2>3 DEF ExportTypes
  <2>5. ThreadsInv'
    BY <2>1, <2>2 DEF ThreadsInv, InFlightCounts, Locked, Place, InHandoff, Modes, QuietInv,
       Quiet, Drained, SimInv, Queueing, Suspending, Handing, Taken, One
  <2>6. EndsInv'
    BY <2>1, <2>2, <2>3, RestingIsClerk DEF DataInv, EndsInv, Ends, Resting
  <2>7. Scores' /\ Stamps' /\ Budget'
    BY <2>1, <2>2, <2>3 DEF DataInv, Scores, Latest, Stamps, Newer, Budget, Owing
  <2>8. (snap.seq <= seq)'
    BY <2>3
  <2> QED
    BY <2>4, <2>5, <2>6, <2>7, <2>8 DEF DataInv
<1> QED
  BY <1>2, <1>3

--------------------------------------------------------------------------------
(* With companions, which start sessions on threads of their own: what a thread  *)
(* is, what it counts for, and what every thread keeps.                          *)
Holders == {"none", "worker", "game", "api"}
Counting == {"again", "try", "store", "leave"}
BaseTypes ==
  /\ status \in Statuses /\ th \in [{"game", "api"} -> Clerks] /\ worker \in Workers
  /\ mode \in {"Full", "Suspended"} /\ lock \in Holders
  /\ req \in [status : Statuses, pending : BOOLEAN, event : BOOLEAN]
  /\ inFlight \in Nat /\ book \in Books /\ snap \in States /\ seq \in Nat
  /\ training \in {"absent", "none", "game", "api"}
  /\ left \in [ops : 0 .. MaxOps, beats : 0 .. MaxBeats]
Counts ==
  inFlight = One(worker.pc \in Taken) + One(th["game"].pc \in Counting)
             + One(th["api"].pc \in Counting)
AllEnds ==
  /\ Ends(worker.state) /\ Ends(th["game"].state) /\ Ends(th["api"].state) /\ Ends(snap)
  /\ book.phase \in {"Failed", "SessionEnded"} => book.end # "None"
Base == BaseTypes /\ Counts /\ AllEnds /\ snap.seq <= seq

(* A step of the thread t, to the place pc. *)
Goto(t, pc) == \E c \in Clerks : th' = [th EXCEPT ![t] = c] /\ c.pc = pc /\ Ends(c.state)

(* At: the thread moves on. *)
LEMMA AtGoes ==
  ASSUME Base, NEW t \in Clients, NEW pc \in GamePcs, At(t, pc)
  PROVE  Goto(t, pc)
<1> DEFINE c == [th[t] EXCEPT !.pc = pc]
<1>1. th[t] \in Clerks /\ Ends(th[t].state)
  BY DEF Base, BaseTypes, AllEnds, Clients
<1>2. c \in Clerks /\ c.pc = pc /\ c.state = th[t].state
  BY <1>1 DEF Clerks
<1>3. th' = [th EXCEPT ![t] = c]
  BY DEF At
<1> QED
  BY <1>1, <1>2, <1>3 DEF Goto

(* What is left when an item is taken. *)
LEMMA TailIsTodo == \A q \in Todos : q # <<>> => Tail(q) \in Todos
<1>1. Tail(Update) = <<>> /\ Tail(Training) = <<>> /\ Tail(OnlineUi) = <<>>
  BY DEF Update, Training, OnlineUi
<1>2. Tail(TrainingUpdate) = Update
  BY DEF TrainingUpdate, Update
<1>3. Tail(Online) = OnlineUpdate
  BY DEF Online, OnlineUpdate
<1>4. Tail(OnlineUpdate) = OnlineSuspend
  BY DEF OnlineUpdate, OnlineSuspend
<1>5. Tail(OnlineSuspend) = OnlineUi
  BY DEF OnlineSuspend, OnlineUi
<1> QED
  BY <1>1, <1>2, <1>3, <1>4, <1>5 DEF Todos

(* Enter: the next item is begun. *)
LEMMA EnterGoes ==
  ASSUME Base, NEW t \in Clients, NEW item, Takes(t, item), NEW pc \in GamePcs, Enter(t, pc)
  PROVE  Goto(t, pc)
<1> DEFINE q == Tail(th[t].todo)
           c == [th[t] EXCEPT !.pc = pc, !.todo = q]
<1>1. th[t] \in Clerks /\ Ends(th[t].state) /\ th[t].todo # <<>> /\ th[t].todo \in Todos
  BY DEF Base, BaseTypes, AllEnds, Clients, Takes, Clerks
<1>2. q \in Todos
  BY <1>1, TailIsTodo
<1>3. th' = [th EXCEPT ![t] = c]
  BY DEF Enter
<1> HIDE DEF q
<1>4. c \in Clerks /\ c.pc = pc /\ c.state = th[t].state
  BY <1>1, <1>2 DEF Clerks
<1> QED
  BY <1>1, <1>3, <1>4 DEF Goto

(* Done and Abandon: the thread rests. *)
LEMMA DoneGoes ==
  ASSUME Base, NEW t \in Clients, Done(t) \/ Abandon(t)
  PROVE  Goto(t, "next")
<1>1. th[t] \in Clerks /\ th[t].todo \in Todos
  BY DEF Base, BaseTypes, Clients, Clerks
<1>2. CASE Done(t)
  <2> DEFINE c == [Resting EXCEPT !.todo = th[t].todo]
  <2>1. c \in Clerks /\ c.pc = Resting.pc /\ c.state = Resting.state
    BY <1>1, RestingIsClerk DEF Clerks
  <2>2. th' = [th EXCEPT ![t] = c]
    BY <1>2 DEF Done
  <2> HIDE DEF c
  <2> QED
    BY <2>1, <2>2, RestingIsClerk DEF Goto
<1>3. CASE Abandon(t)
  BY <1>3, RestingIsClerk DEF Goto, Abandon
<1> QED
  BY <1>2, <1>3

(* One of three who count, counting for something else. *)
LEMMA SumOfOnes ==
  \A w, g, a, p \in {0, 1} :
    /\ w + g + a + p - w = p + g + a
    /\ w + g + a + p - g = w + p + a
    /\ w + g + a + p - a = w + g + p
OBVIOUS

(* A step of a thread that publishes nothing: it counts for what its place says. *)
LEMMA ThreadStep ==
  ASSUME Base, NEW t \in Clients, NEW pc \in GamePcs, Goto(t, pc),
         UNCHANGED <<worker, book, snap, seq>>, status' \in Statuses,
         mode' \in {"Full", "Suspended"}, lock' \in Holders,
         req' \in [status : Statuses, pending : BOOLEAN, event : BOOLEAN],
         training' \in {"absent", "none", "game", "api"},
         left' \in [ops : 0 .. MaxOps, beats : 0 .. MaxBeats],
         inFlight' = inFlight + One(pc \in Counting) - One(th[t].pc \in Counting)
  PROVE  Base'
<1>1. PICK c \in Clerks : th' = [th EXCEPT ![t] = c] /\ c.pc = pc /\ Ends(c.state)
  BY DEF Goto
<1>2. /\ th' \in [{"game", "api"} -> Clerks] /\ th'[t] = c
      /\ \A u \in {"game", "api"} : u # t => th'[u] = th[u]
  BY <1>1 DEF Base, BaseTypes, Clients
<1>3. Counts' /\ inFlight' \in Nat
  <2> DEFINE w == One(worker.pc \in Taken)
             g == One(th["game"].pc \in Counting)
             a == One(th["api"].pc \in Counting)
             p == One(pc \in Counting)
  <2>1. w \in {0, 1} /\ g \in {0, 1} /\ a \in {0, 1} /\ p \in {0, 1}
    BY DEF One
  <2>2. inFlight = w + g + a
    BY DEF Base, Counts
  <2>3. CASE t = "game"
    <3>1. One(th'["game"].pc \in Counting) = p /\ One(th'["api"].pc \in Counting) = a
      BY <1>1, <1>2, <2>3
    <3>2. inFlight' = inFlight + p - g
      BY <2>3
    <3>3. Counts' <=> inFlight' = w + p + a
      BY <3>1 DEF Counts
    <3> HIDE DEF w, g, a, p
    <3>4. inFlight' = w + p + a
      BY <2>1, <2>2, <3>2, SumOfOnes
    <3>5. inFlight' \in Nat
      BY <2>1, <3>4
    <3> QED
      BY <3>3, <3>4, <3>5
  <2>4. CASE t = "api"
    <3>1. One(th'["game"].pc \in Counting) = g /\ One(th'["api"].pc \in Counting) = p
      BY <1>1, <1>2, <2>4
    <3>2. inFlight' = inFlight + p - a
      BY <2>4
    <3>3. Counts' <=> inFlight' = w + g + p
      BY <3>1 DEF Counts
    <3> HIDE DEF w, g, a, p
    <3>4. inFlight' = w + g + p
      BY <2>1, <2>2, <3>2, SumOfOnes
    <3>5. inFlight' \in Nat
      BY <2>1, <3>4
    <3> QED
      BY <3>3, <3>4, <3>5
  <2> QED
    BY <2>3, <2>4 DEF Clients
<1>4. BaseTypes'
  BY <1>2, <1>3 DEF Base, BaseTypes
<1>5. AllEnds'
  BY <1>1, <1>2 DEF Base, AllEnds, Ends, Clients
<1> QED
  BY <1>3, <1>4, <1>5 DEF Base

(* QueueUpdate, on any thread. *)
LEMMA QueueBase ==
  ASSUME Base, NEW t \in Clients,
         \/ QueueCheck(t) \/ QueueCount(t) \/ QueueAgain(t) \/ QueueTry(t) \/ QueueStore(t)
         \/ QueueLeave(t) \/ QueueSignal(t)
  PROVE  Base'
<1>1. /\ status \in Statuses /\ mode \in {"Full", "Suspended"} /\ lock \in Holders
      /\ req \in [status : Statuses, pending : BOOLEAN, event : BOOLEAN]
      /\ training \in {"absent", "none", "game", "api"} /\ inFlight \in Nat
      /\ left \in [ops : 0 .. MaxOps, beats : 0 .. MaxBeats]
  BY DEF Base, BaseTypes
<1>2. /\ Queueing \subseteq GamePcs /\ "next" \in GamePcs /\ "next" \notin Counting
      /\ "count" \notin Counting /\ "signal" \notin Counting /\ Counting \subseteq Queueing
      /\ t \in Holders /\ "none" \in Holders
  BY DEF Queueing, GamePcs, Counting, Holders, Clients
<1>3. CASE QueueCheck(t)
  <2>1. /\ Takes(t, "Update") /\ th[t].pc = "next"
        /\ UNCHANGED <<status, worker, mode, lock, req, inFlight, book, snap, seq, training, left>>
    BY <1>3 DEF QueueCheck, Takes
  <2>2. Enter(t, "next") \/ Enter(t, "count")
    BY <1>3 DEF QueueCheck
  <2>3. Goto(t, "next") \/ Goto(t, "count")
    BY <1>2, <2>1, <2>2, EnterGoes DEF Queueing
  <2>4. ASSUME NEW pc \in {"next", "count"}, Goto(t, pc) PROVE Base'
    <3>1. pc \in GamePcs /\ pc \notin Counting /\ th[t].pc \notin Counting
      BY <1>2, <2>1 DEF Queueing
    <3>2. inFlight' = inFlight + One(pc \in Counting) - One(th[t].pc \in Counting)
      BY <1>1, <2>1, <3>1 DEF One
    <3> QED
      BY <1>1, <2>1, <2>4, <3>1, <3>2, ThreadStep
  <2> QED
    BY <2>3, <2>4
<1>4. CASE QueueCount(t)
  <2>1. /\ th[t].pc = "count" /\ inFlight' = inFlight + 1 /\ At(t, "again")
        /\ UNCHANGED <<status, worker, mode, lock, req, book, snap, seq, training, left>>
    BY <1>4 DEF QueueCount
  <2>2. Goto(t, "again") /\ "again" \in GamePcs
    BY <1>2, <2>1, AtGoes DEF Queueing
  <2>3. inFlight' = inFlight + One("again" \in Counting) - One(th[t].pc \in Counting)
    BY <1>1, <1>2, <2>1 DEF One, Counting
  <2> QED
    BY <1>1, <2>1, <2>2, <2>3, ThreadStep
<1>5. CASE QueueAgain(t)
  <2>1. /\ th[t].pc = "again"
        /\ UNCHANGED <<status, worker, mode, lock, req, book, snap, seq, training, left>>
    BY <1>5 DEF QueueAgain
  <2>2. CASE inFlight' = inFlight - 1 /\ Done(t)
    <3>1. Goto(t, "next")
      BY <2>2, DoneGoes
    <3>2. inFlight' = inFlight + One("next" \in Counting) - One(th[t].pc \in Counting)
      BY <1>1, <2>1, <2>2 DEF One, Counting
    <3> QED
      BY <1>1, <1>2, <2>1, <3>1, <3>2, ThreadStep
  <2>3. CASE At(t, "try") /\ UNCHANGED inFlight
    <3>1. Goto(t, "try") /\ "try" \in GamePcs
      BY <1>2, <2>3, AtGoes DEF Queueing
    <3>2. inFlight' = inFlight + One("try" \in Counting) - One(th[t].pc \in Counting)
      BY <1>1, <2>1, <2>3 DEF One, Counting
    <3> QED
      BY <1>1, <2>1, <3>1, <3>2, ThreadStep
  <2> QED
    BY <1>5, <2>2, <2>3 DEF QueueAgain
<1>6. CASE QueueTry(t)
  <2>1. /\ th[t].pc = "try"
        /\ UNCHANGED <<status, worker, mode, req, book, snap, seq, training, left>>
    BY <1>6 DEF QueueTry
  <2>2. CASE lock' = t /\ At(t, "store") /\ UNCHANGED inFlight
    <3>1. Goto(t, "store") /\ "store" \in GamePcs
      BY <1>2, <2>2, AtGoes DEF Queueing
    <3>2. inFlight' = inFlight + One("store" \in Counting) - One(th[t].pc \in Counting)
      BY <1>1, <2>1, <2>2 DEF One, Counting
    <3> QED
      BY <1>1, <1>2, <2>1, <2>2, <3>1, <3>2, ThreadStep
  <2>3. CASE inFlight' = inFlight - 1 /\ Done(t) /\ UNCHANGED lock
    <3>1. Goto(t, "next")
      BY <2>3, DoneGoes
    <3>2. inFlight' = inFlight + One("next" \in Counting) - One(th[t].pc \in Counting)
      BY <1>1, <2>1, <2>3 DEF One, Counting
    <3> QED
      BY <1>1, <1>2, <2>1, <2>3, <3>1, <3>2, ThreadStep
  <2> QED
    BY <1>6, <2>2, <2>3 DEF QueueTry
<1>7. CASE QueueStore(t)
  <2>1. /\ th[t].pc = "store" /\ lock' = "none" /\ At(t, "leave")
        /\ req' = [req EXCEPT !.status = status, !.pending = TRUE]
        /\ UNCHANGED <<status, worker, mode, inFlight, book, snap, seq, training, left>>
    BY <1>7 DEF QueueStore
  <2>2. Goto(t, "leave") /\ "leave" \in GamePcs
    BY <1>2, <2>1, AtGoes DEF Queueing
  <2>3. inFlight' = inFlight + One("leave" \in Counting) - One(th[t].pc \in Counting)
    BY <1>1, <2>1 DEF One, Counting
  <2>4. req' \in [status : Statuses, pending : BOOLEAN, event : BOOLEAN]
    BY <1>1, <2>1
  <2> QED
    BY <1>1, <1>2, <2>1, <2>2, <2>3, <2>4, ThreadStep
<1>8. CASE QueueLeave(t)
  <2>1. /\ th[t].pc = "leave" /\ inFlight' = inFlight - 1 /\ At(t, "signal")
        /\ UNCHANGED <<status, worker, mode, lock, req, book, snap, seq, training, left>>
    BY <1>8 DEF QueueLeave
  <2>2. Goto(t, "signal") /\ "signal" \in GamePcs
    BY <1>2, <2>1, AtGoes DEF Queueing
  <2>3. inFlight' = inFlight + One("signal" \in Counting) - One(th[t].pc \in Counting)
    BY <1>1, <2>1 DEF One, Counting
  <2> QED
    BY <1>1, <2>1, <2>2, <2>3, ThreadStep
<1>9. CASE QueueSignal(t)
  <2>1. /\ th[t].pc = "signal" /\ req' = [req EXCEPT !.event = TRUE] /\ Done(t)
        /\ UNCHANGED <<status, worker, mode, lock, inFlight, book, snap, seq, training, left>>
    BY <1>9 DEF QueueSignal, SetEvent
  <2>2. Goto(t, "next")
    BY <2>1, DoneGoes
  <2>3. inFlight' = inFlight + One("next" \in Counting) - One(th[t].pc \in Counting)
    BY <1>1, <2>1 DEF One, Counting
  <2>4. req' \in [status : Statuses, pending : BOOLEAN, event : BOOLEAN]
    BY <1>1, <2>1
  <2> QED
    BY <1>1, <1>2, <2>1, <2>2, <2>3, <2>4, ThreadStep
<1> QED
  BY <1>3, <1>4, <1>5, <1>6, <1>7, <1>8, <1>9

(* SuspendForOnlineSimulation, on any thread. *)
LEMMA SuspendBase ==
  ASSUME Base, NEW t \in Clients,
         \/ SuspendSet(t) \/ SuspendCross(t) \/ SuspendLook(t) \/ SuspendDone(t)
         \/ SuspendTimeout(t)
  PROVE  Base'
<1>1. /\ status \in Statuses /\ mode \in {"Full", "Suspended"} /\ lock \in Holders
      /\ req \in [status : Statuses, pending : BOOLEAN, event : BOOLEAN]
      /\ training \in {"absent", "none", "game", "api"} /\ inFlight \in Nat
      /\ left \in [ops : 0 .. MaxOps, beats : 0 .. MaxBeats]
  BY DEF Base, BaseTypes
<1>2. ASSUME NEW pc \in GamePcs \ Counting, Goto(t, pc), th[t].pc \notin Counting,
             UNCHANGED <<status, worker, lock, inFlight, book, snap, seq, left>>,
             mode' \in {"Full", "Suspended"}, training' \in {"absent", "none", "game", "api"},
             req' \in [status : Statuses, pending : BOOLEAN, event : BOOLEAN]
      PROVE  Base'
  <2>1. inFlight' = inFlight + One(pc \in Counting) - One(th[t].pc \in Counting)
    BY <1>1, <1>2 DEF One
  <2> QED
    BY <1>1, <1>2, <2>1, ThreadStep
<1>3. CASE SuspendSet(t)
  <2> DEFINE q == IF th[t].pc = "drain" THEN th[t].todo ELSE Tail(th[t].todo)
             h == th[t].pc = "drain"
             c == [th[t] EXCEPT !.pc = "cross", !.handoff = h, !.todo = q]
  <2>1. th[t] \in Clerks /\ Ends(th[t].state) /\ th[t].todo \in Todos
    BY DEF Base, BaseTypes, AllEnds, Clients, Clerks
  <2>2. q \in Todos /\ th[t].pc \notin Counting
    BY <1>3, <2>1, TailIsTodo DEF SuspendSet, Takes, Counting
  <2>3. th' = [th EXCEPT ![t] = c]
    BY <1>3 DEF SuspendSet
  <2>4. h \in BOOLEAN
    OBVIOUS
  <2> HIDE DEF q, h
  <2>5. c \in Clerks /\ c.pc = "cross" /\ c.state = th[t].state
    BY <2>1, <2>2, <2>4 DEF Clerks, GamePcs, Suspending
  <2>6. Goto(t, "cross") /\ "cross" \in GamePcs \ Counting
    BY <2>1, <2>3, <2>5 DEF Goto, GamePcs, Suspending, Counting
  <2>7. /\ mode' = "Suspended"
        /\ UNCHANGED <<status, worker, lock, req, inFlight, book, snap, seq, training, left>>
    BY <1>3 DEF SuspendSet
  <2> QED
    BY <1>1, <1>2, <2>2, <2>6, <2>7
<1>4. CASE SuspendCross(t)
  <2>1. /\ th[t].pc = "cross" /\ req' = [req EXCEPT !.event = TRUE] /\ At(t, "look1")
        /\ UNCHANGED <<status, worker, mode, lock, inFlight, book, snap, seq, training, left>>
    BY <1>4 DEF SuspendCross, SetEvent
  <2>2. "look1" \in GamePcs \ Counting /\ th[t].pc \notin Counting
    BY <2>1 DEF GamePcs, Suspending, Counting
  <2>3. Goto(t, "look1")
    BY <2>1, <2>2, AtGoes
  <2>4. req' \in [status : Statuses, pending : BOOLEAN, event : BOOLEAN]
    BY <1>1, <2>1
  <2> QED
    BY <1>1, <1>2, <2>1, <2>2, <2>3, <2>4
<1>5. CASE SuspendLook(t)
  <2>1. PICK i \in DOMAIN Looks : Look(t, i)
    BY <1>5 DEF SuspendLook
  <2> DEFINE busy == IF i % 2 = 1 THEN inFlight # 0 ELSE req.pending
             pc == IF busy THEN "look1" ELSE IF i = Len(Looks) THEN "quiet" ELSE Looks[i + 1]
  <2>2. /\ th[t].pc = Looks[i] /\ At(t, pc)
        /\ UNCHANGED <<status, worker, mode, lock, req, inFlight, book, snap, seq, training, left>>
    BY <2>1 DEF Look
  <2>3. pc \in Suspending /\ Looks[i] \in Suspending
    <3>1. i \in 1 .. 4 /\ (i # 4 => i + 1 \in {2, 3, 4}) /\ i \in {1, 2, 3, 4}
      BY LooksAre
    <3>2. i # 4 => Looks[i + 1] \in Suspending
      BY <3>1, LooksAre DEF Suspending
    <3>3. Looks[i] \in Suspending
      BY <3>1, LooksAre DEF Suspending
    <3> QED
      BY <3>2, <3>3, LooksAre DEF Suspending
  <2> HIDE DEF pc
  <2>4. pc \in GamePcs \ Counting /\ th[t].pc \notin Counting
    BY <2>2, <2>3 DEF GamePcs, Suspending, Counting
  <2>5. Goto(t, pc)
    BY <2>2, <2>4, AtGoes
  <2> QED
    BY <1>1, <1>2, <2>2, <2>4, <2>5
<1>6. CASE SuspendDone(t)
  <2>1. /\ th[t].pc = "quiet" /\ (At(t, "prepared") \/ Done(t))
        /\ UNCHANGED <<status, worker, mode, lock, req, inFlight, book, snap, seq, training, left>>
    BY <1>6 DEF SuspendDone
  <2>2. /\ "prepared" \in GamePcs \ Counting /\ "next" \in GamePcs \ Counting
        /\ th[t].pc \notin Counting
    BY <2>1 DEF GamePcs, Handing, Counting
  <2>3. Goto(t, "prepared") \/ Goto(t, "next")
    BY <2>1, <2>2, AtGoes, DoneGoes
  <2> QED
    BY <1>1, <1>2, <2>1, <2>2, <2>3
<1>7. CASE SuspendTimeout(t)
  <2>1. /\ th[t].pc \in {Looks[i] : i \in DOMAIN Looks} /\ Abandon(t)
        /\ mode' \in {mode, "Full"} /\ training' \in {training, "none"}
        /\ UNCHANGED <<status, worker, lock, req, inFlight, book, snap, seq, left>>
    BY <1>7 DEF SuspendTimeout
  <2>2. "next" \in GamePcs \ Counting /\ th[t].pc \notin Counting
    <3>1. \A i \in DOMAIN Looks : Looks[i] \in Suspending
      BY LooksAre DEF Suspending
    <3> QED
      BY <2>1, <3>1 DEF GamePcs, Counting, Suspending
  <2>3. Goto(t, "next")
    BY <2>1, DoneGoes
  <2> QED
    BY <1>1, <1>2, <2>1, <2>2, <2>3
<1> QED
  BY <1>3, <1>4, <1>5, <1>6, <1>7

(* The handoff to the training mod, on any thread. *)
LEMMA HandoffBase ==
  ASSUME Base, NEW t \in Clients,
         TrainingBegin(t) \/ TrainingWork(t) \/ TrainingPublish(t) \/ TrainingEnd(t)
  PROVE  Base'
<1>1. /\ status \in Statuses /\ mode \in {"Full", "Suspended"} /\ lock \in Holders
      /\ req \in [status : Statuses, pending : BOOLEAN, event : BOOLEAN]
      /\ training \in {"absent", "none", "game", "api"} /\ inFlight \in Nat
      /\ left \in [ops : 0 .. MaxOps, beats : 0 .. MaxBeats]
  BY DEF Base, BaseTypes
<1>2. ASSUME NEW pc \in GamePcs \ Counting, Goto(t, pc), th[t].pc \notin Counting,
             UNCHANGED <<worker, lock, req, inFlight, book, snap, seq, left>>,
             status' \in Statuses,
             mode' \in {"Full", "Suspended"}, training' \in {"absent", "none", "game", "api"}
      PROVE  Base'
  <2>1. inFlight' = inFlight + One(pc \in Counting) - One(th[t].pc \in Counting)
    BY <1>1, <1>2 DEF One
  <2> QED
    BY <1>1, <1>2, <2>1, ThreadStep
<1>3. CASE TrainingBegin(t)
  <2>1. /\ Takes(t, "Training") /\ th[t].pc \notin Counting
        /\ UNCHANGED <<status, worker, mode, lock, req, inFlight, book, snap, seq, left>>
        /\ "next" \in GamePcs \ Counting /\ "drain" \in GamePcs \ Counting
    BY <1>3 DEF TrainingBegin, Takes, Counting, GamePcs
  <2>2. CASE (Enter(t, "next") \/ Abandon(t)) /\ UNCHANGED training
    <3>1. Goto(t, "next")
      BY <2>1, <2>2, EnterGoes, DoneGoes
    <3> QED
      BY <1>1, <1>2, <2>1, <2>2, <3>1
  <2>3. CASE /\ training' = t
             /\ th' = [th EXCEPT ![t].pc = "drain", ![t].kept = mode = "Suspended",
                                 ![t].todo = Tail(@)]
    <3> DEFINE q == Tail(th[t].todo)
               k == mode = "Suspended"
               c == [th[t] EXCEPT !.pc = "drain", !.kept = k, !.todo = q]
    <3>1. th[t] \in Clerks /\ Ends(th[t].state) /\ th[t].todo # <<>> /\ th[t].todo \in Todos
      BY <2>1 DEF Base, BaseTypes, AllEnds, Clients, Takes, Clerks
    <3>2. q \in Todos /\ k \in BOOLEAN
      BY <3>1, TailIsTodo
    <3>3. th' = [th EXCEPT ![t] = c]
      BY <2>3
    <3> HIDE DEF q, k
    <3>4. c \in Clerks /\ c.pc = "drain" /\ c.state = th[t].state
      BY <2>1, <3>1, <3>2 DEF Clerks
    <3>5. Goto(t, "drain")
      BY <3>1, <3>3, <3>4 DEF Goto
    <3> QED
      BY <1>1, <1>2, <2>1, <2>3, <3>5 DEF Clients
  <2> QED
    BY <1>3, <2>2, <2>3 DEF TrainingBegin
<1>4. CASE TrainingWork(t)
  <2>1. /\ th[t].pc = "prepared" /\ At(t, "worked")
        /\ \/ status' = [phase |-> "Connecting", wins |-> 0, stamp |-> status.stamp + 1]
           \/ status' = status
        /\ UNCHANGED <<worker, mode, lock, req, inFlight, book, snap, seq, training, left>>
    BY <1>4 DEF TrainingWork
  <2>2. status' \in Statuses
    BY <1>1, <2>1 DEF Statuses, Phases
  <2>3. "worked" \in GamePcs \ Counting /\ th[t].pc \notin Counting
    BY <2>1 DEF GamePcs, Handing, Counting
  <2>4. Goto(t, "worked")
    BY <2>1, <2>3, AtGoes
  <2> QED
    BY <1>1, <1>2, <2>1, <2>2, <2>3, <2>4
<1>5. CASE TrainingEnd(t)
  <2>1. /\ th[t].pc = "resume" /\ Done(t) /\ mode' \in {mode, "Full"} /\ training' = "none"
        /\ UNCHANGED <<status, worker, lock, req, inFlight, book, snap, seq, left>>
    BY <1>5 DEF TrainingEnd, ResumeMode
  <2>2. "next" \in GamePcs \ Counting /\ th[t].pc \notin Counting
    BY <2>1 DEF GamePcs, Counting
  <2>3. Goto(t, "next")
    BY <2>1, DoneGoes
  <2> QED
    BY <1>1, <1>2, <2>1, <2>2, <2>3
<1>6. CASE TrainingPublish(t)
  <2> DEFINE d == [snap EXCEPT !.stamp = status.stamp, !.phase = status.phase, !.end = "None",
                               !.by = "handoff"]
  <2>1. /\ th[t].pc = "worked" /\ Publish(d, seq) /\ At(t, "resume")
        /\ UNCHANGED <<status, worker, mode, lock, req, inFlight, book, training, left>>
    BY <1>6 DEF TrainingPublish
  <2>2. d \in States /\ d.by = "handoff"
    <3>1. snap \in States /\ status.stamp \in Nat /\ status.phase \in Phases
      BY <1>1 DEF Base, BaseTypes, Statuses
    <3> QED
      BY <3>1 DEF States
  <2> HIDE DEF d
  <2>3. snap' \in States /\ seq' \in Nat /\ snap'.seq = seq' /\ snap'.by = "handoff"
    BY <2>1, <2>2, Publishing DEF Base, BaseTypes
  <2>4. "resume" \in GamePcs \ Counting /\ th[t].pc \notin Counting
    BY <2>1 DEF GamePcs, Handing, Counting
  <2>5. PICK c \in Clerks : th' = [th EXCEPT ![t] = c] /\ c.pc = "resume" /\ Ends(c.state)
    BY <2>1, <2>4, AtGoes DEF Goto
  <2>6. /\ th' \in [{"game", "api"} -> Clerks] /\ th'[t] = c
        /\ \A u \in {"game", "api"} : u # t => th'[u] = th[u]
    BY <2>5 DEF Base, BaseTypes, Clients
  <2>7. BaseTypes'
    BY <2>1, <2>3, <2>6 DEF Base, BaseTypes
  <2>8. Counts'
    <3>1. \A u \in {"game", "api"} : (th'[u].pc \in Counting) = (th[u].pc \in Counting)
      BY <2>4, <2>5, <2>6
    <3> QED
      BY <2>1, <3>1 DEF Base, Counts
  <2>9. AllEnds'
    BY <2>1, <2>3, <2>5, <2>6 DEF Base, AllEnds, Ends, Clients
  <2> QED
    BY <2>3, <2>7, <2>8, <2>9, SMT DEF Base, BaseTypes
<1> QED
  BY <1>3, <1>4, <1>5, <1>6

(* The operations: they begin with a status, and are left to the thread. *)
LEMMA OperationBase ==
  ASSUME Base, Tick \/ StartSession \/ GoOnline \/ SuspendUi \/ EnterNetplayMenu
  PROVE  Base'
<1>1. /\ status \in Statuses /\ mode \in {"Full", "Suspended"} /\ lock \in Holders
      /\ req \in [status : Statuses, pending : BOOLEAN, event : BOOLEAN]
      /\ training \in {"absent", "none", "game", "api"} /\ inFlight \in Nat
      /\ left \in [ops : 0 .. MaxOps, beats : 0 .. MaxBeats]
      /\ "next" \in GamePcs /\ "next" \notin Counting /\ "game" \in Clients
  BY DEF Base, BaseTypes, GamePcs, Counting, Clients
<1>2. ASSUME NEW t \in Clients, NEW q \in {Update, Training, TrainingUpdate, Online}, Begin(t, q),
             status' = status \/ Moves
      PROVE  Base'
  <2> DEFINE c == [th[t] EXCEPT !.todo = q]
  <2>1. /\ th[t].pc = "next" /\ th' = [th EXCEPT ![t] = c]
        /\ left.ops >= Cost(t) /\ left' = [left EXCEPT !.ops = left.ops - Cost(t)]
        /\ UNCHANGED <<worker, mode, lock, req, inFlight, book, snap, seq, training>>
    BY <1>2 DEF Begin, AtRest
  <2>2. th[t] \in Clerks /\ Ends(th[t].state) /\ q \in Todos
    BY <1>2 DEF Base, BaseTypes, AllEnds, Clients, Todos
  <2>3. c \in Clerks /\ c.pc = "next" /\ c.state = th[t].state
    BY <2>1, <2>2 DEF Clerks
  <2> HIDE DEF c
  <2>4. Goto(t, "next")
    BY <2>1, <2>2, <2>3 DEF Goto
  <2>5. left' \in [ops : 0 .. MaxOps, beats : 0 .. MaxBeats]
    <3>1. left.ops - Cost(t) \in 0 .. MaxOps
      BY <1>1, <2>1, ExportAssumption DEF Cost
    <3> QED
      BY <1>1, <2>1, <3>1
  <2>6. status' \in Statuses
    BY <1>1, <1>2, MovesOn
  <2>7. inFlight' = inFlight + One("next" \in Counting) - One(th[t].pc \in Counting)
    BY <1>1, <2>1 DEF One
  <2> QED
    BY <1>1, <2>1, <2>4, <2>5, <2>6, <2>7, ThreadStep
<1>3. CASE Tick
  BY <1>1, <1>2, <1>3 DEF Tick, Update, TrainingUpdate
<1>4. CASE StartSession
  BY <1>2, <1>4 DEF StartSession, Training
<1>5. CASE GoOnline
  BY <1>1, <1>2, <1>5 DEF GoOnline, Online
<1>6. CASE SuspendUi
  <2>1. /\ Takes("game", "Ui") /\ Enter("game", "next") /\ mode' \in {mode, "Full"}
        /\ th["game"].pc = "next"
        /\ UNCHANGED <<status, worker, lock, req, inFlight, book, snap, seq, training, left>>
    BY <1>6 DEF SuspendUi, Takes
  <2>2. Goto("game", "next")
    BY <1>1, <2>1, EnterGoes
  <2>3. inFlight' = inFlight + One("next" \in Counting) - One(th["game"].pc \in Counting)
    BY <1>1, <2>1 DEF One
  <2> QED
    BY <1>1, <2>1, <2>2, <2>3, ThreadStep
<1>7. CASE EnterNetplayMenu
  BY <1>7 DEF EnterNetplayMenu, Base, BaseTypes, Counts, AllEnds, Ends
<1> QED
  BY <1>3, <1>4, <1>5, <1>6, <1>7

(* The boundaries, and the end of the exporter. *)
LEMMA BoundaryBase ==
  ASSUME Base, BoundaryWalk \/ BoundaryPublish \/ Shutdown \/ Joined
  PROVE  Base'
<1>1. /\ status \in Statuses /\ mode \in {"Full", "Suspended"} /\ lock \in Holders
      /\ req \in [status : Statuses, pending : BOOLEAN, event : BOOLEAN]
      /\ training \in {"absent", "none", "game", "api"} /\ inFlight \in Nat
      /\ left \in [ops : 0 .. MaxOps, beats : 0 .. MaxBeats]
      /\ worker \in Workers /\ snap \in States /\ snap.seq \in Nat /\ seq \in Nat
      /\ snap.seq <= seq /\ book \in Books
  BY DEF Base, BaseTypes, States
<1>2. /\ th \in [{"game", "api"} -> Clerks] /\ th["game"] \in Clerks /\ Ends(th["game"].state)
      /\ "game" \in Clients
  BY DEF Base, BaseTypes, AllEnds, Clients
<1>3. CASE BoundaryWalk
  <2> DEFINE r == Remembered(status')
             d == Derived(status', r)
             c == [th["game"] EXCEPT !.pc = "walked", !.began = seq + 1, !.state = d]
  <2>1. /\ th["game"].pc = "next" /\ left.ops > 0 /\ left' = [left EXCEPT !.ops = left.ops - 1]
        /\ book' = r /\ seq' = seq + 1 /\ th' = [th EXCEPT !["game"] = c]
        /\ UNCHANGED <<worker, mode, lock, req, inFlight, snap, training>>
    BY <1>3 DEF BoundaryWalk, AtRest
  <2>2. status' \in Statuses
    BY <1>1, <1>3, MovesOn DEF BoundaryWalk
  <2>3. /\ r \in Books /\ r.phase = status'.phase
        /\ status'.phase \in {"Failed", "SessionEnded"} => r.end # "None"
    BY <1>1, <2>2, RememberedIs DEF Base, AllEnds
  <2> HIDE DEF r
  <2>4. d \in States /\ Ends(d)
    BY <2>2, <2>3, DerivedIs DEF Ends
  <2> HIDE DEF d
  <2>5. c \in Clerks /\ c.pc = "walked" /\ c.state = d
    <3>1. "walked" \in GamePcs /\ seq + 1 \in Nat
      BY <1>1 DEF GamePcs
    <3> QED
      BY <1>2, <2>4, <3>1 DEF Clerks
  <2> HIDE DEF c
  <2>6. /\ th' \in [{"game", "api"} -> Clerks] /\ th'["game"] = c /\ th'["api"] = th["api"]
    BY <1>2, <2>1, <2>5
  <2>7. left' \in [ops : 0 .. MaxOps, beats : 0 .. MaxBeats]
    <3>1. left.ops - 1 \in 0 .. MaxOps
      BY <1>1, <2>1, ExportAssumption
    <3> QED
      BY <1>1, <2>1, <3>1
  <2>8. BaseTypes'
    BY <1>1, <2>1, <2>2, <2>3, <2>6, <2>7 DEF Base, BaseTypes
  <2>9. Counts'
    BY <2>1, <2>5, <2>6 DEF Base, Counts, Counting, One
  <2>10. AllEnds'
    BY <2>1, <2>3, <2>4, <2>5, <2>6 DEF Base, AllEnds, Ends
  <2>11. (snap.seq <= seq)'
    BY <1>1, <2>1
  <2> QED
    BY <2>8, <2>9, <2>10, <2>11 DEF Base
<1>4. CASE BoundaryPublish
  <2>1. /\ th["game"].pc = "walked" /\ Publish(th["game"].state, th["game"].began)
        /\ th' = [th EXCEPT !["game"] = Resting]
        /\ UNCHANGED <<status, worker, mode, lock, req, inFlight, book, training, left>>
    BY <1>4 DEF BoundaryPublish
  <2>2. th["game"].state \in States
    BY <1>2 DEF Clerks
  <2>3. /\ snap' \in States /\ seq' \in Nat /\ snap'.seq = seq' /\ Ends(snap')
    BY <1>1, <1>2, <2>1, <2>2, Publishing DEF Ends
  <2>4. /\ th' \in [{"game", "api"} -> Clerks] /\ th'["game"] = Resting
        /\ th'["api"] = th["api"] /\ Resting.pc = "next" /\ Ends(Resting.state)
    BY <1>2, <2>1, RestingIsClerk
  <2>5. BaseTypes'
    BY <1>1, <2>1, <2>3, <2>4 DEF Base, BaseTypes
  <2>6. Counts'
    BY <2>1, <2>4 DEF Base, Counts, Counting, One
  <2>7. AllEnds'
    BY <2>1, <2>3, <2>4 DEF Base, AllEnds, Ends
  <2>8. (snap.seq <= seq)'
    BY <2>3
  <2> QED
    BY <2>5, <2>6, <2>7, <2>8 DEF Base
<1>5. CASE Shutdown
  <2>1. /\ th["game"].pc = "next" /\ At("game", "join")
        /\ worker' = [worker EXCEPT !.stopping = TRUE] /\ req' = [req EXCEPT !.event = TRUE]
        /\ UNCHANGED <<status, mode, lock, inFlight, book, snap, seq, training, left>>
    BY <1>5 DEF Shutdown, SetEvent
  <2>2. /\ worker' \in Workers /\ worker'.pc = worker.pc /\ worker'.state = worker.state
        /\ req' \in [status : Statuses, pending : BOOLEAN, event : BOOLEAN]
    BY <1>1, <2>1 DEF Workers
  <2>3. "join" \in GamePcs
    BY DEF GamePcs
  <2>4. PICK c \in Clerks : th' = [th EXCEPT !["game"] = c] /\ c.pc = "join" /\ Ends(c.state)
    BY <1>2, <2>1, <2>3, AtGoes DEF Goto
  <2>5. th' \in [{"game", "api"} -> Clerks] /\ th'["game"] = c /\ th'["api"] = th["api"]
    BY <1>2, <2>4
  <2>6. BaseTypes'
    BY <1>1, <2>1, <2>2, <2>5 DEF Base, BaseTypes
  <2>7. Counts'
    BY <2>1, <2>2, <2>4, <2>5 DEF Base, Counts, Counting, One
  <2>8. AllEnds'
    BY <2>1, <2>2, <2>4, <2>5 DEF Base, AllEnds, Ends
  <2> QED
    BY <1>1, <2>1, <2>6, <2>7, <2>8 DEF Base
<1>6. CASE Joined
  <2>1. /\ th["game"].pc = "join" /\ At("game", "down") /\ mode' = "Suspended"
        /\ req' = [req EXCEPT !.pending = FALSE, !.event = FALSE]
        /\ snap' = [snap EXCEPT !.by = "none"]
        /\ UNCHANGED <<status, worker, lock, inFlight, book, seq, training, left>>
    BY <1>6 DEF Joined
  <2>2. /\ req' \in [status : Statuses, pending : BOOLEAN, event : BOOLEAN]
        /\ snap' \in States /\ snap'.by = "none" /\ snap'.seq = snap.seq
    BY <1>1, <2>1 DEF States
  <2>3. "down" \in GamePcs
    BY DEF GamePcs
  <2>4. PICK c \in Clerks : th' = [th EXCEPT !["game"] = c] /\ c.pc = "down" /\ Ends(c.state)
    BY <1>2, <2>1, <2>3, AtGoes DEF Goto
  <2>5. th' \in [{"game", "api"} -> Clerks] /\ th'["game"] = c /\ th'["api"] = th["api"]
    BY <1>2, <2>4
  <2>6. BaseTypes'
    BY <1>1, <2>1, <2>2, <2>5 DEF Base, BaseTypes
  <2>7. Counts'
    BY <2>1, <2>4, <2>5 DEF Base, Counts, Counting, One
  <2>8. AllEnds'
    BY <2>1, <2>2, <2>4, <2>5 DEF Base, AllEnds, Ends
  <2>9. (snap.seq <= seq)'
    BY <1>1, <2>1, <2>2
  <2> QED
    BY <2>6, <2>7, <2>8, <2>9 DEF Base
<1> QED
  BY <1>3, <1>4, <1>5, <1>6

(* A step of the worker's that publishes nothing. *)
LEMMA WorkerStep ==
  ASSUME Base, UNCHANGED <<status, th, mode, snap, training>>, worker' \in Workers,
         Ends(worker'.state), lock' \in Holders,
         req' \in [status : Statuses, pending : BOOLEAN, event : BOOLEAN],
         left' \in [ops : 0 .. MaxOps, beats : 0 .. MaxBeats], book' \in Books,
         book'.phase \in {"Failed", "SessionEnded"} => book'.end # "None",
         seq' \in Nat, seq' >= seq,
         inFlight' = inFlight + One(worker'.pc \in Taken) - One(worker.pc \in Taken)
  PROVE  Base'
<1>1. inFlight' \in Nat /\ Counts'
  <2> DEFINE w == One(worker.pc \in Taken)
             g == One(th["game"].pc \in Counting)
             a == One(th["api"].pc \in Counting)
             p == One(worker'.pc \in Taken)
  <2>1. w \in {0, 1} /\ g \in {0, 1} /\ a \in {0, 1} /\ p \in {0, 1}
    BY DEF One
  <2>2. inFlight = w + g + a /\ inFlight' = inFlight + p - w
    BY DEF Base, Counts
  <2>3. Counts' <=> inFlight' = p + g + a
    BY DEF Counts
  <2> HIDE DEF w, g, a, p
  <2>4. inFlight' = p + g + a
    BY <2>1, <2>2, SumOfOnes
  <2>5. inFlight' \in Nat
    BY <2>1, <2>4
  <2> QED
    BY <2>3, <2>4, <2>5
<1>2. BaseTypes'
  BY <1>1 DEF Base, BaseTypes
<1>3. AllEnds'
  BY DEF Base, AllEnds, Ends
<1>4. (snap.seq <= seq)'
  <2>1. snap.seq \in Nat /\ seq \in Nat /\ snap.seq <= seq
    BY DEF Base, BaseTypes, States
  <2> QED
    BY <2>1
<1> QED
  BY <1>1, <1>2, <1>3, <1>4 DEF Base

(* The worker, whoever else is at work. *)
LEMMA WorkerBase ==
  ASSUME Base, Worker \/ WorkerTimeout \/ PublishSuspendedHeartbeat
  PROVE  Base'
<1>1. /\ status \in Statuses /\ lock \in Holders /\ worker \in Workers
      /\ req \in [status : Statuses, pending : BOOLEAN, event : BOOLEAN] /\ inFlight \in Nat
      /\ left \in [ops : 0 .. MaxOps, beats : 0 .. MaxBeats] /\ book \in Books
      /\ snap \in States /\ seq \in Nat /\ Ends(worker.state) /\ Ends(snap)
      /\ book.phase \in {"Failed", "SessionEnded"} => book.end # "None"
      /\ snap.seq \in Nat /\ snap.seq <= seq
  BY DEF Base, BaseTypes, AllEnds, States
<1>2. ASSUME UNCHANGED <<status, th, mode, book, snap, seq, training, left>>,
             NEW pc \in WorkerPcs, worker' \in Workers, worker'.pc = pc,
             worker'.state = worker.state, lock' \in Holders,
             req' \in [status : Statuses, pending : BOOLEAN, event : BOOLEAN],
             inFlight' = inFlight + One(pc \in Taken) - One(worker.pc \in Taken)
      PROVE  Base'
  BY <1>1, <1>2, WorkerStep
<1>3. CASE WorkerWaits \/ WorkerWakes
  <2> DEFINE pc == IF worker.pc = "loop" THEN "wait"
                   ELSE IF worker.stopping THEN "stopped" ELSE "count"
             b == IF worker.pc = "loop" THEN mode = "Suspended" ELSE FALSE
  <2>1. /\ worker' = [worker EXCEPT !.pc = pc, !.beats = b]
        /\ req' = req \/ req' = [req EXCEPT !.event = FALSE]
        /\ worker.pc \notin Taken /\ pc \notin Taken
        /\ UNCHANGED <<status, th, mode, lock, inFlight, book, snap, seq, training, left>>
    BY <1>3 DEF WorkerWaits, WorkerWakes, Taken
  <2>2. pc \in WorkerPcs /\ b \in BOOLEAN
    BY DEF WorkerPcs
  <2> HIDE DEF pc, b
  <2>3. worker' \in Workers /\ worker'.pc = pc /\ worker'.state = worker.state
    BY <1>1, <2>1, <2>2, WorkerAt
  <2>4. req' \in [status : Statuses, pending : BOOLEAN, event : BOOLEAN]
    BY <1>1, <2>1
  <2>5. inFlight' = inFlight + One(pc \in Taken) - One(worker.pc \in Taken)
    BY <1>1, <2>1 DEF One
  <2> QED
    BY <1>1, <1>2, <2>1, <2>2, <2>3, <2>4, <2>5
<1>4. CASE WorkerCounts
  <2>1. /\ worker.pc = "count" /\ inFlight' = inFlight + 1 /\ Goes("take")
        /\ UNCHANGED <<status, th, mode, lock, req, book, snap, seq, training, left>>
        /\ "take" \in WorkerPcs /\ "take" \in Taken /\ worker.pc \notin Taken
    BY <1>4 DEF WorkerCounts, WorkerPcs, Taken
  <2>2. inFlight' = inFlight + One("take" \in Taken) - One(worker.pc \in Taken)
    BY <1>1, <2>1 DEF One
  <2> QED
    BY <1>1, <1>2, <2>1, <2>2, WorkerGoes
<1>5. CASE WorkerTakes
  <2>1. /\ worker.pc \in Taken /\ req' = [req EXCEPT !.pending = FALSE]
        /\ \/ Goes("copy") /\ inFlight' = inFlight
           \/ Goes("loop") /\ inFlight' = inFlight - 1
        /\ UNCHANGED <<status, th, mode, lock, book, snap, seq, training, left>>
        /\ "copy" \in WorkerPcs /\ "loop" \in WorkerPcs /\ "copy" \in Taken /\ "loop" \notin Taken
    BY <1>5 DEF WorkerTakes, WorkerPcs, Taken
  <2>2. req' \in [status : Statuses, pending : BOOLEAN, event : BOOLEAN]
    BY <1>1, <2>1
  <2>3. CASE Goes("copy") /\ inFlight' = inFlight
    <3>1. inFlight' = inFlight + One("copy" \in Taken) - One(worker.pc \in Taken)
      BY <1>1, <2>1, <2>3 DEF One
    <3> QED
      BY <1>1, <1>2, <2>1, <2>2, <2>3, <3>1, WorkerGoes
  <2>4. CASE Goes("loop") /\ inFlight' = inFlight - 1
    <3>1. inFlight' = inFlight + One("loop" \in Taken) - One(worker.pc \in Taken)
      BY <1>1, <2>1, <2>4 DEF One
    <3> QED
      BY <1>1, <1>2, <2>1, <2>2, <2>4, <3>1, WorkerGoes
  <2> QED
    BY <2>1, <2>3, <2>4
<1>6. CASE WorkerCopies
  <2>1. /\ worker.pc = "copy" /\ worker' = [worker EXCEPT !.pc = "walk", !.status = req.status]
        /\ UNCHANGED <<status, th, mode, lock, req, inFlight, book, snap, seq, training, left>>
        /\ "walk" \in WorkerPcs /\ "walk" \in Taken /\ worker.pc \in Taken
    BY <1>6 DEF WorkerCopies, WorkerPcs, Taken
  <2>2. worker' \in Workers /\ worker'.pc = "walk" /\ worker'.state = worker.state
    <3>1. req.status \in Statuses
      BY <1>1
    <3> QED
      BY <1>1, <2>1, <3>1 DEF Workers
  <2>3. inFlight' = inFlight + One("walk" \in Taken) - One(worker.pc \in Taken)
    BY <1>1, <2>1 DEF One
  <2> QED
    BY <1>1, <1>2, <2>1, <2>2, <2>3
<1>7. CASE WorkerWalks
  <2> DEFINE s == worker.status
             r == Remembered(s)
             d == Derived(s, r)
  <2>1. /\ worker.pc = "walk" /\ book' = r /\ seq' = seq + 1
        /\ worker' = [worker EXCEPT !.pc = "lock", !.began = seq + 1, !.status = NoStatus,
                                    !.state = d]
        /\ UNCHANGED <<status, th, mode, lock, req, inFlight, snap, training, left>>
        /\ "lock" \in WorkerPcs /\ "lock" \in Taken /\ worker.pc \in Taken
    BY <1>7 DEF WorkerWalks, WorkerPcs, Taken
  <2>2. s \in Statuses /\ seq + 1 \in Nat /\ seq + 1 >= seq
    BY <1>1 DEF Workers
  <2>3. r \in Books /\ r.phase = s.phase /\ (s.phase \in {"Failed", "SessionEnded"} => r.end # "None")
    BY <1>1, <2>2, RememberedIs
  <2> HIDE DEF r
  <2>4. d \in States /\ Ends(d)
    BY <2>2, <2>3, DerivedIs DEF Ends
  <2> HIDE DEF d
  <2>5. worker' \in Workers /\ worker'.pc = "lock" /\ worker'.state = d
    <3>1. NoStatus \in Statuses
      BY DEF NoStatus, Statuses, Phases
    <3>2. ASSUME NEW w,
                 w = [worker EXCEPT !.pc = "lock", !.began = seq + 1, !.status = NoStatus,
                                    !.state = d]
          PROVE  w \in Workers /\ w.pc = "lock" /\ w.state = d
      BY <1>1, <2>1, <2>2, <2>4, <3>1, <3>2 DEF Workers
    <3> QED
      BY <2>1, <3>2
  <2>6. inFlight' = inFlight + One(worker'.pc \in Taken) - One(worker.pc \in Taken)
    BY <1>1, <2>1, <2>5 DEF One
  <2>7. book'.phase \in {"Failed", "SessionEnded"} => book'.end # "None"
    BY <2>1, <2>3
  <2> QED
    BY <1>1, <2>1, <2>2, <2>3, <2>4, <2>5, <2>6, <2>7, WorkerStep
<1>8. CASE WorkerLocks
  <2>1. /\ worker.pc = "lock" /\ lock' = "worker" /\ Goes("publish")
        /\ UNCHANGED <<status, th, mode, req, inFlight, book, snap, seq, training, left>>
        /\ "publish" \in WorkerPcs /\ "publish" \in Taken /\ worker.pc \in Taken
        /\ "worker" \in Holders
    BY <1>8 DEF WorkerLocks, WorkerPcs, Taken, Holders
  <2>2. inFlight' = inFlight + One("publish" \in Taken) - One(worker.pc \in Taken)
    BY <1>1, <2>1 DEF One
  <2> QED
    BY <1>1, <1>2, <2>1, <2>2, WorkerGoes
<1>9. CASE WorkerUncounts
  <2> DEFINE pc == IF worker.stopping THEN "loop" ELSE "count"
  <2>1. /\ worker.pc \in Taken /\ inFlight' = inFlight - 1 /\ Goes(pc)
        /\ UNCHANGED <<status, th, mode, lock, req, book, snap, seq, training, left>>
        /\ pc \in WorkerPcs /\ pc \notin Taken
    BY <1>9 DEF WorkerUncounts, WorkerPcs, Taken
  <2> HIDE DEF pc
  <2>2. inFlight' = inFlight + One(pc \in Taken) - One(worker.pc \in Taken)
    BY <1>1, <2>1 DEF One
  <2> QED
    BY <1>1, <1>2, <2>1, <2>2, WorkerGoes
<1>10. CASE WorkerTimeout
  <2> DEFINE pc == IF worker.stopping THEN "stopped"
                   ELSE IF mode = "Suspended" THEN "beat" ELSE "loop"
  <2>1. /\ worker.pc = "wait"
        /\ worker' = [worker EXCEPT !.pc = pc, !.beats = FALSE, !.state = snap]
        /\ left.beats > 0 /\ left' = [left EXCEPT !.beats = left.beats - 1]
        /\ UNCHANGED <<status, th, mode, lock, req, inFlight, book, snap, seq, training>>
        /\ pc \in WorkerPcs /\ pc \notin Taken /\ worker.pc \notin Taken
    BY <1>10 DEF WorkerTimeout, WorkerPcs, Taken
  <2> HIDE DEF pc
  <2>2. worker' \in Workers /\ worker'.pc = pc /\ worker'.state = snap
    BY <1>1, <2>1 DEF Workers
  <2>3. left' \in [ops : 0 .. MaxOps, beats : 0 .. MaxBeats]
    <3>1. left.beats - 1 \in 0 .. MaxBeats
      BY <1>1, <2>1, ExportAssumption
    <3> QED
      BY <1>1, <2>1, <3>1
  <2>4. inFlight' = inFlight + One(worker'.pc \in Taken) - One(worker.pc \in Taken)
    BY <1>1, <2>1, <2>2 DEF One
  <2> QED
    BY <1>1, <2>1, <2>2, <2>3, <2>4, WorkerStep
<1>11. CASE PublishSuspendedHeartbeat \/ WorkerPublishes
  <2> DEFINE d == IF worker.pc = "beat" THEN snap ELSE worker.state
             pc == IF worker.pc = "beat" THEN "loop" ELSE "uncount"
  <2>1. /\ (worker.pc \in Taken) = (pc \in Taken) /\ pc \in WorkerPcs
        /\ \E n : Publish(d, n)
        /\ lock' = lock \/ lock' = "none"
        /\ UNCHANGED <<status, th, mode, req, inFlight, book, training, left>>
    BY <1>11 DEF PublishSuspendedHeartbeat, Beat, WorkerPublishes, WorkerPcs, Taken
  <2>2. worker' = [Idle EXCEPT !.pc = pc, !.stopping = worker.stopping]
    BY <1>11 DEF PublishSuspendedHeartbeat, WorkerPublishes, Idle
  <2>3. d \in States /\ Ends(d) /\ worker.stopping \in BOOLEAN
    BY <1>1 DEF Workers
  <2> HIDE DEF d, pc
  <2>4. worker' \in Workers /\ worker'.pc = pc /\ worker'.state = NoState
    BY <2>1, <2>2, <2>3, WorkerIdles
  <2>5. snap' \in States /\ seq' \in Nat /\ snap'.seq = seq' /\ Ends(snap')
    BY <1>1, <2>1, <2>3, Publishing DEF Ends
  <2>6. BaseTypes'
    BY <1>1, <2>1, <2>4, <2>5 DEF Base, BaseTypes, Holders
  <2>7. Counts'
    BY <2>1, <2>4 DEF Base, Counts
  <2>8. AllEnds'
    BY <2>1, <2>4, <2>5 DEF Base, AllEnds, Ends, NoState
  <2>9. (snap.seq <= seq)'
    BY <2>5
  <2> QED
    BY <2>6, <2>7, <2>8, <2>9 DEF Base
<1> QED
  BY <1>3, <1>4, <1>5, <1>6, <1>7, <1>8, <1>9, <1>10, <1>11 DEF Worker

(* Every step keeps what holds with companions too. *)
LEMMA BaseKeeps == ASSUME Base, [ExportNext]_exportVars PROVE Base'
<1>1. CASE Worker \/ WorkerTimeout \/ PublishSuspendedHeartbeat
  BY <1>1, WorkerBase
<1>2. ASSUME NEW t \in Clients, Client(t) PROVE Base'
  BY <1>2, QueueBase, SuspendBase, HandoffBase DEF Client
<1>3. CASE Tick \/ StartSession \/ GoOnline \/ SuspendUi \/ EnterNetplayMenu
  BY <1>3, OperationBase
<1>4. CASE BoundaryWalk \/ BoundaryPublish \/ Shutdown \/ Joined
  BY <1>4, BoundaryBase
<1>5. CASE UNCHANGED exportVars
  BY <1>5 DEF exportVars, Base, BaseTypes, Counts, AllEnds, Ends
<1> QED
  BY <1>1, <1>2, <1>3, <1>4, <1>5 DEF ExportNext

--------------------------------------------------------------------------------
(* Until a companion begins, its thread rests and the game's thread is the only  *)
(* one in the exporter.                                                          *)
Companionless == th["api"] = Resting /\ ExportInv
Exporting == Base /\ (alone => Companionless)

(* The exports start with nothing published and nothing under way. *)
LEMMA InitExport == ASSUME ExportInit PROVE Exporting
<1>1. th = [t \in {"game", "api"} |-> Resting] /\ Game = Resting /\ th["api"] = Resting
  BY DEF ExportInit, Clients, Game
<1>2. NoStatus \in Statuses /\ NoStatus.stamp = 0
  BY DEF NoStatus, Statuses, Phases
<1>3. book \in Books /\ book.phase = "Idle" /\ book.id = 0 /\ book.wins = 0
  BY DEF ExportInit, Books, Phases
<1>4. left \in [ops : 0 .. MaxOps, beats : 0 .. MaxBeats] /\ left.ops = MaxOps
  BY ExportAssumption DEF ExportInit
<1>5. /\ req \in [status : Statuses, pending : BOOLEAN, event : BOOLEAN]
      /\ ~req.pending /\ req.status = NoStatus
  BY <1>2 DEF ExportInit
<1>6. ExportTypes
  BY <1>1, <1>2, <1>3, <1>4, <1>5, RestingIsClerk, IdleIsWorker DEF ExportInit, ExportTypes
<1>7. ThreadsInv
  BY <1>1, <1>5, RestingIsClerk, IdleIsWorker, TodosDiffer DEF ExportInit, ThreadsInv,
     InFlightCounts, Locked, Place, InHandoff, Modes, QuietInv, Quiet, Drained, SimInv,
     Queueing, Suspending, Handing, Taken, One
<1>8. EndsInv
  BY <1>1, <1>3, RestingIsClerk, IdleIsWorker DEF ExportInit, EndsInv, Ends, Resting
<1>9. Stamps
  BY <1>1, <1>2, <1>5, RestingIsClerk, IdleIsWorker DEF ExportInit, Stamps, NoState
<1>10. Scores /\ snap.seq <= seq
  BY <1>1, <1>3, RestingIsClerk, IdleIsWorker DEF ExportInit, Scores, NoState
<1>11. Budget
  <2>1. ~Owing
    BY <1>1, RestingIsClerk, TodosDiffer DEF Owing
  <2> QED
    BY <1>2, <1>4, <2>1, ExportAssumption DEF ExportInit, Budget, One
<1>12. Base
  <2>1. BaseTypes
    BY <1>6 DEF ExportTypes, BaseTypes, Holders
  <2>2. Counts
    BY <1>1, RestingIsClerk, IdleIsWorker DEF ExportInit, Counts, One, Taken, Counting
  <2>3. AllEnds
    BY <1>1, <1>8 DEF EndsInv, AllEnds, Game
  <2> QED
    BY <1>10, <2>1, <2>2, <2>3 DEF Base
<1> QED
  BY <1>1, <1>6, <1>7, <1>8, <1>9, <1>10, <1>11, <1>12
  DEF Exporting, Companionless, ExportInv, DataInv

(* A thread that rests takes no step of its own but to begin. *)
LEMMA RestingRests == \A t \in Clients : th[t] = Resting => ~Client(t)
<1>1. SUFFICES ASSUME NEW t \in Clients, th[t] = Resting PROVE ~Client(t)
  OBVIOUS
<1>2. th[t].pc = "next" /\ th[t].todo = <<>>
  BY <1>1, RestingIsClerk
<1>3. \A i \in DOMAIN Looks : Looks[i] # "next"
  BY LooksAre
<1> QED
  BY <1>2, <1>3 DEF Client, QueueCheck, QueueCount, QueueAgain, QueueTry, QueueStore, QueueLeave,
     QueueSignal, SuspendSet, SuspendCross, SuspendLook, Look, SuspendDone, SuspendTimeout,
     TrainingBegin, TrainingWork, TrainingPublish, TrainingEnd, Takes

(* A companion that has begun is not forgotten. *)
LEMMA AloneBefore == ASSUME [ExportNext]_exportVars, alone' PROVE alone
<1>1. CASE Worker \/ WorkerTimeout \/ PublishSuspendedHeartbeat
  BY <1>1 DEF Worker, WorkerWaits, WorkerWakes, WorkerCounts, WorkerTakes, WorkerCopies,
     WorkerWalks, WorkerLocks, WorkerPublishes, WorkerUncounts, WorkerTimeout,
     PublishSuspendedHeartbeat
<1>2. ASSUME NEW t \in Clients, Client(t) PROVE alone
  BY <1>2 DEF Client, QueueCheck, QueueCount, QueueAgain, QueueTry, QueueStore, QueueLeave,
     QueueSignal, SuspendSet, SuspendCross, SuspendLook, Look, SuspendDone, SuspendTimeout,
     TrainingBegin, TrainingWork, TrainingPublish, TrainingEnd
<1>3. CASE Tick \/ StartSession \/ GoOnline
  BY <1>3 DEF Tick, StartSession, GoOnline, Begin
<1>4. CASE SuspendUi \/ EnterNetplayMenu \/ BoundaryWalk \/ BoundaryPublish \/ Shutdown \/ Joined
  BY <1>4 DEF SuspendUi, EnterNetplayMenu, BoundaryWalk, BoundaryPublish, Shutdown, Joined
<1>5. CASE UNCHANGED exportVars
  BY <1>5 DEF exportVars
<1> QED
  BY <1>1, <1>2, <1>3, <1>4, <1>5 DEF ExportNext

(* Until a companion begins, every step leaves its thread alone. *)
LEMMA CompanionRests ==
  ASSUME Base, th["api"] = Resting, [ExportNext]_exportVars, alone'
  PROVE  th'["api"] = Resting
<1>1. th \in [{"game", "api"} -> Clerks] /\ ~Client("api")
  BY RestingRests DEF Base, BaseTypes, Clients
<1>2. ASSUME NEW c, th' = [th EXCEPT !["game"] = c] PROVE th'["api"] = Resting
  BY <1>1, <1>2
<1>3. CASE Worker \/ WorkerTimeout \/ PublishSuspendedHeartbeat
  BY <1>3 DEF Worker, WorkerWaits, WorkerWakes, WorkerCounts, WorkerTakes, WorkerCopies,
     WorkerWalks, WorkerLocks, WorkerPublishes, WorkerUncounts, WorkerTimeout,
     PublishSuspendedHeartbeat
<1>4. CASE \E t \in Clients : Client(t)
  <2>1. Client("game")
    BY <1>1, <1>4 DEF Clients
  <2>2. \E c : th' = [th EXCEPT !["game"] = c]
    BY <2>1 DEF Client, QueueCheck, QueueCount, QueueAgain, QueueTry, QueueStore, QueueLeave,
       QueueSignal, SuspendSet, SuspendCross, SuspendLook, Look, SuspendDone, SuspendTimeout,
       TrainingBegin, TrainingWork, TrainingPublish, TrainingEnd, At, Enter, Done, Abandon
  <2> QED
    BY <1>2, <2>2
<1>5. CASE Tick \/ StartSession \/ GoOnline
  <2>1. PICK t, q : t \in Clients /\ Begin(t, q)
    BY <1>5 DEF Tick, StartSession, GoOnline, Clients
  <2>2. t = "game" /\ th' = [th EXCEPT !["game"].todo = q]
    BY <2>1 DEF Begin
  <2> QED
    BY <1>2, <2>2
<1>6. CASE SuspendUi \/ EnterNetplayMenu \/ BoundaryWalk \/ BoundaryPublish \/ Shutdown \/ Joined
  <2>1. th' = th \/ \E c : th' = [th EXCEPT !["game"] = c]
    BY <1>6 DEF SuspendUi, EnterNetplayMenu, BoundaryWalk, BoundaryPublish, Shutdown, Joined, At,
       Enter
  <2> QED
    BY <1>2, <2>1
<1>7. CASE UNCHANGED exportVars
  BY <1>7 DEF exportVars
<1> QED
  BY <1>3, <1>4, <1>5, <1>6, <1>7 DEF ExportNext

(* Every step keeps the invariant of the game's thread alone. *)
LEMMA ExportKeeps ==
  ASSUME Base, Companionless, [ExportNext]_exportVars, alone'
  PROVE  Companionless'
<1> USE DEF Companionless
<1>1. th'["api"] = Resting
  BY CompanionRests
<1>2. CASE Worker \/ WorkerTimeout \/ PublishSuspendedHeartbeat
  BY <1>1, <1>2, WorkerTurnKeeps, WorkerUpdateKeeps, BeatKeeps DEF Worker
<1>3. CASE \E t \in Clients : Client(t)
  <2>1. Client("game")
    BY <1>3, RestingRests DEF Clients
  <2> QED
    BY <1>1, <2>1, QueueKeeps, SuspendKeeps, TrainingKeeps DEF Client, SuspendLook
<1>4. CASE Tick \/ StartSession \/ GoOnline \/ SuspendUi \/ EnterNetplayMenu
  BY <1>1, <1>4, OperationKeeps
<1>5. CASE BoundaryWalk \/ BoundaryPublish \/ Shutdown \/ Joined
  BY <1>1, <1>5, BoundaryKeeps, ShutdownKeeps
<1>6. CASE UNCHANGED exportVars
  BY <1>1, <1>6 DEF exportVars, ExportInv, ExportTypes, DataInv, EndsInv, Ends, Scores, Latest,
     Stamps, Newer, Budget, Owing, Game, ThreadsInv, InFlightCounts, Locked, Place, InHandoff,
     Modes, QuietInv, Quiet, Drained, SimInv, Queueing, Suspending, Handing, Taken, One
<1> QED
  BY <1>2, <1>3, <1>4, <1>5, <1>6 DEF ExportNext

(* The invariant contains what the run checks. *)
LEMMA ExportIsSafe == ASSUME Exporting PROVE ExportSafe
<1>1. ExportTypeOK
  <2>1. inFlight \in 0 .. 3
    BY DEF Exporting, Base, Counts, One
  <2>2. status.stamp \in Nat
    BY DEF Exporting, Base, BaseTypes, Statuses
  <2> QED
    BY <2>1, <2>2 DEF ExportTypeOK, Exporting, Base, BaseTypes, Holders, Clients
<1>2. EndIsReported
  BY DEF Exporting, Base, AllEnds, Ends, EndIsReported
<1>3. QuietSimulation /\ ExportsStayOff
  <2>1. ASSUME alone, sim PROVE mode = "Suspended" /\ worker.pc \notin {"copy", "walk"}
    <3> USE <2>1 DEF Exporting, Companionless, ExportInv
    <3>1. /\ mode = "Suspended" /\ (InHandoff => Game.kept)
          /\ Game.todo \in {<<>>, Update, Training, TrainingUpdate}
      BY DEF ThreadsInv, SimInv
    <3>2. Game.pc \notin Queueing
      BY <3>1 DEF ThreadsInv, Modes
    <3>3. Game.pc \notin Suspending \/ Game.handoff
      BY <3>1, TodosDiffer DEF ThreadsInv, Place
    <3>4. Game.pc \in GamePcs
      BY DEF ExportTypes, Clerks, Game
    <3>5. Drained
      BY <3>1, <3>2, <3>3, <3>4 DEF Drained, GamePcs, InHandoff
    <3> QED
      BY <3>1, <3>5 DEF ThreadsInv, QuietInv, Quiet
  <2> QED
    BY <2>1 DEF QuietSimulation, ExportsStayOff
<1> QED
  BY <1>1, <1>2, <1>3 DEF ExportSafe

(* The invariant holds throughout. *)
LEMMA ExportInductive == ExportSpec => []Exporting
<1>1. ExportInit => Exporting
  BY InitExport
<1>2. Exporting /\ [ExportNext]_exportVars => Exporting'
  BY BaseKeeps, ExportKeeps, AloneBefore DEF Exporting
<1> QED
  BY <1>1, <1>2, PTL DEF ExportSpec

(* Whoever starts sessions, on whatever thread, an end is published with its     *)
(* reason; and until a companion does, the exports keep quiet beside a running   *)
(* simulation, which keeps them suspended.                                       *)
THEOREM ExportSafety == ExportSpec => []ExportSafe
<1>1. Exporting => ExportSafe
  BY ExportIsSafe
<1> QED
  BY <1>1, ExportInductive, PTL

(* What a step may publish, whoever makes it: a state with a higher number. *)
LEMMA NumbersAdvance ==
  ASSUME Base, [ExportNext]_exportVars
  PROVE  \/ snap' = snap
         \/ snap' = [snap EXCEPT !.by = "none"]
         \/ snap'.seq > snap.seq
<1>1. snap \in States /\ seq \in Nat /\ snap.seq <= seq /\ snap.seq \in Nat
  BY DEF Base, BaseTypes, States
<1>2. ASSUME NEW d \in States, NEW n, Publish(d, n) PROVE snap'.seq > snap.seq
  <2>1. snap'.seq = seq' /\ seq' = seq + 1
    BY <1>1, <1>2, Publishing
  <2> QED
    BY <1>1, <2>1
<1>3. CASE WorkerPublishes
  <2>1. worker.state \in States /\ Publish(worker.state, worker.began)
    BY <1>3 DEF WorkerPublishes, Base, BaseTypes, Workers
  <2> QED
    BY <1>2, <2>1
<1>4. CASE BoundaryPublish
  <2>1. th["game"].state \in States /\ Publish(th["game"].state, th["game"].began)
    BY <1>4 DEF BoundaryPublish, Base, BaseTypes, Clerks
  <2> QED
    BY <1>2, <2>1
<1>5. CASE PublishSuspendedHeartbeat
  BY <1>1, <1>2, <1>5 DEF PublishSuspendedHeartbeat, Beat
<1>6. ASSUME NEW t \in Clients, TrainingPublish(t) PROVE snap'.seq > snap.seq
  <2> DEFINE d == [snap EXCEPT !.stamp = status.stamp, !.phase = status.phase, !.end = "None",
                               !.by = "handoff"]
  <2>1. status.stamp \in Nat /\ status.phase \in Phases
    BY DEF Base, BaseTypes, Statuses
  <2>2. d \in States
    BY <1>1, <2>1 DEF States
  <2>3. Publish(d, seq)
    BY <1>6 DEF TrainingPublish
  <2> HIDE DEF d
  <2> QED
    BY <1>2, <2>2, <2>3
<1>7. CASE Joined
  BY <1>7 DEF Joined
<1>8. CASE /\ ~WorkerPublishes /\ ~BoundaryPublish /\ ~PublishSuspendedHeartbeat
           /\ ~(\E t \in Clients : TrainingPublish(t)) /\ ~Joined
  <2>1. CASE Worker \/ WorkerTimeout
    BY <1>8, <2>1 DEF Worker, WorkerWaits, WorkerWakes, WorkerCounts, WorkerTakes,
       WorkerCopies, WorkerWalks, WorkerLocks, WorkerUncounts, WorkerTimeout
  <2>2. ASSUME NEW t \in Clients, Client(t) PROVE snap' = snap
    BY <1>8, <2>2 DEF Client, QueueCheck, QueueCount, QueueAgain, QueueTry, QueueStore,
       QueueLeave, QueueSignal, SuspendSet, SuspendCross, SuspendLook, Look, SuspendDone,
       SuspendTimeout, TrainingBegin, TrainingWork, TrainingEnd
  <2>3. CASE Tick \/ StartSession \/ GoOnline \/ SuspendUi \/ EnterNetplayMenu
    BY <2>3 DEF Tick, StartSession, GoOnline, SuspendUi, EnterNetplayMenu, Begin
  <2>4. CASE BoundaryWalk \/ Shutdown
    BY <2>4 DEF BoundaryWalk, Shutdown
  <2>5. CASE UNCHANGED exportVars
    BY <2>5 DEF exportVars
  <2> QED
    BY <1>8, <2>1, <2>2, <2>3, <2>4, <2>5 DEF ExportNext
<1> QED
  BY <1>3, <1>4, <1>5, <1>6, <1>7, <1>8

(* And what it may publish until a companion begins: a state that is no older   *)
(* than the last, and no lower score of the same session.                      *)
LEMMA PublicationStep ==
  ASSUME th["api"] = Resting, ExportInv, [ExportNext]_exportVars
  PROVE  \/ snap' = snap
         \/ snap' = [snap EXCEPT !.by = "none"]
         \/ /\ snap'.seq > snap.seq /\ snap'.stamp >= snap.stamp
            /\ snap'.id = snap.id => snap'.wins >= snap.wins
<1> USE DEF ExportInv
<1>1. th["game"] = Game /\ \A t \in Clients : Client(t) => t = "game"
  BY RestingRests DEF Clients, Game
<1>2. snap \in States /\ seq \in Nat /\ snap.seq <= seq /\ snap.seq \in Nat
  BY DEF ExportTypes, DataInv, States
<1>3. ASSUME NEW d \in States, NEW n, Publish(d, n), d.stamp >= snap.stamp,
             d.id = snap.id => d.wins >= snap.wins
      PROVE  /\ snap'.seq > snap.seq /\ snap'.stamp >= snap.stamp
             /\ snap'.id = snap.id => snap'.wins >= snap.wins
  <2>1. /\ seq' = seq + 1 /\ snap'.seq = seq' /\ snap'.stamp = d.stamp /\ snap'.id = d.id
        /\ snap'.wins = d.wins
    BY <1>2, <1>3, Publishing
  <2> QED
    BY <1>2, <1>3, <2>1
<1>4. snap.stamp \in Nat /\ snap.wins \in Nat /\ snap.id \in Nat /\ book.wins \in Nat
  BY <1>2 DEF ExportTypes, States, Books
<1>5. CASE WorkerPublishes
  <2>1. worker.state \in States /\ Publish(worker.state, worker.began)
    BY <1>5 DEF WorkerPublishes, ExportTypes, Workers
  <2>2. worker.pc = "publish"
    BY <1>5 DEF WorkerPublishes
  <2>3. /\ worker.state.stamp >= snap.stamp
        /\ worker.state.id = snap.id => worker.state.wins >= snap.wins
    BY <1>4, <2>2, StampTypes DEF DataInv, Stamps, Newer, Scores, Latest
  <2> QED
    BY <1>3, <2>1, <2>3
<1>6. CASE BoundaryPublish
  <2>1. Game.state \in States /\ Publish(Game.state, Game.began) /\ Game.pc = "walked"
    BY <1>1, <1>6 DEF BoundaryPublish, ExportTypes, Clerks, Game
  <2>2. /\ Game.state.stamp >= snap.stamp
        /\ Game.state.id = snap.id => Game.state.wins >= snap.wins
    <3>1. Game.state.stamp \in Nat
      BY <2>1 DEF States
    <3> QED
      BY <1>4, <2>1, <3>1 DEF DataInv, Stamps, Newer, Scores, Latest
  <2> QED
    BY <1>3, <2>1, <2>2
<1>7. CASE PublishSuspendedHeartbeat
  BY <1>2, <1>3, <1>4, <1>7 DEF PublishSuspendedHeartbeat, Beat
<1>8. CASE TrainingPublish("game")
  <2> DEFINE d == [snap EXCEPT !.stamp = status.stamp, !.phase = status.phase, !.end = "None",
                               !.by = "handoff"]
  <2>1. status.stamp \in Nat /\ status.phase \in Phases /\ status.stamp >= snap.stamp
    BY <1>4 DEF ExportTypes, Statuses, DataInv, Stamps
  <2>2. d \in States /\ d.stamp = status.stamp /\ d.id = snap.id /\ d.wins = snap.wins
    BY <1>2, <2>1 DEF States
  <2>3. Publish(d, seq)
    BY <1>8 DEF TrainingPublish
  <2> HIDE DEF d
  <2> QED
    BY <1>3, <1>4, <2>1, <2>2, <2>3
<1>9. CASE Joined
  BY <1>9 DEF Joined
<1>10. CASE /\ ~WorkerPublishes /\ ~BoundaryPublish /\ ~PublishSuspendedHeartbeat
            /\ ~TrainingPublish("game") /\ ~Joined
  <2>1. CASE Worker \/ WorkerTimeout
    BY <1>10, <2>1 DEF Worker, WorkerWaits, WorkerWakes, WorkerCounts, WorkerTakes,
       WorkerCopies, WorkerWalks, WorkerLocks, WorkerUncounts, WorkerTimeout
  <2>2. CASE Client("game")
    BY <1>10, <2>2 DEF Client, QueueCheck, QueueCount, QueueAgain, QueueTry, QueueStore,
       QueueLeave, QueueSignal, SuspendSet, SuspendCross, SuspendLook, Look, SuspendDone,
       SuspendTimeout, TrainingBegin, TrainingWork, TrainingEnd
  <2>4. CASE Tick \/ StartSession \/ GoOnline \/ SuspendUi \/ EnterNetplayMenu
    BY <2>4 DEF Tick, StartSession, GoOnline, SuspendUi, EnterNetplayMenu, Begin
  <2>5. CASE BoundaryWalk \/ Shutdown
    BY <2>5 DEF BoundaryWalk, Shutdown
  <2>6. CASE UNCHANGED exportVars
    BY <2>6 DEF exportVars
  <2> QED
    BY <1>1, <1>10, <2>1, <2>2, <2>4, <2>5, <2>6 DEF ExportNext
<1> QED
  BY <1>5, <1>6, <1>7, <1>8, <1>9, <1>10

(* Nothing that is published goes back.  Whoever starts sessions, a publication  *)
(* has a higher number, unless everything is withdrawn; and until a companion     *)
(* does, its status is no older, and the score of a session never falls.          *)
THEOREM NothingPublishedGoesBack ==
  ExportSpec => SeqAdvances /\ NothingOlder /\ ScoreHolds
<1>1. ASSUME Exporting, [ExportNext]_exportVars
      PROVE  /\ [snap' # snap => snap'.seq > snap.seq \/ snap'.by = "none"]_exportVars
             /\ [alone' => snap'.stamp >= snap.stamp]_exportVars
             /\ [alone' /\ snap'.id = snap.id => snap'.wins >= snap.wins]_exportVars
  <2>1. snap \in States /\ snap.stamp \in Nat /\ snap.wins \in Nat
    BY <1>1 DEF Exporting, Base, BaseTypes, States
  <2>2. snap' # snap => snap'.seq > snap.seq \/ snap'.by = "none"
    <3>1. [snap EXCEPT !.by = "none"].by = "none"
      BY <2>1 DEF States
    <3> QED
      BY <1>1, <3>1, NumbersAdvance DEF Exporting
  <2>3. ASSUME alone'
        PROVE  snap'.stamp >= snap.stamp /\ (snap'.id = snap.id => snap'.wins >= snap.wins)
    <3>1. alone
      BY <1>1, <2>3, AloneBefore
    <3>2. Companionless
      BY <1>1, <3>1 DEF Exporting
    <3>3. CASE snap' = snap
      BY <2>1, <3>3
    <3>4. CASE snap' = [snap EXCEPT !.by = "none"]
      <4>1. snap'.stamp = snap.stamp /\ snap'.wins = snap.wins
        BY <2>1, <3>4 DEF States
      <4> QED
        BY <2>1, <4>1
    <3> QED
      BY <1>1, <3>2, <3>3, <3>4, PublicationStep DEF Companionless
  <2> QED
    BY <2>2, <2>3
<1> QED
  BY <1>1, ExportInductive, PTL DEF ExportSpec, SeqAdvances, NothingOlder, ScoreHolds

--------------------------------------------------------------------------------
(* Logger *)

(* The sequences are ascending. *)
Ascending(s) == \A i, j \in 1 .. Len(s) : i < j => s[i] < s[j]
Writers == {"writer", "flush"}
Entries == [line : Nat, by : Writers]
Files == [lines : Seq(Entries), open : BOOLEAN, primed : BOOLEAN, enabled : BOOLEAN]
LogTypes ==
  /\ queue \in Seq(Nat) /\ Len(queue) <= MaxQueuedLines /\ logged \in 0 .. MaxLines
  /\ holder \in {"free", "writer"} /\ (holder = "writer" <=> writer.at = "falling")
  /\ writer \in [at : {"test", "falling", "asleep", "write", "stop?", "drain", "last", "ended"},
                 batch : Seq(Nat)]
  /\ flush \in Seq(Nat) /\ file \in Files
  /\ stop \in [at : {"no", "join", "closed"}, last : Nat]
  /\ crash \in [Crashers -> {"runs", "report", "dumped", "take", "flush", "over"}]
  /\ crashMutex \in Crashers \cup {"free"}
  /\ latch \in BOOLEAN /\ reports \in Nat

(* Every line is in one of six places. *)
Places ==
  Items(queue) \cup Items(writer.batch) \cup Items(flush) \cup Written \cup dropped \cup unlogged
AllPlaced == Places = 1 .. logged
Apart ==
  /\ Items(queue) \cap (Items(writer.batch) \cup Items(flush) \cup Written \cup dropped
                         \cup unlogged) = {}
  /\ Items(writer.batch) \cap (Items(flush) \cup Written \cup dropped \cup unlogged) = {}
  /\ Items(flush) \cap (Written \cup dropped \cup unlogged) = {}
  /\ Written \cap (dropped \cup unlogged) = {} /\ dropped \cap unlogged = {}
(* No line is written twice, and each writer writes in order. *)
Once(lines) == \A i, j \in 1 .. Len(lines) : i # j => lines[i].line # lines[j].line
Kept(lines) ==
  \A i, j \in 1 .. Len(lines) :
    i < j /\ lines[i].line > lines[j].line => lines[i].by # lines[j].by
FileInOrder == Once(file.lines) /\ Kept(file.lines)

(* What is written, or waits, before what. *)
HandsInOrder ==
  /\ Ascending(queue) /\ Ascending(writer.batch) /\ Ascending(flush)
  /\ \A x \in Items(writer.batch) \cup Items(flush), y \in Items(queue) : x < y
WrittenInOrder ==
  \A e \in Items(file.lines) :
    /\ e.by = "writer" => \A y \in Items(writer.batch) \cup Items(queue) : e.line < y
    /\ e.by = "flush" => \A y \in Items(flush) \cup Items(queue) : e.line < y
FirstOpening ==
  /\ file.open => file.primed
  /\ ~file.primed => Written = {}
OneReporter ==
  /\ \A t \in Crashers : crash[t] \in {"dumped", "take", "flush"} <=> crashMutex = t
  /\ (\A t \in Crashers : crash[t] # "flush") => flush = <<>>
Armed == (~latch => reports = 0) /\ OneReport
WriterEnds ==
  /\ writer.at \notin {"write", "last"} => writer.batch = <<>>
  /\ writer.at \in {"drain", "last", "ended"} => stop.at # "no"
  /\ writer.at \in {"last", "ended"} => \A y \in Items(queue) : y > stop.last
  /\ stop.at = "closed" => writer.at = "ended"
  /\ stop.last <= logged
(* What is said of the lines. *)
LinesInv ==
  /\ AllPlaced /\ Apart /\ FileInOrder /\ HandsInOrder /\ WrittenInOrder /\ FirstOpening
(* The inductive invariant. *)
LogInv == LogTypes /\ LinesInv /\ OneReporter /\ Armed /\ WriterEnds

--------------------------------------------------------------------------------
(* Sequences. *)

(* Nothing is in the empty sequence. *)
LEMMA NoItems == Items(<<>>) = {} /\ Ascending(<<>>) /\ <<>> \in Seq(Nat) /\ Len(<<>>) = 0
BY DEF Items, Ascending

(* A line put at the end. *)
LEMMA AppendItems ==
  ASSUME NEW q \in Seq(Nat), NEW n \in Nat, Ascending(q), \A x \in Items(q) : x < n
  PROVE  /\ Append(q, n) \in Seq(Nat) /\ Len(Append(q, n)) = Len(q) + 1
         /\ Items(Append(q, n)) = Items(q) \cup {n}
         /\ Ascending(Append(q, n))
<1> DEFINE s == Append(q, n)
<1>1. /\ s \in Seq(Nat) /\ Len(s) = Len(q) + 1 /\ Len(q) \in Nat
      /\ \A i \in 1 .. Len(q) : s[i] = q[i]
      /\ s[Len(q) + 1] = n
  OBVIOUS
<1> HIDE DEF s
<1>2. Items(s) = Items(q) \cup {n}
  BY <1>1 DEF Items
<1>3. \A i \in 1 .. Len(q) : q[i] \in Nat /\ q[i] < n
  BY DEF Items
<1>4. ASSUME NEW i \in 1 .. Len(s), NEW j \in 1 .. Len(s), i < j PROVE s[i] < s[j]
  <2>1. i \in 1 .. Len(q) /\ s[i] = q[i]
    BY <1>1, <1>4
  <2>2. CASE j \in 1 .. Len(q)
    BY <2>1, <2>2, <1>1, <1>4 DEF Ascending
  <2>3. CASE j = Len(q) + 1
    BY <2>1, <2>3, <1>1, <1>3
  <2> QED
    BY <2>2, <2>3, <1>1
<1> QED
  BY <1>1, <1>2, <1>4 DEF s, Ascending

(* The first line taken away. *)
LEMMA TailItems ==
  ASSUME NEW q \in Seq(Nat), Ascending(q), q # <<>>
  PROVE  /\ Tail(q) \in Seq(Nat) /\ Len(Tail(q)) = Len(q) - 1
         /\ Ascending(Tail(q))
         /\ Items(q) = Items(Tail(q)) \cup {Head(q)} /\ Head(q) \notin Items(Tail(q))
         /\ Head(q) \in Nat
<1> DEFINE s == Tail(q)
<1>1. /\ s \in Seq(Nat) /\ Len(s) = Len(q) - 1 /\ Len(q) \in Nat \ {0}
      /\ \A i \in 1 .. Len(s) : s[i] = q[i + 1]
      /\ Head(q) = q[1] /\ q[1] \in Nat
  OBVIOUS
<1>2. \A i \in 1 .. Len(q) : q[i] \in Nat
  OBVIOUS
<1> HIDE DEF s
<1>3. ASSUME NEW i \in 1 .. Len(s), NEW j \in 1 .. Len(s), i < j PROVE s[i] < s[j]
  <2>1. i + 1 \in 1 .. Len(q) /\ j + 1 \in 1 .. Len(q) /\ i + 1 < j + 1
    BY <1>1, <1>3
  <2>2. s[i] = q[i + 1] /\ s[j] = q[j + 1]
    BY <1>1
  <2> QED
    BY <2>1, <2>2 DEF Ascending
<1>4. Items(q) = Items(s) \cup {q[1]}
  <2>1. ASSUME NEW i \in 1 .. Len(q) PROVE q[i] \in Items(s) \cup {q[1]}
    <3>1. CASE i = 1
      BY <3>1
    <3>2. CASE i # 1
      <4>1. i - 1 \in 1 .. Len(s) /\ s[i - 1] = q[i]
        BY <3>2, <1>1
      <4> QED
        BY <4>1 DEF Items
    <3> QED
      BY <3>1, <3>2
  <2> QED
    BY <1>1, <2>1 DEF Items
<1>5. ASSUME NEW i \in 1 .. Len(s) PROVE s[i] # q[1]
  <2>1. i + 1 \in 1 .. Len(q) /\ 1 \in 1 .. Len(q) /\ 1 < i + 1
    BY <1>1
  <2>2. q[1] < q[i + 1] /\ q[1] \in Nat /\ q[i + 1] \in Nat
    BY <2>1, <1>2 DEF Ascending
  <2> QED
    BY <2>2, <1>1
<1>6. q[1] \notin Items(s)
  BY <1>5 DEF Items
<1> QED
  BY <1>1, <1>3, <1>4, <1>6 DEF s, Ascending

(* A batch written behind what the file holds. *)
Behind(f, b, by) == f \o [i \in 1 .. Len(b) |-> [line |-> b[i], by |-> by]]
LEMMA Concatenated ==
  ASSUME NEW f \in Seq(Entries), NEW b \in Seq(Nat), NEW by \in Writers
  PROVE  /\ Behind(f, b, by) \in Seq(Entries) /\ Len(Behind(f, b, by)) = Len(f) + Len(b)
         /\ \A i \in 1 .. Len(f) : Behind(f, b, by)[i] = f[i]
         /\ \A i \in 1 .. Len(b) : /\ Behind(f, b, by)[Len(f) + i].line = b[i]
                                   /\ Behind(f, b, by)[Len(f) + i].by = by
<1> DEFINE e == [i \in 1 .. Len(b) |-> [line |-> b[i], by |-> by]]
           g == Behind(f, b, by)
<1>1. \A i \in 1 .. Len(b) : e[i] \in Entries /\ e[i].line = b[i] /\ e[i].by = by
  BY DEF Entries
<1>2. Len(b) \in Nat
  OBVIOUS
<1>3. e \in Seq(Entries) /\ Len(e) = Len(b)
  BY <1>1, <1>2
<1>4. g = f \o e
  BY DEF Behind
<1> HIDE DEF e, g
<1>5. /\ f \o e \in Seq(Entries) /\ Len(f \o e) = Len(f) + Len(e)
      /\ \A i \in 1 .. Len(f) : (f \o e)[i] = f[i]
      /\ \A i \in 1 .. Len(e) : (f \o e)[Len(f) + i] = e[i]
  BY <1>3
<1>6. /\ g \in Seq(Entries) /\ Len(g) = Len(f) + Len(b)
      /\ \A i \in 1 .. Len(f) : g[i] = f[i]
      /\ \A i \in 1 .. Len(b) : g[Len(f) + i].line = b[i] /\ g[Len(f) + i].by = by
  BY <1>1, <1>3, <1>4, <1>5
<1> QED
  BY <1>6 DEF g

(* What WriteBatchLocked does with a batch that is in order and in no other *)
(* place.                                                                   *)
LEMMA BatchWritten ==
  ASSUME file \in Files, NEW b \in Seq(Nat), NEW by \in Writers, WriteBatchLocked(b, by),
         FileInOrder, Ascending(b), 0 \notin Items(b),
         Items(b) \cap (Written \cup unlogged) = {}, Written \cap unlogged = {},
         \A e \in Items(file.lines) : e.by = by => \A y \in Items(b) : e.line < y
  PROVE  /\ file' \in Files /\ file'.open = file.open /\ file'.primed = file.primed
         /\ ~file.open => file' = file
         /\ (Written \cup unlogged)' = Written \cup unlogged \cup Items(b)
         /\ (Written \cap unlogged)' = {}
         /\ FileInOrder'
         /\ \A e \in Items(file'.lines) :
              e \in Items(file.lines) \/ (e.by = by /\ e.line \in Items(b))
<1>1. CASE ~file.open
  <2>1. file' = file /\ unlogged' = unlogged \cup Items(b)
    BY <1>1 DEF WriteBatchLocked
  <2> QED
    BY <2>1, <1>1 DEF Written, FileInOrder
<1>2. CASE file.open
  <2> DEFINE f == file.lines
             g == Behind(f, b, by)
  <2>1. file' = [file EXCEPT !.lines = g] /\ unlogged' = unlogged
    BY <1>2 DEF WriteBatchLocked, Behind
  <2>2. f \in Seq(Entries)
    BY DEF Files
  <2>3. /\ g \in Seq(Entries) /\ Len(g) = Len(f) + Len(b)
        /\ \A i \in 1 .. Len(f) : g[i] = f[i]
        /\ \A i \in 1 .. Len(b) : g[Len(f) + i].line = b[i] /\ g[Len(f) + i].by = by
    BY <2>2, Concatenated
  <2>4. Len(f) \in Nat /\ Len(b) \in Nat /\ \A i \in 1 .. Len(b) : b[i] \in Nat
    BY <2>2
  <2>5. \A i \in 1 .. Len(f) : f[i].line \in Nat
    <3> SUFFICES ASSUME NEW i \in 1 .. Len(f) PROVE f[i].line \in Nat
      OBVIOUS
    <3>1. f[i] \in Entries
      BY <2>2
    <3> QED
      BY <3>1 DEF Entries
  <2> HIDE DEF f, g
  <2>6. file' \in Files /\ file'.lines = g /\ file'.open = file.open /\ file'.primed = file.primed
    BY <2>1, <2>3 DEF Files
  <2>7. ASSUME NEW i \in 1 .. Len(g)
        PROVE  \/ i \in 1 .. Len(f) /\ g[i] = f[i]
               \/ \E k \in 1 .. Len(b) : i = Len(f) + k /\ g[i].line = b[k] /\ g[i].by = by
    <3>1. CASE i <= Len(f)
      BY <3>1, <2>3, <2>4
    <3>2. CASE i > Len(f)
      <4>1. i - Len(f) \in 1 .. Len(b) /\ i = Len(f) + (i - Len(f))
        BY <3>2, <2>3, <2>4
      <4> QED
        BY <4>1, <2>3
    <3> QED
      BY <3>1, <3>2, <2>4
  <2>8. \A i \in 1 .. Len(f) : i \in 1 .. Len(g) /\ g[i] = f[i]
    BY <2>3, <2>4
  <2>9. \A k \in 1 .. Len(b) : Len(f) + k \in 1 .. Len(g) /\ g[Len(f) + k].line = b[k]
    BY <2>3, <2>4
  <2>10. \A e \in Items(g) : e \in Items(f) \/ (e.by = by /\ e.line \in Items(b))
    BY <2>7 DEF Items
  <2>11. Written' = Written \cup Items(b)
    <3>1. Written = {f[i].line : i \in 1 .. Len(f)} \ {0}
      BY DEF Written, f
    <3>2. Written' = {g[i].line : i \in 1 .. Len(g)} \ {0}
      BY <2>6 DEF Written
    <3>3. {g[i].line : i \in 1 .. Len(g)} = {f[i].line : i \in 1 .. Len(f)} \cup Items(b)
      <4>1. ASSUME NEW i \in 1 .. Len(g)
            PROVE  g[i].line \in {f[k].line : k \in 1 .. Len(f)} \cup Items(b)
        BY <2>7 DEF Items
      <4>2. ASSUME NEW i \in 1 .. Len(f) PROVE f[i].line \in {g[k].line : k \in 1 .. Len(g)}
        BY <2>8
      <4>3. ASSUME NEW i \in 1 .. Len(b) PROVE b[i] \in {g[k].line : k \in 1 .. Len(g)}
        BY <2>9
      <4> QED
        BY <4>1, <4>2, <4>3 DEF Items
    <3> QED
      BY <3>1, <3>2, <3>3
  <2>12. \A i \in 1 .. Len(f), k \in 1 .. Len(b) : f[i].line # b[k]
    <3> SUFFICES ASSUME NEW i \in 1 .. Len(f), NEW k \in 1 .. Len(b) PROVE f[i].line # b[k]
      OBVIOUS
    <3>1. b[k] \in Items(b) /\ b[k] # 0
      BY DEF Items
    <3>2. f[i].line \in Written \cup {0}
      BY DEF Written, f
    <3> QED
      BY <3>1, <3>2
  <2>13. \A i \in 1 .. Len(f), k \in 1 .. Len(b) : f[i].by = by => f[i].line < b[k]
    BY DEF Items, f
  <2>14. Once(f) /\ Kept(f)
    BY DEF FileInOrder, f
  <2>15. Once(g)
    <3> SUFFICES ASSUME NEW i \in 1 .. Len(g), NEW j \in 1 .. Len(g), i # j
                 PROVE  g[i].line # g[j].line
      BY DEF Once
    <3>1. CASE i \in 1 .. Len(f) /\ j \in 1 .. Len(f)
      BY <3>1, <2>8, <2>14 DEF Once
    <3>2. CASE i \in 1 .. Len(f) /\ j \notin 1 .. Len(f)
      <4>1. PICK k \in 1 .. Len(b) : g[j].line = b[k]
        BY <3>2, <2>7
      <4> QED
        BY <3>2, <4>1, <2>8, <2>12
    <3>3. CASE i \notin 1 .. Len(f) /\ j \in 1 .. Len(f)
      <4>1. PICK k \in 1 .. Len(b) : g[i].line = b[k]
        BY <3>3, <2>7
      <4> QED
        BY <3>3, <4>1, <2>8, <2>12
    <3>4. CASE i \notin 1 .. Len(f) /\ j \notin 1 .. Len(f)
      <4>1. PICK k \in 1 .. Len(b) : i = Len(f) + k /\ g[i].line = b[k]
        BY <3>4, <2>7
      <4>2. PICK l \in 1 .. Len(b) : j = Len(f) + l /\ g[j].line = b[l]
        BY <3>4, <2>7
      <4>3. k < l \/ l < k
        BY <4>1, <4>2, <2>4
      <4>4. b[k] < b[l] \/ b[l] < b[k]
        BY <4>3, <2>4, Zenon DEF Ascending
      <4>5. b[k] \in Nat /\ b[l] \in Nat
        BY <2>4
      <4> QED
        BY <4>1, <4>2, <4>4, <4>5
    <3> QED
      BY <3>1, <3>2, <3>3, <3>4
  <2>16. Kept(g)
    <3> SUFFICES ASSUME NEW i \in 1 .. Len(g), NEW j \in 1 .. Len(g), i < j,
                        g[i].line > g[j].line, g[i].by = g[j].by
                 PROVE  FALSE
      BY DEF Kept
    <3>1. CASE i \in 1 .. Len(f) /\ j \in 1 .. Len(f)
      BY <3>1, <2>8, <2>14 DEF Kept
    <3>2. CASE i \in 1 .. Len(f) /\ j \notin 1 .. Len(f)
      <4>1. PICK k \in 1 .. Len(b) : g[j].line = b[k] /\ g[j].by = by
        BY <3>2, <2>7
      <4>2. QED
        <5>1. g[i] = f[i] /\ f[i].by = by
          BY <3>2, <4>1, <2>8
        <5>2. f[i].line < b[k] /\ f[i].line \in Nat /\ b[k] \in Nat
          BY <3>2, <5>1, <2>13, <2>4, <2>5
        <5> QED
          BY <4>1, <5>1, <5>2
    <3>3. CASE i \notin 1 .. Len(f)
      <4>1. PICK k \in 1 .. Len(b) : i = Len(f) + k /\ g[i].line = b[k]
        BY <3>3, <2>7
      <4>2. j \notin 1 .. Len(f)
        BY <4>1, <2>4
      <4>3. PICK l \in 1 .. Len(b) : j = Len(f) + l /\ g[j].line = b[l]
        BY <4>2, <2>7
      <4>4. k < l
        BY <4>1, <4>3, <2>4
      <4>5. b[k] < b[l]
        BY <4>4, <2>4, Zenon DEF Ascending
      <4>6. b[k] \in Nat /\ b[l] \in Nat
        BY <2>4
      <4> QED
        BY <3>3, <4>1, <4>3, <4>5, <4>6
    <3> QED
      BY <3>1, <3>2, <3>3
  <2>17. FileInOrder'
    BY <2>6, <2>15, <2>16 DEF FileInOrder
  <2>18. \A e \in Items(file'.lines) :
           e \in Items(file.lines) \/ (e.by = by /\ e.line \in Items(b))
    BY <2>6, <2>10 DEF f
  <2> QED
    BY <1>2, <2>1, <2>6, <2>11, <2>17, <2>18
<1> QED
  BY <1>1, <1>2

--------------------------------------------------------------------------------
(* What the steps do to the lines. *)

(* A new line: it is behind every other. *)
LEMMA LineQueued ==
  ASSUME LogTypes, LinesInv, EnqueueLine, UNCHANGED <<flush, file, unlogged>>
  PROVE  /\ queue' \in Seq(Nat) /\ Len(queue') <= MaxQueuedLines /\ logged' \in 0 .. MaxLines
         /\ logged' = logged + 1
         /\ Items(queue') \subseteq Items(queue) \cup {logged + 1}
         /\ writer' \in [at : {"test", "falling", "asleep", "write", "stop?", "drain", "last",
                              "ended"}, batch : Seq(Nat)]
         /\ writer'.batch = writer.batch /\ holder = "free"
         /\ writer'.at = IF writer.at = "asleep" THEN "test" ELSE writer.at
         /\ LinesInv'
<1> USE DEF LogTypes
<1> DEFINE n == logged + 1
<1>1. n \in Nat /\ n \in 1 .. MaxLines /\ logged' = n /\ holder = "free"
  BY LoggerAssumption DEF EnqueueLine
<1>2. \A x \in Places : x \in Nat /\ x # 0 /\ x < n
  BY DEF LinesInv, AllPlaced
<1>3. \A x \in Items(queue) : x < n
  BY <1>2 DEF Places
<1>4. Ascending(queue)
  BY DEF LinesInv, HandsInOrder
<1>5. /\ writer' \in [at : {"test", "falling", "asleep", "write", "stop?", "drain", "last",
                           "ended"}, batch : Seq(Nat)]
      /\ writer'.batch = writer.batch
      /\ writer'.at = IF writer.at = "asleep" THEN "test" ELSE writer.at
  BY DEF EnqueueLine, Notify
<1>6. /\ queue' \in Seq(Nat) /\ Len(queue') <= MaxQueuedLines /\ Ascending(queue')
      /\ Items(queue') \subseteq Items(queue) \cup {n}
      /\ Items(queue') \cup dropped' = Items(queue) \cup {n} \cup dropped
      /\ Items(queue') \cap dropped' = {}
      /\ dropped' \subseteq dropped \cup Items(queue)
  <2>0. Items(queue) \cap dropped = {} /\ n \notin dropped
    BY <1>2 DEF LinesInv, Apart, Places
  <2>1. CASE Full
    <3>1. queue # <<>>
      BY <2>1, LoggerAssumption DEF Full
    <3>2. /\ Tail(queue) \in Seq(Nat) /\ Len(Tail(queue)) = Len(queue) - 1
          /\ Ascending(Tail(queue))
          /\ Items(queue) = Items(Tail(queue)) \cup {Head(queue)}
          /\ Head(queue) \notin Items(Tail(queue))
      BY <3>1, <1>4, TailItems
    <3>3. queue' = Append(Tail(queue), n) /\ dropped' = dropped \cup {Head(queue)}
      BY <2>1 DEF EnqueueLine, Enqueued
    <3>4. \A x \in Items(Tail(queue)) : x < n
      BY <3>2, <1>3
    <3>5. /\ queue' \in Seq(Nat) /\ Len(queue') = Len(Tail(queue)) + 1
          /\ Items(queue') = Items(Tail(queue)) \cup {n}
          /\ Ascending(queue')
      BY <3>2, <3>3, <3>4, <1>1, AppendItems
    <3>6. Len(queue') <= MaxQueuedLines
      BY <3>2, <3>5, LoggerAssumption
    <3>7. Head(queue) # n
      BY <3>2, <1>3, <1>1
    <3> QED
      BY <3>2, <3>3, <3>5, <3>6, <3>7, <2>0
  <2>2. CASE ~Full
    <3>1. queue' = Append(queue, n) /\ dropped' = dropped
      BY <2>2 DEF EnqueueLine, Enqueued
    <3>2. /\ queue' \in Seq(Nat) /\ Len(queue') = Len(queue) + 1
          /\ Items(queue') = Items(queue) \cup {n}
          /\ Ascending(queue')
      BY <3>1, <1>3, <1>4, <1>1, AppendItems
    <3>3. Len(queue') <= MaxQueuedLines
      BY <2>2, <3>2, LoggerAssumption DEF Full
    <3> QED
      BY <3>1, <3>2, <3>3, <2>0
  <2> QED
    BY <2>1, <2>2
<1>7. AllPlaced'
  <2>1. Places' = Places \cup {n}
    BY <1>5, <1>6 DEF Places, Written
  <2>2. 1 .. n = (1 .. logged) \cup {n}
    BY <1>1
  <2> QED
    BY <2>1, <2>2, <1>1 DEF AllPlaced, LinesInv
<1>8. Apart'
  <2>1. n \notin Places
    BY <1>2, <1>1
  <2>2. Written' = Written /\ unlogged' = unlogged /\ flush' = flush
    BY DEF Written
  <2>3. Apart
    BY DEF LinesInv
  <2>4. /\ Items(queue')
             \cap (Items(writer.batch) \cup Items(flush) \cup Written \cup unlogged) = {}
        /\ dropped' \cap (Items(writer.batch) \cup Items(flush) \cup Written \cup unlogged) = {}
    BY <2>1, <2>3, <1>6 DEF Apart, Places
  <2> QED
    BY <2>2, <2>3, <2>4, <1>5, <1>6 DEF Apart
<1>9. FileInOrder' /\ FirstOpening'
  BY DEF LinesInv, FileInOrder, FirstOpening, Written
<1>10. HandsInOrder'
  <2>1. \A x \in Items(writer.batch) \cup Items(flush) : x < n
    BY <1>2 DEF Places
  <2> QED
    BY <2>1, <1>5, <1>6 DEF LinesInv, HandsInOrder
<1>11. WrittenInOrder'
  <2>1. \A e \in Items(file.lines) : e.line < n
    <3>1. \A e \in Items(file.lines) : e.line \in Written \cup {0}
      BY DEF Written, Items
    <3> QED
      BY <3>1, <1>2, <1>1 DEF Places
  <2> QED
    BY <2>1, <1>5, <1>6 DEF LinesInv, WrittenInOrder
<1> QED
  BY <1>1, <1>5, <1>6, <1>7, <1>8, <1>9, <1>10, <1>11 DEF LinesInv

(* The writer takes the queue into an empty hand. *)
LEMMA WriterTakes ==
  ASSUME LinesInv, writer.batch = <<>>, writer'.batch = queue, queue' = <<>>,
         UNCHANGED <<logged, dropped, flush, file, unlogged>>
  PROVE  LinesInv'
<1>1. Items(writer'.batch) = Items(queue) /\ Items(queue') = {} /\ Items(writer.batch) = {}
  BY NoItems
<1>2. Places' = Places /\ AllPlaced' /\ Apart'
  BY <1>1 DEF LinesInv, AllPlaced, Apart, Places, Written
<1>3. HandsInOrder' /\ WrittenInOrder'
  BY <1>1, NoItems DEF LinesInv, HandsInOrder, WrittenInOrder
<1> QED
  BY <1>2, <1>3 DEF LinesInv, FileInOrder, FirstOpening, Written

(* So does a crashing thread. *)
LEMMA FlushGetsQueue ==
  ASSUME LinesInv, flush = <<>>, flush' = queue, queue' = <<>>,
         UNCHANGED <<logged, dropped, writer, file, unlogged>>
  PROVE  LinesInv'
<1>1. Items(flush') = Items(queue) /\ Items(queue') = {} /\ Items(flush) = {}
  BY NoItems
<1>2. Places' = Places /\ AllPlaced' /\ Apart'
  BY <1>1 DEF LinesInv, AllPlaced, Apart, Places, Written
<1>3. HandsInOrder' /\ WrittenInOrder'
  BY <1>1, NoItems DEF LinesInv, HandsInOrder, WrittenInOrder
<1> QED
  BY <1>2, <1>3 DEF LinesInv, FileInOrder, FirstOpening, Written

(* The writer writes what it has in its hand. *)
LEMMA WriterPuts ==
  ASSUME LogTypes, LinesInv, WriteBatchLocked(writer.batch, "writer"), writer'.batch = <<>>,
         UNCHANGED <<logged, dropped, queue, flush>>
  PROVE  LinesInv' /\ file' \in Files
<1> DEFINE b == writer.batch
<1>1. b \in Seq(Nat) /\ file \in Files /\ "writer" \in Writers
  BY DEF LogTypes, Writers
<1>2. 0 \notin Items(b)
  BY DEF LinesInv, AllPlaced, Places
<1>3. /\ Items(b) \cap (Written \cup unlogged) = {} /\ Written \cap unlogged = {}
      /\ FileInOrder /\ Ascending(b)
      /\ \A e \in Items(file.lines) : e.by = "writer" => \A y \in Items(b) : e.line < y
  BY DEF LinesInv, Apart, HandsInOrder, WrittenInOrder
<1>4. /\ file' \in Files /\ file'.open = file.open /\ file'.primed = file.primed
      /\ ~file.open => file' = file
      /\ (Written \cup unlogged)' = Written \cup unlogged \cup Items(b)
      /\ (Written \cap unlogged)' = {}
      /\ FileInOrder'
      /\ \A e \in Items(file'.lines) :
           e \in Items(file.lines) \/ (e.by = "writer" /\ e.line \in Items(b))
  BY <1>1, <1>2, <1>3, BatchWritten
<1>5. Items(writer'.batch) = {}
  BY NoItems
<1>6. Places' = Places /\ AllPlaced'
  BY <1>4, <1>5 DEF LinesInv, AllPlaced, Places
<1>7. Apart'
  BY <1>4, <1>5 DEF LinesInv, Apart
<1>8. HandsInOrder'
  BY <1>5, NoItems DEF LinesInv, HandsInOrder
<1>9. WrittenInOrder'
  <2>1. \A y \in Items(queue), x \in Items(b) : x < y
    BY DEF LinesInv, HandsInOrder
  <2> QED
    BY <1>4, <1>5, <2>1 DEF LinesInv, WrittenInOrder
<1>10. FirstOpening'
  BY <1>4 DEF LinesInv, FirstOpening, Written
<1> QED
  BY <1>4, <1>6, <1>7, <1>8, <1>9, <1>10 DEF LinesInv

(* So does a crashing thread. *)
LEMMA FlushPuts ==
  ASSUME LogTypes, LinesInv, WriteBatchLocked(flush, "flush"), flush' = <<>>,
         UNCHANGED <<logged, dropped, queue, writer>>
  PROVE  LinesInv' /\ file' \in Files
<1> DEFINE b == flush
<1>1. b \in Seq(Nat) /\ file \in Files /\ "flush" \in Writers
  BY DEF LogTypes, Writers
<1>2. 0 \notin Items(b)
  BY DEF LinesInv, AllPlaced, Places
<1>3. /\ Items(b) \cap (Written \cup unlogged) = {} /\ Written \cap unlogged = {}
      /\ FileInOrder /\ Ascending(b)
      /\ \A e \in Items(file.lines) : e.by = "flush" => \A y \in Items(b) : e.line < y
  BY DEF LinesInv, Apart, HandsInOrder, WrittenInOrder
<1>4. /\ file' \in Files /\ file'.open = file.open /\ file'.primed = file.primed
      /\ ~file.open => file' = file
      /\ (Written \cup unlogged)' = Written \cup unlogged \cup Items(b)
      /\ (Written \cap unlogged)' = {}
      /\ FileInOrder'
      /\ \A e \in Items(file'.lines) :
           e \in Items(file.lines) \/ (e.by = "flush" /\ e.line \in Items(b))
  BY <1>1, <1>2, <1>3, BatchWritten
<1>5. Items(flush') = {}
  BY NoItems
<1>6. Places' = Places /\ AllPlaced'
  BY <1>4, <1>5 DEF LinesInv, AllPlaced, Places
<1>7. Apart'
  BY <1>4, <1>5 DEF LinesInv, Apart
<1>8. HandsInOrder'
  BY <1>5, NoItems DEF LinesInv, HandsInOrder
<1>9. WrittenInOrder'
  <2>1. \A y \in Items(queue), x \in Items(b) : x < y
    BY DEF LinesInv, HandsInOrder
  <2> QED
    BY <1>4, <1>5, <2>1 DEF LinesInv, WrittenInOrder
<1>10. FirstOpening'
  BY <1>4 DEF LinesInv, FirstOpening, Written
<1> QED
  BY <1>4, <1>6, <1>7, <1>8, <1>9, <1>10 DEF LinesInv

(* A step that touches neither the lines nor whose hands they are in, but for *)
(* closing the file.                                                          *)
LEMMA LinesStay ==
  ASSUME LinesInv, UNCHANGED <<queue, logged, dropped, flush, unlogged>>,
         writer'.batch = writer.batch, file'.lines = file.lines, file'.primed = file.primed,
         file'.open => file.open
  PROVE  LinesInv'
<1>1. Written' = Written
  BY DEF Written
<1> QED
  BY <1>1 DEF LinesInv, AllPlaced, Places, Apart, FileInOrder, HandsInOrder, WrittenInOrder,
     FirstOpening

--------------------------------------------------------------------------------
(* The initial states satisfy the invariant. *)
LEMMA InitLogInv == LoggerInit => LogInv
<1> SUFFICES ASSUME LoggerInit PROVE LogInv
  OBVIOUS
<1> USE DEF LoggerInit
<1>1. file = [lines |-> <<>>, open |-> TRUE, primed |-> TRUE, enabled |-> TRUE]
      \/ file = [lines |-> <<[line |-> 0, by |-> "writer"]>>, open |-> FALSE, primed |-> FALSE,
                 enabled |-> FALSE]
  BY DEF InitializeLogger
<1>2. file.lines \in Seq(Entries) /\ (file.open => file.primed) /\ Len(file.lines) \in {0, 1}
      /\ \A i \in 1 .. Len(file.lines) : file.lines[i].line = 0
  <2>1. CASE file.lines = <<>> /\ file.primed
    BY <2>1
  <2>2. CASE file.lines = <<[line |-> 0, by |-> "writer"]>> /\ ~file.open
    <3>1. [line |-> 0, by |-> "writer"] \in Entries
      BY DEF Entries, Writers
    <3> QED
      BY <2>2, <3>1
  <2> QED
    BY <1>1, <2>1, <2>2
<1>3. file \in Files
  <2>1. \A l \in Seq(Entries), o, p, e \in BOOLEAN :
          [lines |-> l, open |-> o, primed |-> p, enabled |-> e] \in Files
    BY DEF Files
  <2>2. CASE file = [lines |-> <<>>, open |-> TRUE, primed |-> TRUE, enabled |-> TRUE]
    <3>1. <<>> \in Seq(Entries) /\ TRUE \in BOOLEAN
      OBVIOUS
    <3> QED
      BY <2>1, <2>2, <3>1
  <2>3. CASE file = [lines |-> <<[line |-> 0, by |-> "writer"]>>, open |-> FALSE,
                     primed |-> FALSE, enabled |-> FALSE]
    <3>1. <<[line |-> 0, by |-> "writer"]>> \in Seq(Entries) /\ FALSE \in BOOLEAN
      BY <1>2, <2>3
    <3> QED
      BY <2>1, <2>3, <3>1
  <2> QED
    BY <1>1, <2>2, <2>3
<1>4. Written = {}
  BY <1>2 DEF Written
<1>5. writer.batch = <<>> /\ writer.at = "test" /\ stop.at = "no" /\ stop.last = 0
  OBVIOUS
<1>6. LogTypes
  <2>1. writer \in [at : {"test", "falling", "asleep", "write", "stop?", "drain", "last", "ended"},
                   batch : Seq(Nat)]
    BY NoItems
  <2>2. stop \in [at : {"no", "join", "closed"}, last : Nat]
    OBVIOUS
  <2>3. crash \in [Crashers -> {"runs", "report", "dumped", "take", "flush", "over"}]
    OBVIOUS
  <2>4. 0 \in 0 .. MaxLines /\ Len(<<>>) <= MaxQueuedLines
    BY NoItems, LoggerAssumption
  <2> QED
    BY <2>1, <2>2, <2>3, <2>4, <1>3, <1>5, NoItems DEF LogTypes
<1>7. Items(queue) = {} /\ Items(writer.batch) = {} /\ Items(flush) = {}
  BY <1>5, NoItems
<1>8. AllPlaced /\ Apart
  BY <1>4, <1>7 DEF AllPlaced, Places, Apart
<1>9. FileInOrder
  BY <1>2 DEF FileInOrder, Once, Kept
<1>10. HandsInOrder /\ WrittenInOrder
  BY <1>5, <1>7, NoItems DEF HandsInOrder, WrittenInOrder
<1>11. FirstOpening
  BY <1>2, <1>4 DEF FirstOpening
<1>12. OneReporter
  BY LoggerAssumption DEF OneReporter
<1>13. Armed
  BY DEF Armed, OneReport
<1>14. WriterEnds
  BY <1>5, <1>7 DEF WriterEnds
<1> QED
  BY <1>6, <1>8, <1>9, <1>10, <1>11, <1>12, <1>13, <1>14 DEF LogInv, LinesInv

(* A new line. *)
LEMMA LogKeeps == LogInv /\ Log => LogInv'
<1> SUFFICES ASSUME LogInv, Log PROVE LogInv'
  OBVIOUS
<1>1. /\ queue' \in Seq(Nat) /\ Len(queue') <= MaxQueuedLines /\ logged' \in 0 .. MaxLines
      /\ logged' = logged + 1
      /\ Items(queue') \subseteq Items(queue) \cup {logged + 1}
      /\ writer' \in [at : {"test", "falling", "asleep", "write", "stop?", "drain", "last",
                           "ended"}, batch : Seq(Nat)]
      /\ writer'.batch = writer.batch /\ holder = "free"
      /\ writer'.at = IF writer.at = "asleep" THEN "test" ELSE writer.at
      /\ LinesInv'
  BY LineQueued DEF LogInv, Log
<1>2. UNCHANGED <<holder, flush, file, unlogged, stop, crash, latch, crashMutex, reports>>
  BY DEF Log
<1>3. LogTypes'
  BY <1>1, <1>2 DEF LogInv, LogTypes
<1>4. OneReporter' /\ Armed'
  BY <1>2 DEF LogInv, OneReporter, Armed, OneReport
<1>5. WriterEnds'
  BY <1>1, <1>2 DEF LogInv, LogTypes, WriterEnds
<1> QED
  BY <1>1, <1>3, <1>4, <1>5 DEF LogInv

(* The steps of the writer. *)
LEMMA WriterKeeps == LogInv /\ Writer => LogInv'
<1> SUFFICES ASSUME LogInv, Writer PROVE LogInv'
  OBVIOUS
<1>1. CASE WriterTests
  <2>1. /\ writer.at = "test" /\ writer.batch = <<>>
        /\ UNCHANGED <<logged, dropped, flush, file, unlogged, stop, crash, latch, crashMutex,
                       reports>>
    BY <1>1 DEF WriterTests, LogInv, WriterEnds
  <2>2. OneReporter' /\ Armed'
    BY <2>1 DEF LogInv, OneReporter, Armed, OneReport
  <2>3. CASE queue # <<>> \/ Stopping
    <3>1. /\ writer' = [at |-> "write", batch |-> queue] /\ queue' = <<>> /\ holder' = holder
          /\ holder = "free"
      BY <1>1, <2>3 DEF WriterTests
    <3>2. LinesInv'
      BY <2>1, <3>1, WriterTakes DEF LogInv
    <3>3. LogTypes'
      BY <2>1, <3>1, NoItems, LoggerAssumption DEF LogInv, LogTypes
    <3>4. WriterEnds'
      BY <2>1, <3>1 DEF LogInv, WriterEnds
    <3> QED
      BY <2>2, <3>2, <3>3, <3>4 DEF LogInv
  <2>4. CASE ~(queue # <<>> \/ Stopping)
    <3>1. writer' = [writer EXCEPT !.at = "falling"] /\ holder' = "writer" /\ queue' = queue
      BY <1>1, <2>4 DEF WriterTests
    <3>2. /\ writer' \in [at : {"test", "falling", "asleep", "write", "stop?", "drain", "last",
                                "ended"}, batch : Seq(Nat)]
          /\ writer'.batch = writer.batch /\ writer'.at = "falling"
      BY <3>1 DEF LogInv, LogTypes
    <3>3. LinesInv'
      BY <2>1, <3>1, <3>2, LinesStay DEF LogInv
    <3>4. LogTypes'
      BY <2>1, <3>1, <3>2 DEF LogInv, LogTypes
    <3>5. WriterEnds'
      BY <2>1, <3>1, <3>2 DEF LogInv, WriterEnds
    <3> QED
      BY <2>2, <3>3, <3>4, <3>5 DEF LogInv
  <2> QED
    BY <2>3, <2>4
<1>2. CASE WriterSleeps
  <2>1. /\ writer' \in [at : {"test", "falling", "asleep", "write", "stop?", "drain", "last",
                              "ended"}, batch : Seq(Nat)]
        /\ writer.at = "falling" /\ writer'.batch = writer.batch /\ writer'.at = "asleep"
        /\ holder' = "free"
        /\ UNCHANGED <<queue, logged, dropped, flush, file, unlogged, stop, crash, latch,
                       crashMutex, reports>>
    BY <1>2 DEF WriterSleeps, LogInv, LogTypes
  <2>2. LinesInv'
    BY <2>1, LinesStay DEF LogInv
  <2>3. LogTypes'
    BY <2>1 DEF LogInv, LogTypes
  <2>4. OneReporter' /\ Armed' /\ WriterEnds'
    BY <2>1 DEF LogInv, OneReporter, Armed, OneReport, WriterEnds
  <2> QED
    BY <2>2, <2>3, <2>4 DEF LogInv
<1>3. CASE WriterWrites
  <2>1. /\ writer.at \in {"write", "last"} /\ WriteBatchLocked(writer.batch, "writer")
        /\ writer' = [at |-> IF writer.at = "last" THEN "ended" ELSE "stop?", batch |-> <<>>]
        /\ UNCHANGED <<queue, logged, dropped, holder, flush, stop, crash, latch, crashMutex,
                       reports>>
    BY <1>3 DEF WriterWrites
  <2>2. LinesInv' /\ file' \in Files
    BY <2>1, WriterPuts DEF LogInv
  <2>3. LogTypes'
    BY <2>1, <2>2, NoItems DEF LogInv, LogTypes
  <2>4. OneReporter' /\ Armed'
    BY <2>1 DEF LogInv, OneReporter, Armed, OneReport
  <2>5. WriterEnds'
    BY <2>1 DEF LogInv, LogTypes, WriterEnds
  <2> QED
    BY <2>2, <2>3, <2>4, <2>5 DEF LogInv
<1>4. CASE WriterReadsStop
  <2>1. /\ writer' \in [at : {"test", "falling", "asleep", "write", "stop?", "drain", "last",
                              "ended"}, batch : Seq(Nat)]
        /\ writer.at = "stop?" /\ writer'.batch = writer.batch
        /\ writer'.at = IF stop.at # "no" THEN "drain" ELSE "test"
        /\ UNCHANGED <<queue, logged, dropped, holder, flush, file, unlogged, stop, crash, latch,
                       crashMutex, reports>>
    BY <1>4 DEF WriterReadsStop, Stopping, LogInv, LogTypes
  <2>2. LinesInv'
    BY <2>1, LinesStay DEF LogInv
  <2>3. LogTypes'
    BY <2>1 DEF LogInv, LogTypes
  <2>4. OneReporter' /\ Armed' /\ WriterEnds'
    BY <2>1 DEF LogInv, OneReporter, Armed, OneReport, WriterEnds
  <2> QED
    BY <2>2, <2>3, <2>4 DEF LogInv
<1>5. CASE WriterDrains
  <2>1. /\ writer.at = "drain" /\ writer.batch = <<>> /\ holder = "free"
        /\ writer' = [at |-> "last", batch |-> queue] /\ queue' = <<>>
        /\ UNCHANGED <<logged, dropped, holder, flush, file, unlogged, stop, crash, latch,
                       crashMutex, reports>>
    BY <1>5 DEF WriterDrains, LogInv, WriterEnds
  <2>2. LinesInv'
    BY <2>1, WriterTakes DEF LogInv
  <2>3. LogTypes'
    BY <2>1, NoItems, LoggerAssumption DEF LogInv, LogTypes
  <2>4. OneReporter' /\ Armed'
    BY <2>1 DEF LogInv, OneReporter, Armed, OneReport
  <2>5. WriterEnds'
    BY <2>1, NoItems DEF LogInv, WriterEnds
  <2> QED
    BY <2>2, <2>3, <2>4, <2>5 DEF LogInv
<1> QED
  BY <1>1, <1>2, <1>3, <1>4, <1>5 DEF Writer

(* The steps that open and close the file. *)
LEMMA FileKeeps ==
  LogInv /\ (SetFileLoggingEnabled \/ ShutdownLogger \/ ShutdownCloses) => LogInv'
<1> SUFFICES ASSUME LogInv, SetFileLoggingEnabled \/ ShutdownLogger \/ ShutdownCloses PROVE LogInv'
  OBVIOUS
<1>1. CASE SetFileLoggingEnabled
  <2>1. UNCHANGED <<queue, logged, dropped, holder, writer, flush, unlogged, stop, crash, latch,
                    crashMutex, reports>>
    BY <1>1 DEF SetFileLoggingEnabled
  <2>2. OneReporter' /\ Armed' /\ WriterEnds'
    BY <2>1 DEF LogInv, OneReporter, Armed, OneReport, WriterEnds
  <2>3. ASSUME file' \in Files, LinesInv' PROVE LogInv'
    BY <2>1, <2>2, <2>3 DEF LogInv, LogTypes
  <2>4. file \in Files /\ LinesInv
    BY DEF LogInv, LogTypes
  <2>5. CASE file' \in Files /\ file'.lines = file.lines /\ file'.primed = file.primed
             /\ (file'.open => file.open)
    BY <2>1, <2>3, <2>4, <2>5, LinesStay
  <2>6. CASE file' \in Files /\ file'.primed /\ file.primed /\ file'.lines = file.lines
    <3>1. Written' = Written
      BY <2>6 DEF Written
    <3>2. AllPlaced' /\ Apart'
      BY <2>1, <2>4, <3>1 DEF LinesInv, AllPlaced, Places, Apart
    <3>3. FileInOrder'
      BY <2>4, <2>6 DEF LinesInv, FileInOrder
    <3>4. HandsInOrder' /\ WrittenInOrder'
      BY <2>1, <2>4, <2>6 DEF LinesInv, HandsInOrder, WrittenInOrder
    <3>5. FirstOpening'
      BY <2>6 DEF FirstOpening
    <3> QED
      BY <2>3, <2>6, <3>2, <3>3, <3>4, <3>5 DEF LinesInv
  <2>7. CASE file' \in Files /\ file'.primed /\ ~file.primed /\ file'.lines = <<>>
    <3>1. Written' = {} /\ Written = {} /\ Items(file'.lines) = {} /\ Len(file'.lines) = 0
      <4>1. Written = {}
        BY <2>4, <2>7 DEF LinesInv, FirstOpening
      <4>2. Items(file'.lines) = {} /\ Len(file'.lines) = 0
        BY <2>7, NoItems
      <4>3. Written' = {}
        BY <4>2 DEF Written
      <4> QED
        BY <4>1, <4>2, <4>3
    <3>2. FileInOrder'
      BY <3>1 DEF FileInOrder, Once, Kept
    <3>3. LinesInv'
      BY <2>1, <2>4, <2>7, <3>1, <3>2 DEF LinesInv, AllPlaced, Places, Apart, HandsInOrder,
         WrittenInOrder, FirstOpening
    <3> QED
      BY <2>3, <2>7, <3>3
  <2>8. CASE file.enabled
    <3>1. file' = [file EXCEPT !.enabled = FALSE, !.open = FALSE]
      BY <1>1, <2>8 DEF SetFileLoggingEnabled
    <3> QED
      BY <2>4, <2>5, <3>1 DEF Files
  <2>9. CASE ~file.enabled
    <3>1. PICK f \in OpenLogFileUnlocked : file' = [f EXCEPT !.enabled = TRUE]
      BY <1>1, <2>9 DEF SetFileLoggingEnabled
    <3>2. CASE f = file
      <4>1. file' \in Files /\ file'.lines = file.lines /\ file'.primed = file.primed
            /\ file'.open = file.open
        BY <2>4, <3>1, <3>2 DEF Files
      <4> QED
        BY <4>1, <2>5
    <3>3. CASE f = [file EXCEPT !.open = TRUE, !.primed = TRUE,
                                !.lines = IF file.primed THEN @ ELSE <<>>]
      <4>1. <<>> \in Seq(Entries)
        OBVIOUS
      <4>2. file' \in Files /\ file'.primed
            /\ file'.lines = IF file.primed THEN file.lines ELSE <<>>
        BY <2>4, <3>1, <3>3, <4>1 DEF Files
      <4> QED
        BY <4>2, <2>6, <2>7, <2>4 DEF Files
    <3> QED
      BY <3>2, <3>3 DEF OpenLogFileUnlocked
  <2> QED
    BY <2>8, <2>9, <2>4 DEF Files
<1>2. CASE ShutdownLogger
  <2>1. /\ stop.at = "no" /\ stop' = [at |-> "join", last |-> logged] /\ holder = "free"
        /\ UNCHANGED <<queue, logged, dropped, holder, flush, file, unlogged, crash, latch,
                       crashMutex, reports>>
    BY <1>2 DEF ShutdownLogger
  <2>2. /\ writer' \in [at : {"test", "falling", "asleep", "write", "stop?", "drain", "last",
                              "ended"}, batch : Seq(Nat)]
        /\ writer'.batch = writer.batch
        /\ writer'.at = IF writer.at = "asleep" THEN "test" ELSE writer.at
    BY <1>2 DEF ShutdownLogger, Notify, LogInv, LogTypes
  <2>3. LinesInv'
    BY <2>1, <2>2, LinesStay DEF LogInv
  <2>4. LogTypes'
    BY <2>1, <2>2 DEF LogInv, LogTypes
  <2>5. OneReporter' /\ Armed'
    BY <2>1 DEF LogInv, OneReporter, Armed, OneReport
  <2>6. WriterEnds'
    BY <2>1, <2>2 DEF LogInv, LogTypes, WriterEnds
  <2> QED
    BY <2>3, <2>4, <2>5, <2>6 DEF LogInv
<1>3. CASE ShutdownCloses
  <2>1. /\ stop.at = "join" /\ writer.at = "ended" /\ stop' = [stop EXCEPT !.at = "closed"]
        /\ file' = [file EXCEPT !.open = FALSE]
        /\ UNCHANGED <<queue, logged, dropped, holder, writer, flush, unlogged, crash, latch,
                       crashMutex, reports>>
    BY <1>3 DEF ShutdownCloses
  <2>2. /\ stop' \in [at : {"no", "join", "closed"}, last : Nat]
        /\ stop'.last = stop.last /\ stop'.at = "closed"
    BY <2>1 DEF LogInv, LogTypes
  <2>3. /\ file' \in Files /\ file'.lines = file.lines /\ file'.primed = file.primed
        /\ file'.open = FALSE
    BY <2>1 DEF LogInv, LogTypes, Files
  <2>4. LinesInv'
    BY <2>1, <2>3, LinesStay DEF LogInv
  <2>5. LogTypes'
    BY <2>1, <2>2, <2>3 DEF LogInv, LogTypes
  <2>6. OneReporter' /\ Armed'
    BY <2>1 DEF LogInv, OneReporter, Armed, OneReport
  <2>7. WriterEnds'
    BY <2>1, <2>2 DEF LogInv, WriterEnds
  <2> QED
    BY <2>4, <2>5, <2>6, <2>7 DEF LogInv
<1> QED
  BY <1>1, <1>2, <1>3

(* The steps of a crashing thread. *)
LEMMA CrashKeeps ==
  ASSUME LogInv, NEW t \in Crashers,
         \/ UnhandledException(t) \/ WriteCrashArtifacts(t) \/ ReportLogs(t)
         \/ FlushTakes(t) \/ FlushWrites(t)
  PROVE  LogInv'
<1>1. t # "free" /\ crash \in [Crashers -> {"runs", "report", "dumped", "take", "flush", "over"}]
  BY LoggerAssumption DEF LogInv, LogTypes
<1>2. CASE UnhandledException(t)
  <2>1. /\ crash[t] = "runs" /\ crash' = [crash EXCEPT ![t] = "report"]
        /\ UNCHANGED <<queue, logged, dropped, holder, writer, flush, file, unlogged, stop, latch,
                       crashMutex, reports>>
    BY <1>2 DEF UnhandledException, CrashAt
  <2>2. LinesInv'
    BY <2>1, LinesStay DEF LogInv
  <2>3. LogTypes'
    BY <2>1 DEF LogInv, LogTypes
  <2>4. OneReporter'
    BY <1>1, <2>1 DEF LogInv, OneReporter
  <2>5. Armed' /\ WriterEnds'
    BY <2>1 DEF LogInv, Armed, OneReport, WriterEnds
  <2> QED
    BY <2>2, <2>3, <2>4, <2>5 DEF LogInv
<1>3. CASE WriteCrashArtifacts(t)
  <2>1. /\ crash[t] = "report" /\ crashMutex = "free"
        /\ UNCHANGED <<queue, logged, dropped, holder, writer, flush, file, unlogged, stop>>
    BY <1>3 DEF WriteCrashArtifacts
  <2>2. \/ /\ latch /\ crash' = [crash EXCEPT ![t] = "over"]
           /\ UNCHANGED <<latch, crashMutex, reports>>
        \/ /\ ~latch /\ crash' = [crash EXCEPT ![t] = "dumped"]
           /\ latch' = TRUE /\ crashMutex' = t /\ reports' = reports + 1
    BY <1>3 DEF WriteCrashArtifacts, CrashAt, Latch
  <2>3. LinesInv'
    BY <2>1, LinesStay DEF LogInv
  <2>4. LogTypes'
    <3>1. crash' \in [Crashers -> {"runs", "report", "dumped", "take", "flush", "over"}]
      BY <1>1, <2>2
    <3>2. crashMutex \in Crashers \cup {"free"} /\ latch \in BOOLEAN /\ reports \in Nat
      BY DEF LogInv, LogTypes
    <3>3. crashMutex' \in Crashers \cup {"free"}
      BY <2>2, <3>2, Zenon
    <3>4. latch' \in BOOLEAN
      BY <2>2, <3>2, Zenon
    <3>5. reports' \in Nat
      BY <2>2, <3>2, SMT
    <3> QED
      BY <2>1, <3>1, <3>3, <3>4, <3>5 DEF LogInv, LogTypes
  <2>5. OneReporter'
    <3>1. OneReporter /\ crash[t] \notin {"dumped", "take", "flush"}
      BY <2>1 DEF LogInv
    <3>2. CASE latch
      <4>1. crash' = [crash EXCEPT ![t] = "over"] /\ crashMutex' = crashMutex /\ flush' = flush
        BY <2>1, <2>2, <3>2
      <4>2. \A u \in Crashers : crash'[u] = IF u = t THEN "over" ELSE crash[u]
        BY <4>1, <1>1
      <4> QED
        BY <3>1, <4>1, <4>2, <2>1, <1>1 DEF OneReporter
    <3>3. CASE ~latch
      <4>1. crash' = [crash EXCEPT ![t] = "dumped"] /\ crashMutex' = t /\ flush' = flush
        BY <2>1, <2>2, <3>3
      <4>2. \A u \in Crashers : crash'[u] = IF u = t THEN "dumped" ELSE crash[u]
        BY <4>1, <1>1
      <4>3. \A u \in Crashers : u # "free" /\ crash[u] \notin {"dumped", "take", "flush"}
        BY <3>1, <2>1, LoggerAssumption DEF OneReporter
      <4> QED
        BY <3>1, <4>1, <4>2, <4>3 DEF OneReporter
    <3> QED
      BY <3>2, <3>3
  <2>6. Armed'
    BY <2>2 DEF LogInv, LogTypes, Armed, OneReport
  <2>7. WriterEnds'
    BY <2>1 DEF LogInv, WriterEnds
  <2> QED
    BY <2>3, <2>4, <2>5, <2>6, <2>7 DEF LogInv
<1>4. CASE ReportLogs(t)
  <2>1. /\ crash[t] = "dumped" /\ EnqueueLine /\ crash' = [crash EXCEPT ![t] = "take"]
        /\ UNCHANGED <<holder, flush, file, unlogged, stop, latch, crashMutex, reports>>
    BY <1>4 DEF ReportLogs, CrashAt
  <2>2. /\ queue' \in Seq(Nat) /\ Len(queue') <= MaxQueuedLines /\ logged' \in 0 .. MaxLines
        /\ logged' = logged + 1
        /\ Items(queue') \subseteq Items(queue) \cup {logged + 1}
        /\ writer' \in [at : {"test", "falling", "asleep", "write", "stop?", "drain", "last",
                              "ended"}, batch : Seq(Nat)]
        /\ writer'.batch = writer.batch /\ holder = "free"
        /\ writer'.at = IF writer.at = "asleep" THEN "test" ELSE writer.at
        /\ LinesInv'
    BY <2>1, LineQueued DEF LogInv
  <2>3. LogTypes'
    BY <1>1, <2>1, <2>2 DEF LogInv, LogTypes
  <2>4. OneReporter'
    BY <1>1, <2>1 DEF LogInv, OneReporter
  <2>5. Armed'
    BY <2>1 DEF LogInv, Armed, OneReport
  <2>6. WriterEnds'
    BY <2>1, <2>2 DEF LogInv, LogTypes, WriterEnds
  <2> QED
    BY <2>2, <2>3, <2>4, <2>5, <2>6 DEF LogInv
<1>5. CASE FlushTakes(t)
  <2>1. /\ crash[t] = "take" /\ flush' = queue /\ queue' = <<>>
        /\ crash' = [crash EXCEPT ![t] = "flush"]
        /\ UNCHANGED <<logged, dropped, holder, writer, file, unlogged, stop, latch, crashMutex,
                       reports>>
    BY <1>5 DEF FlushTakes, CrashAt
  <2>2. crashMutex = t /\ \A u \in Crashers : crash[u] # "flush"
    BY <2>1 DEF LogInv, OneReporter
  <2>3. flush = <<>>
    BY <2>2 DEF LogInv, OneReporter
  <2>4. LinesInv'
    BY <2>1, <2>3, FlushGetsQueue DEF LogInv
  <2>5. LogTypes'
    BY <1>1, <2>1, NoItems, LoggerAssumption DEF LogInv, LogTypes
  <2>6. OneReporter'
    BY <1>1, <2>1 DEF LogInv, OneReporter
  <2>7. Armed'
    BY <2>1 DEF LogInv, Armed, OneReport
  <2>8. WriterEnds'
    BY <2>1, NoItems DEF LogInv, WriterEnds
  <2> QED
    BY <2>4, <2>5, <2>6, <2>7, <2>8 DEF LogInv
<1>6. CASE FlushWrites(t)
  <2>1. /\ crash[t] = "flush" /\ WriteBatchLocked(flush, "flush") /\ flush' = <<>>
        /\ crash' = [crash EXCEPT ![t] = "over"] /\ crashMutex' = "free"
        /\ UNCHANGED <<queue, logged, dropped, holder, writer, stop, latch, reports>>
    BY <1>6 DEF FlushWrites, CrashAt
  <2>2. crashMutex = t
    BY <2>1 DEF LogInv, OneReporter
  <2>3. LinesInv' /\ file' \in Files
    BY <2>1, FlushPuts DEF LogInv
  <2>4. LogTypes'
    BY <1>1, <2>1, <2>3, NoItems DEF LogInv, LogTypes
  <2>5. OneReporter'
    BY <1>1, <2>1, <2>2, LoggerAssumption DEF LogInv, OneReporter
  <2>6. Armed' /\ WriterEnds'
    BY <2>1 DEF LogInv, Armed, OneReport, WriterEnds
  <2> QED
    BY <2>3, <2>4, <2>5, <2>6 DEF LogInv
<1> QED
  BY <1>2, <1>3, <1>4, <1>5, <1>6

(* Every step. *)
LEMMA NextLogInv == LogInv /\ [LoggerNext]_loggerVars => LogInv'
<1> SUFFICES ASSUME LogInv, [LoggerNext]_loggerVars PROVE LogInv'
  OBVIOUS
<1>1. CASE RearmCrashArtifacts
  <2>1. /\ latch' = FALSE /\ reports' = 0
        /\ UNCHANGED <<queue, logged, dropped, holder, writer, flush, file, unlogged, stop, crash,
                       crashMutex>>
    BY <1>1 DEF RearmCrashArtifacts
  <2>2. LinesInv'
    BY <2>1, LinesStay DEF LogInv
  <2>3. LogTypes'
    BY <2>1 DEF LogInv, LogTypes
  <2>4. OneReporter' /\ Armed' /\ WriterEnds'
    BY <2>1 DEF LogInv, OneReporter, Armed, OneReport, WriterEnds
  <2> QED
    BY <2>2, <2>3, <2>4 DEF LogInv
<1>2. CASE UNCHANGED loggerVars
  <2>1. UNCHANGED <<queue, logged, dropped, holder, writer, flush, file, unlogged, stop, crash,
                    latch, crashMutex, reports>>
    BY <1>2 DEF loggerVars
  <2>2. LinesInv'
    BY <2>1, LinesStay DEF LogInv
  <2>3. LogTypes'
    BY <2>1 DEF LogInv, LogTypes
  <2>4. OneReporter' /\ Armed' /\ WriterEnds'
    BY <2>1 DEF LogInv, OneReporter, Armed, OneReport, WriterEnds
  <2> QED
    BY <2>2, <2>3, <2>4 DEF LogInv
<1>3. CASE Crash
  BY <1>3, CrashKeeps DEF Crash
<1> QED
  BY <1>1, <1>2, <1>3, LogKeeps, WriterKeeps, FileKeeps DEF LoggerNext

(* A queue of lines that were logged. *)
LEMMA SeqOfItems ==
  ASSUME NEW q \in Seq(Nat), NEW S, Items(q) \subseteq S
  PROVE  q \in Seq(S)
<1>1. \A i \in 1 .. Len(q) : q[i] \in S
  BY DEF Items
<1>2. q \in [1 .. Len(q) -> S]
  BY <1>1
<1> QED
  BY <1>2

(* The invariant gives what the run checks. *)
LEMMA LogInvSafe == LogInv => LoggerSafe
<1> SUFFICES ASSUME LogInv PROVE LoggerSafe
  OBVIOUS
<1>1. Places = 1 .. logged /\ logged \in 0 .. MaxLines /\ MaxLines \in Nat
  BY LoggerAssumption DEF LogInv, LogTypes, LinesInv, AllPlaced
<1>2. LoggerTypeOK
  <2>1. Items(queue) \subseteq 1 .. MaxLines /\ dropped \subseteq 1 .. MaxLines
    BY <1>1 DEF Places
  <2>2. queue \in Seq(1 .. MaxLines)
    BY <2>1, SeqOfItems DEF LogInv, LogTypes
  <2> QED
    BY <2>1, <2>2 DEF LogInv, LogTypes, LoggerTypeOK
<1>3. EveryLineOnce
  <2> DEFINE places ==
        <<Items(queue), Items(writer.batch), Items(flush), Written, dropped, unlogged>>
  <2>1. Len(places) = 6 /\ DOMAIN places = 1 .. 6
    OBVIOUS
  <2>2. /\ places[1] = Items(queue) /\ places[2] = Items(writer.batch)
        /\ places[3] = Items(flush) /\ places[4] = Written /\ places[5] = dropped
        /\ places[6] = unlogged
    OBVIOUS
  <2>3. \A i \in 1 .. 6 : i = 1 \/ i = 2 \/ i = 3 \/ i = 4 \/ i = 5 \/ i = 6
    OBVIOUS
  <2> HIDE DEF places
  <2>4. UNION Items(places) = Places
    <3>1. Items(places) = {places[1], places[2], places[3], places[4], places[5], places[6]}
      BY <2>1, <2>3 DEF Items
    <3> QED
      BY <3>1, <2>2 DEF Places
  <2>5. \A i, j \in 1 .. 6 : i # j => places[i] \cap places[j] = {}
    <3> SUFFICES ASSUME NEW i \in 1 .. 6, NEW j \in 1 .. 6, i # j
                 PROVE  places[i] \cap places[j] = {}
      OBVIOUS
    <3>1. Apart
      BY DEF LogInv, LinesInv
    <3> QED
      BY <3>1, <2>2, <2>3 DEF Apart
  <2>6. \A i, j \in DOMAIN file.lines : i # j => file.lines[i].line # file.lines[j].line
    <3>1. DOMAIN file.lines = 1 .. Len(file.lines)
      BY DEF LogInv, LogTypes, Files
    <3> QED
      BY <3>1 DEF LogInv, LinesInv, FileInOrder, Once
  <2> QED
    BY <1>1, <2>1, <2>4, <2>5, <2>6 DEF EveryLineOnce, places
<1>4. OrderKept
  <2>1. DOMAIN file.lines = 1 .. Len(file.lines)
    BY DEF LogInv, LogTypes, Files
  <2> QED
    BY <2>1 DEF LogInv, LinesInv, FileInOrder, Kept, OrderKept
<1>5. ShutdownWritesAll
  <2> SUFFICES ASSUME stop.at = "closed", NEW n \in 1 .. stop.last
               PROVE  n \in Written \cup dropped \cup unlogged \cup Items(flush)
    BY DEF ShutdownWritesAll
  <2>1. writer.at = "ended" /\ writer.batch = <<>> /\ n \in 1 .. logged /\ n <= stop.last
    BY <1>1 DEF LogInv, LogTypes, WriterEnds
  <2>2. n \notin Items(queue)
    BY <2>1 DEF LogInv, LogTypes, WriterEnds
  <2>3. n \notin Items(writer.batch)
    BY <2>1, NoItems
  <2> QED
    BY <1>1, <2>1, <2>2, <2>3 DEF Places
<1> QED
  BY <1>2, <1>3, <1>4, <1>5 DEF LogInv, Armed, LoggerSafe

(* Whatever the threads do, and wherever one of them fails, every line is in  *)
(* one place, the file keeps the order of each of its writers, the detach     *)
(* leaves nothing behind that was logged before it, and there is one report   *)
(* per session (EnqueueLine, WriterThreadEntry, FlushLoggerSync,              *)
(* ShutdownLogger, WriteCrashArtifacts).                                      *)
THEOREM LoggerSafety == LoggerSpec => []LoggerSafe
<1> QED
  BY InitLogInv, NextLogInv, LogInvSafe, PTL DEF LoggerSpec

(* What is written comes behind what the file holds.                         *)
LEMMA WritingKeeps ==
  ASSUME LogTypes, NEW b \in Seq(Nat), NEW by \in Writers, WriteBatchLocked(b, by)
  PROVE  1 .. Len(file.lines) \subseteq 1 .. Len(file'.lines)
<1>1. CASE ~file.open
  BY <1>1 DEF WriteBatchLocked
<1>2. CASE file.open
  <2>1. file.lines \in Seq(Entries)
    BY DEF LogTypes, Files
  <2>2. file'.lines = Behind(file.lines, b, by)
    BY <1>2 DEF WriteBatchLocked, Behind, LogTypes, Files
  <2>3. Len(file'.lines) = Len(file.lines) + Len(b) /\ Len(b) \in Nat /\ Len(file.lines) \in Nat
    BY <2>1, <2>2, Concatenated
  <2> QED
    BY <2>3
<1> QED
  BY <1>1, <1>2

(* No step takes back a line of this process once it is in the file: the log  *)
(* is started afresh at the first opening only, and then holds nothing of     *)
(* this process (OpenLogFileUnlocked).                                        *)
THEOREM LinesKept == LoggerSpec => KeepsItsLines
<1> DEFINE Keeps == \A i \in DOMAIN file.lines : file.lines[i].line # 0 => i \in DOMAIN file'.lines
<1>1. ASSUME LogInv, [LoggerNext]_loggerVars PROVE [Keeps]_file
  <2>1. DOMAIN file.lines = 1 .. Len(file.lines)
    BY <1>1 DEF LogInv, LogTypes, Files
  <2>2. DOMAIN file'.lines = 1 .. Len(file'.lines)
    BY <1>1, NextLogInv DEF LogInv, LogTypes, Files
  <2>3. CASE file'.lines = file.lines
    BY <2>3
  <2>4. CASE WriterWrites
    <3>1. WriteBatchLocked(writer.batch, "writer") /\ writer.batch \in Seq(Nat)
      BY <1>1, <2>4 DEF WriterWrites, LogInv, LogTypes
    <3> QED
      BY <1>1, <2>1, <2>2, <3>1, WritingKeeps DEF LogInv, Writers
  <2>5. CASE \E t \in Crashers : FlushWrites(t)
    <3>1. WriteBatchLocked(flush, "flush") /\ flush \in Seq(Nat)
      BY <1>1, <2>5 DEF FlushWrites, LogInv, LogTypes
    <3> QED
      BY <1>1, <2>1, <2>2, <3>1, WritingKeeps DEF LogInv, Writers
  <2>6. CASE SetFileLoggingEnabled
    <3>1. file'.lines = file.lines \/ ~file.primed
      <4>1. file \in Files
        BY <1>1 DEF LogInv, LogTypes
      <4>2. CASE file.enabled
        BY <2>6, <4>1, <4>2 DEF SetFileLoggingEnabled, Files
      <4>3. CASE ~file.enabled
        <5>1. PICK f \in OpenLogFileUnlocked : file' = [f EXCEPT !.enabled = TRUE]
          BY <2>6, <4>3 DEF SetFileLoggingEnabled
        <5>2. f \in Files /\ (f.lines = file.lines \/ ~file.primed)
          <6> DEFINE kept == IF file.primed THEN file.lines ELSE <<>>
                     g == [file EXCEPT !.open = TRUE, !.primed = TRUE, !.lines = kept]
          <6>1. f = g \/ f = file
            BY <5>1 DEF OpenLogFileUnlocked
          <6>2. kept \in Seq(Entries) /\ (kept = file.lines \/ ~file.primed)
            BY <4>1 DEF Files
          <6> HIDE DEF kept
          <6>3. g \in Files /\ g.lines = kept
            BY <4>1, <6>2 DEF Files
          <6> QED
            BY <4>1, <6>1, <6>2, <6>3
        <5>3. file'.lines = f.lines
          BY <5>1, <5>2 DEF Files
        <5> QED
          BY <5>2, <5>3
      <4> QED
        BY <4>2, <4>3
    <3>2. ~file.primed => \A i \in DOMAIN file.lines : file.lines[i].line = 0
      BY <1>1, <2>1 DEF LogInv, LinesInv, FirstOpening, Written
    <3> QED
      BY <2>3, <3>1, <3>2
  <2>7. CASE ShutdownCloses
    BY <1>1, <2>3, <2>7 DEF ShutdownCloses, LogInv, LogTypes, Files
  <2>8. CASE UNCHANGED file
    BY <2>8
  <2>9. UNCHANGED file \/ WriterWrites \/ SetFileLoggingEnabled \/ ShutdownCloses
        \/ \E t \in Crashers : FlushWrites(t)
    BY <1>1 DEF LoggerNext, loggerVars, Log, Writer, WriterTests, WriterSleeps, WriterReadsStop,
       WriterDrains, ShutdownLogger, Crash, UnhandledException, WriteCrashArtifacts, ReportLogs,
       FlushTakes, RearmCrashArtifacts
  <2> QED
    BY <2>4, <2>5, <2>6, <2>7, <2>8, <2>9
<1> QED
  BY InitLogInv, NextLogInv, <1>1, PTL DEF LoggerSpec, KeepsItsLines
================================================================================
