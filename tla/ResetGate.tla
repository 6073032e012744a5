----------------------------- MODULE ResetGate -----------------------------
(***************************************************************************)
(* The cooperative reset of a Direct3D device: EfzOverlayResetGate         *)
(* (overlay_reset_gate.h), the two callbacks a display manager invokes     *)
(* around a device Reset and the overlay's rendering, backend binding and  *)
(* suspension (debug_overlay.cpp).                                         *)
(*                                                                         *)
(* The gate is a try-lock: a call that finds it held returns Busy and      *)
(* changes nothing, so callbacks and suspension are single steps that need *)
(* the gate free; a render holds it from RenderBegin to RenderEnd. Calls   *)
(* come from any thread with any device and epoch. A refused call, a ready *)
(* notification whose device objects cannot be recreated and a not-ready   *)
(* notification leave every variable as it was and are not steps.          *)
(***************************************************************************)
EXTENDS Naturals

CONSTANTS
    Devices, Threads,
    None,       \* null device, thread 0
    EpochSpace  \* 2^32

ASSUME SpaceAssumption == EpochSpace \in Nat \ {0, 1}
ASSUME NoneAssumption == None \notin Devices /\ None \notin Threads

VARIABLES
    bound, owner,       \* boundDevice_, ownerThread_
    phase, resetDevice, resetThread, epoch,
    context,            \* g_imguiPhase
    contextThread,      \* g_contextThread
    device,             \* g_device
    objects,            \* device on which the backend's objects are alive
    drawing, drawer,    \* device and thread of the render holding the gate
    ackEpoch, ackThread \* per device: newest beforeReset that returned S_OK
                        \* and was not completed yet (0, None: nothing)

reset == <<phase, resetDevice, resetThread, epoch>>
backend == <<bound, owner, context, contextThread, device, objects>>
ack == <<ackEpoch, ackThread>>
vars == <<bound, owner, phase, resetDevice, resetThread, epoch, context, contextThread,
          device, objects, drawing, drawer, ackEpoch, ackThread>>

Epochs == 0 .. EpochSpace - 1

Init ==
    /\ bound = None /\ owner = None
    /\ phase = "Idle" /\ resetDevice = None /\ resetThread = None /\ epoch = 0
    /\ context = "Dormant" /\ contextThread = None /\ device = None /\ objects = None
    /\ drawing = None /\ drawer = None
    /\ ackEpoch = [d \in Devices |-> 0] /\ ackThread = [d \in Devices |-> None]

\* EfzOverlayResetGate::Access can be acquired.
Free == drawer = None

IsResetPending == phase # "Idle"

CanRender(d, t) ==
    /\ ~(IsResetPending /\ resetDevice = d)
    /\ bound = None \/ owner = t

-----------------------------------------------------------------------------
(* Callbacks *)

\* Serial-number order of epochs: e lies in the half before current.
Older(e, current) ==
    e # current /\ (e + EpochSpace - current) % EpochSpace >= EpochSpace \div 2

\* Faulty variant: an older transaction takes over the pending one.
NotStaleUnchecked(e) == TRUE

\* "A stale BeforeReset must never authorize a stale completion."
NotStale(e) == ~Older(e, epoch)

\* The early returns of EfzOverlayResetGate::BeforeReset are passed.
AcceptsBefore(d, e, t) ==
    /\ e # 0
    /\ bound = d => owner = t
    /\ IsResetPending => resetDevice = d /\ resetThread = t /\ NotStale(e)

\* Faulty variant: whatever backend is bound is invalidated.
NeedsInvalidationAny(d) == bound # None /\ phase # "BackendInvalidated"

NeedsInvalidation(d) == bound = d /\ phase # "BackendInvalidated"

\* Only with a context can the backend be asked to let go of its objects.
Invalidates(d) == NeedsInvalidation(d) /\ context # "Dormant"

BeforeOverlayReset(d, e, t) ==
    /\ Free
    /\ AcceptsBefore(d, e, t)
    /\ resetDevice' = d /\ resetThread' = t /\ epoch' = e
    /\ phase' = CASE Invalidates(d) -> "BackendInvalidated"
                  [] ~Invalidates(d) /\ phase = "Idle" -> "Pending"
                  [] OTHER -> phase
    /\ objects' = IF Invalidates(d) THEN None ELSE objects
    /\ IF NeedsInvalidation(d) => Invalidates(d)
       THEN /\ ackEpoch' = [ackEpoch EXCEPT ![d] =
                   IF @ # 0 /\ Older(e, @) THEN @ ELSE e]
            /\ ackThread' = [ackThread EXCEPT ![d] = t]
       ELSE UNCHANGED ack
    /\ UNCHANGED <<bound, owner, context, contextThread, device, drawing, drawer>>

\* EfzOverlayResetGate::AfterReset lets a ready notification through.
AcceptsAfter(d, e, t) ==
    /\ IsResetPending /\ resetDevice = d /\ epoch = e /\ resetThread = t
    /\ bound = d => owner = t /\ phase = "BackendInvalidated" /\ context # "Dormant"

\* Faulty variant: the device of the finished transaction is not forgotten.
ClearResetKeepsDevice ==
    phase' = "Idle" /\ resetThread' = None /\ epoch' = 0 /\ UNCHANGED resetDevice

ClearReset == phase' = "Idle" /\ resetDevice' = None /\ resetThread' = None /\ epoch' = 0

\* A ready notification that recreates the objects, if any, and reopens.
AfterOverlayReset(d, e, t) ==
    /\ Free
    /\ AcceptsAfter(d, e, t)
    /\ ClearReset
    /\ objects' = IF bound = d THEN d ELSE objects
    /\ IF ackEpoch[d] = e
       THEN /\ ackEpoch' = [ackEpoch EXCEPT ![d] = 0]
            /\ ackThread' = [ackThread EXCEPT ![d] = None]
       ELSE UNCHANGED ack
    /\ UNCHANGED <<bound, owner, context, contextThread, device, drawing, drawer>>

-----------------------------------------------------------------------------
(* Rendering *)

\* DeviceRenderScope admits the frame.
RenderBegin(d, t) ==
    /\ Free
    /\ CanRender(d, t)
    /\ context # "Dormant" => contextThread = t
    /\ drawing' = d /\ drawer' = t
    /\ UNCHANGED <<backend, reset, ack>>

\* Faulty variant: a backend that goes away takes the pending reset with it.
DropInvalidationAndReset == ClearReset

\* UnbindBackend: "must not clear the game-device reset gate".
DropInvalidation ==
    /\ phase' = IF phase = "BackendInvalidated" THEN "Pending" ELSE phase
    /\ UNCHANGED <<resetDevice, resetThread, epoch>>

Bind(d, t) == bound' = d /\ owner' = t /\ device' = d /\ context' = "Ready"
Unbind == bound' = None /\ owner' = None /\ device' = None

\* EnsureInited with a context on another device and the same window; the new
\* backend may fail to initialise.
Rebind ==
    /\ ~Free /\ CanRender(drawing, drawer)
    /\ context # "Dormant" /\ device # drawing
    /\ objects' = None
    /\ DropInvalidation
    /\ \/ Bind(drawing, drawer)
       \/ Unbind /\ context' = "AwaitingDevice"
    /\ UNCHANGED <<contextThread, drawing, drawer, ack>>

\* EnsureInited without a context, or with one for another window, which is
\* shut down first; creating the new one may fail.
Initialise ==
    /\ ~Free /\ CanRender(drawing, drawer)
    /\ context = "Dormant" \/ device # drawing
    /\ objects' = None
    /\ IF context = "Dormant" THEN UNCHANGED reset ELSE DropInvalidation
    /\ \/ Bind(drawing, drawer) /\ contextThread' = drawer
       \/ Unbind /\ context' = "Dormant" /\ contextThread' = None
    /\ UNCHANGED <<drawing, drawer, ack>>

\* ImGui_ImplDX9_NewFrame creates missing objects.
Draw ==
    /\ ~Free /\ CanRender(drawing, drawer)
    /\ context # "Dormant" /\ device = drawing
    /\ objects' = drawing
    /\ UNCHANGED <<bound, owner, context, contextThread, device, reset, drawing, drawer, ack>>

RenderEnd ==
    /\ ~Free
    /\ drawing' = None /\ drawer' = None
    /\ UNCHANGED <<backend, reset, ack>>

\* SuspendForOnlineSimulation, ShutdownImGui
Suspend(t) ==
    /\ Free
    /\ context # "Dormant" /\ contextThread = t
    /\ objects' = None
    /\ DropInvalidation
    /\ Unbind /\ context' = "Dormant" /\ contextThread' = None
    /\ UNCHANGED <<drawing, drawer, ack>>

Next ==
    \/ \E d \in Devices, e \in Epochs, t \in Threads :
            BeforeOverlayReset(d, e, t) \/ AfterOverlayReset(d, e, t)
    \/ \E d \in Devices, t \in Threads : RenderBegin(d, t)
    \/ Rebind \/ Initialise \/ Draw \/ RenderEnd
    \/ \E t \in Threads : Suspend(t)

Spec == Init /\ [][Next]_vars

-----------------------------------------------------------------------------
(* Types; the fields of a transaction are set and cleared together. *)
TypeOK ==
    /\ bound \in Devices \cup {None} /\ owner \in Threads \cup {None}
    /\ phase \in {"Idle", "Pending", "BackendInvalidated"}
    /\ resetDevice \in Devices \cup {None} /\ resetThread \in Threads \cup {None}
    /\ epoch \in Epochs
    /\ context \in {"Dormant", "Ready", "AwaitingDevice"}
    /\ contextThread \in Threads \cup {None}
    /\ device \in Devices \cup {None} /\ objects \in Devices \cup {None}
    /\ drawing \in Devices \cup {None} /\ drawer \in Threads \cup {None}
    /\ ackEpoch \in [Devices -> Epochs] /\ ackThread \in [Devices -> Threads \cup {None}]
    /\ IsResetPending <=> resetDevice # None
    /\ IsResetPending <=> epoch # 0

(***************************************************************************)
(* A device whose reset was acknowledged stays quiet until the ready       *)
(* notification of its newest transaction: no overlay object lives on it   *)
(* and nothing renders to it, whatever rebinding, suspension or stale call *)
(* comes in between (displaymanager-reset-contract.md, 1 to 3).            *)
(***************************************************************************)
Quiesced ==
    \A d \in Devices : ackEpoch[d] # 0 => objects # d /\ drawing # d

(***************************************************************************)
(* No gate stays shut for good: the caller whose reset was acknowledged    *)
(* can always complete it with its device, epoch and thread, and is not    *)
(* told Busy, wrong thread or unexpected once the gate is free.            *)
(***************************************************************************)
CompletionAccepted ==
    \A d \in Devices : ackEpoch[d] # 0 => AcceptsAfter(d, ackEpoch[d], ackThread[d])

(* While its backend stays bound a device only loses its objects to a reset
   of that very device (contract, 5: "A separate host/device never has its
   resources invalidated merely because the game resets"). *)
OnlyTargetInvalidated ==
    [][objects # None /\ objects' = None /\ bound' = bound /\ bound # None
        => ackEpoch'[objects] # 0]_vars

(* The binding is the context's: same device, same thread. *)
BoundInv ==
    bound # None => /\ context = "Ready" /\ device = bound
                    /\ owner = contextThread /\ owner # None

ObjectsInv == objects # None => objects = bound

(* The pending transaction is the acknowledged one, and a backend bound to
   its device has let go of its objects. *)
PendingInv ==
    /\ \A d \in Devices : ackEpoch[d] # 0 <=> (IsResetPending /\ resetDevice = d)
    /\ IsResetPending => /\ ackEpoch[resetDevice] = epoch
                         /\ ackThread[resetDevice] = resetThread
                         /\ bound = resetDevice =>
                                /\ owner = resetThread /\ objects = None
                                /\ phase = "BackendInvalidated"

(* The render holding the gate is on a device that is not being reset, by the
   context's thread; a bound device is the context's. *)
DrawingInv ==
    /\ drawing = None <=> drawer = None
    /\ drawing # None => /\ ~(IsResetPending /\ resetDevice = drawing)
                         /\ context # "Dormant" => contextThread = drawer
    /\ device = bound
    /\ context = "Dormant" => bound = None

(* The inductive invariant behind Quiesced and CompletionAccepted. *)
GateInv == TypeOK /\ BoundInv /\ ObjectsInv /\ PendingInv /\ DrawingInv

(* The gate keeps its types, a device being reset is quiet, and its         *)
(* completion is accepted.                                                  *)
GateSafe == TypeOK /\ Quiesced /\ CompletionAccepted
=============================================================================
