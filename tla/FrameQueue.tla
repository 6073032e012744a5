----------------------------- MODULE FrameQueue -----------------------------
(***************************************************************************)
(* What one direction of the mod-interop channel promises the palette code *)
(* (overlay_ipc.h): frames come out whole, once and in the order they went *)
(* in; a frame is refused exactly when Capacity of them are waiting; a     *)
(* frame larger than the reader's buffer is dropped whole.                 *)
(* docs/HOW_IT_WORKS.md, "Mod-interop channel", says the same in words.    *)
(***************************************************************************)
EXTENDS Naturals, Sequences

CONSTANTS
    Frames,     \* the frames a writer can queue
    Oversized,  \* those longer than the reader's buffer
    Capacity,   \* frames that can wait at once
    NoFrame     \* what Pop returns when it has nothing to hand over

VARIABLES
    queue,      \* frames queued and not yet taken
    accepted,   \* what the last Push returned
    taken       \* what the last Pop returned

qvars == <<queue, accepted, taken>>

QInit == queue = << >> /\ accepted = TRUE /\ taken = NoFrame

\* Push returning true.
Enqueue(f) ==
    /\ Len(queue) < Capacity
    /\ queue' = Append(queue, f)
    /\ accepted' = TRUE
    /\ UNCHANGED taken

\* Push returning false: the frame is lost, nothing else changes.
Refuse ==
    /\ Len(queue) = Capacity
    /\ accepted' = FALSE
    /\ UNCHANGED <<queue, taken>>

\* Pop advancing the queue; the oversized frame is dropped and reads as empty.
Dequeue ==
    /\ queue # << >>
    /\ queue' = Tail(queue)
    /\ taken' = IF Head(queue) \in Oversized THEN NoFrame ELSE Head(queue)
    /\ UNCHANGED accepted

\* Pop returning 0 on an empty queue.
FoundEmpty ==
    /\ queue = << >>
    /\ taken' = NoFrame
    /\ UNCHANGED <<queue, accepted>>

QNext == (\E f \in Frames : Enqueue(f)) \/ Refuse \/ Dequeue \/ FoundEmpty

QSpec == QInit /\ [][QNext]_qvars
=============================================================================
