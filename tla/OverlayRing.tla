---------------------------- MODULE OverlayRing ----------------------------
(***************************************************************************)
(* One ring of the overlay IPC block (overlay_ipc.cpp Push and Pop): the   *)
(* writer and the reader live in two processes and share head, tail and    *)
(* the slots without a lock. Each access to the shared block is a step of  *)
(* its own. The helper's network threads are serialised by its g_cs and    *)
(* the game's calls all come from the game thread, so each ring has one    *)
(* writer and one reader; either process may die between two steps (the    *)
(* helper does at every teardown) and be replaced by one that starts over. *)
(*                                                                         *)
(* The indexes are unsigned integers that wrap at Width (2^32 in the       *)
(* build) and are masked to a slot only when used.                         *)
(***************************************************************************)
EXTENDS Integers, Sequences

CONSTANTS
    Frames,     \* the frames a writer can queue
    Oversized,  \* those longer than the reader's buffer
    NoFrame,    \* a zeroed slot, or a Pop that returns 0
    Slots,      \* kRingSlots
    Laps        \* Width / Slots

ASSUME SlotsAssumption == Slots \in Nat \ {0, 1}
ASSUME LapsAssumption == Laps \in Nat \ {0}
ASSUME FramesAssumption == Oversized \subseteq Frames /\ NoFrame \notin Frames

VARIABLES
    head, tail,     \* the ring's indexes, as stored
    data, len,      \* per slot: whose bytes and whose length it holds
    wpc, wframe, whead,         \* Push: step, argument, its copy of head
    rpc, rlen, rdata, rtail,    \* Pop: step, what it has copied, its tail
    accepted, taken             \* last results of Push and Pop

writer == <<wpc, wframe, whead>>
reader == <<rpc, rlen, rdata, rtail>>
vars == <<head, tail, data, len, wpc, wframe, whead, rpc, rlen, rdata, rtail,
          accepted, taken>>

Width == Slots * Laps

\* x & kRingMask
Mask(x) == x % Slots

\* Faulty variant: an index that never wraps.
IncUnwrapped(x) == x + 1

\* ++x on a stored index
Inc(x) == (x + 1) % Width

SlotIds == 0 .. Slots - 1

(* The block is zeroed when it is created, and never again: a helper that
   attaches later finds the indexes and the slots as the last one left them. *)
Init ==
    /\ head = 0 /\ tail = 0
    /\ data = [s \in SlotIds |-> NoFrame]
    /\ len = [s \in SlotIds |-> NoFrame]
    /\ wpc = "idle" /\ wframe = NoFrame /\ whead = 0
    /\ rpc = "idle" /\ rlen = NoFrame /\ rdata = NoFrame /\ rtail = 0
    /\ accepted = TRUE /\ taken = NoFrame

-----------------------------------------------------------------------------
(* Push. The argument checks (no data, length 0 or above kSlotBytes) are not
   modelled: both callers check their frames before. *)

\* Faulty variant: no slot left open, a full ring looks empty to Pop.
FullAtSlots(h, t) == Mask(h) = Mask(t) /\ h # t

\* One slot stays open so that equal indexes always mean empty.
Full(h, t) == Mask(h + 1) = Mask(t)

\* Push's early return on a full ring.
PushFull ==
    /\ wpc = "idle"
    /\ Full(head, tail)
    /\ accepted' = FALSE
    /\ UNCHANGED <<head, tail, data, len, writer, reader, taken>>

PushBegin(f) ==
    /\ wpc = "idle"
    /\ ~Full(head, tail)
    /\ wpc' = "bytes" /\ wframe' = f /\ whead' = head
    /\ UNCHANGED <<head, tail, data, len, reader, accepted, taken>>

\* Faulty variant: the index moves before the slot is complete.
PushBytesPublishes ==
    /\ wpc = "bytes"
    /\ head' = Inc(whead)
    /\ data' = [data EXCEPT ![Mask(whead)] = wframe]
    /\ wpc' = "len"
    /\ UNCHANGED <<tail, len, wframe, whead, reader, accepted, taken>>

PushBytes ==
    /\ wpc = "bytes"
    /\ data' = [data EXCEPT ![Mask(whead)] = wframe]
    /\ wpc' = "len"
    /\ UNCHANGED <<head, tail, len, wframe, whead, reader, accepted, taken>>

PushLen ==
    /\ wpc = "len"
    /\ len' = [len EXCEPT ![Mask(whead)] = wframe]
    /\ wpc' = "index"
    /\ UNCHANGED <<head, tail, data, wframe, whead, reader, accepted, taken>>

PushIndex ==
    /\ wpc = "index"
    /\ head' = Inc(whead)
    /\ wpc' = "idle" /\ wframe' = NoFrame /\ whead' = 0
    /\ accepted' = TRUE
    /\ UNCHANGED <<tail, data, len, reader, taken>>

-----------------------------------------------------------------------------
(* Pop *)

Empty(h, t) == Mask(t) = Mask(h)

\* Pop's early return on an empty ring.
PopEmpty ==
    /\ rpc = "idle"
    /\ Empty(head, tail)
    /\ taken' = NoFrame
    /\ UNCHANGED <<head, tail, data, len, writer, reader, accepted>>

PopBegin ==
    /\ rpc = "idle"
    /\ ~Empty(head, tail)
    /\ rtail' = tail
    /\ rpc' = "len"
    /\ UNCHANGED <<head, tail, data, len, writer, rlen, rdata, accepted, taken>>

PopLen ==
    /\ rpc = "len"
    /\ rlen' = len[Mask(rtail)]
    /\ rpc' = "bytes"
    /\ UNCHANGED <<head, tail, data, len, writer, rdata, rtail, accepted, taken>>

\* A length that is zero or exceeds the buffer: the frame is skipped.
Unreadable(l) == l = NoFrame \/ l \in Oversized

PopBytes ==
    /\ rpc = "bytes"
    /\ rdata' = IF Unreadable(rlen) THEN NoFrame ELSE data[Mask(rtail)]
    /\ rpc' = "index"
    /\ UNCHANGED <<head, tail, data, len, writer, rlen, rtail, accepted, taken>>

PopIndex ==
    /\ rpc = "index"
    /\ tail' = Inc(rtail)
    /\ taken' = rdata
    /\ rpc' = "idle" /\ rlen' = NoFrame /\ rdata' = NoFrame /\ rtail' = 0
    /\ UNCHANGED <<head, data, len, writer, accepted>>

-----------------------------------------------------------------------------
(* The process at one end dies between two steps; its successor attaches to
   the same block, whose contents nobody resets. *)

WriterDies ==
    /\ wpc # "idle"
    /\ wpc' = "idle" /\ wframe' = NoFrame /\ whead' = 0
    /\ UNCHANGED <<head, tail, data, len, reader, accepted, taken>>

ReaderDies ==
    /\ rpc # "idle"
    /\ rpc' = "idle" /\ rlen' = NoFrame /\ rdata' = NoFrame /\ rtail' = 0
    /\ UNCHANGED <<head, tail, data, len, writer, accepted, taken>>

Push == PushFull \/ (\E f \in Frames : PushBegin(f)) \/ PushBytes \/ PushLen \/ PushIndex

Pop == PopEmpty \/ PopBegin \/ PopLen \/ PopBytes \/ PopIndex

Next == Push \/ Pop \/ WriterDies \/ ReaderDies

Spec == Init /\ [][Next]_vars

-----------------------------------------------------------------------------
(* The waiting frames, oldest first. *)

\* How many slots lie from slot t up to slot h.
Distance(t, h) == IF h >= t THEN h - t ELSE h + Slots - t

Waiting == Distance(Mask(tail), Mask(head))

\* The slot k places after slot s.
After(s, k) == IF s + k < Slots THEN s + k ELSE s + k - Slots

Contents == [k \in 1 .. Waiting |-> data[After(Mask(tail), k - 1)]]

Queue == INSTANCE FrameQueue
            WITH Capacity <- Slots - 1, queue <- Contents

(* Types of the ring's memory and of the two processes' locals. *)
TypeOK ==
    /\ head \in 0 .. Width - 1 /\ tail \in 0 .. Width - 1
    /\ data \in [SlotIds -> Frames \cup {NoFrame}]
    /\ len \in [SlotIds -> Frames \cup {NoFrame}]
    /\ wpc \in {"idle", "bytes", "len", "index"}
    /\ rpc \in {"idle", "len", "bytes", "index"}
    /\ wframe \in Frames \cup {NoFrame} /\ whead \in 0 .. Width - 1
    /\ rlen \in Frames \cup {NoFrame} /\ rdata \in Frames \cup {NoFrame}
    /\ rtail \in 0 .. Width - 1
    /\ accepted \in BOOLEAN /\ taken \in Frames \cup {NoFrame}

(***************************************************************************)
(* Every waiting slot is whole: bytes and length are of the same frame.    *)
(* overlay_ipc.h: "publish slot bytes before advancing the index".         *)
(***************************************************************************)
WaitingWhole ==
    \A k \in 0 .. Waiting - 1 :
        LET s == After(Mask(tail), k) IN data[s] \in Frames /\ len[s] = data[s]

(* The writer's locals: the slot it fills is the open one at head, and what
   it has written so far is there. *)
WriterInv ==
    wpc # "idle" =>
        /\ wframe \in Frames
        /\ whead = head
        /\ Waiting < Slots - 1
        /\ wpc \in {"len", "index"} => data[Mask(head)] = wframe
        /\ wpc = "index" => len[Mask(head)] = wframe

(* The reader's locals: it holds the oldest waiting frame, whole. *)
ReaderInv ==
    rpc # "idle" =>
        /\ rtail = tail
        /\ Waiting > 0
        /\ rpc \in {"bytes", "index"} => rlen = len[Mask(tail)]
        /\ rpc = "index" =>
            rdata = IF Unreadable(rlen) THEN NoFrame ELSE data[Mask(tail)]

(* The inductive invariant behind the refinement. *)
RingInv == TypeOK /\ WaitingWhole /\ WriterInv /\ ReaderInv

(***************************************************************************)
(* The lock-free ring implements the queue: whole frames, in order, no     *)
(* duplicate, refused only when Slots - 1 wait, over any interleaving of   *)
(* Push and Pop, across index wrap-around and process deaths.              *)
(***************************************************************************)
RefinesQueue == Queue!QSpec

(* The ring keeps its types and every waiting slot is whole.                *)
RingSafe == TypeOK /\ WaitingWhole
=============================================================================
