------------------------------ MODULE ConsoleProofs ------------------------------
(***************************************************************************)
(* Proofs about the helper's console: its ring and worker (ConsoleIngress, *)
(* first part), the mailbox its listener lines are published in            *)
(* (ListenerMailbox, second part) and the questions answered through it    *)
(* (Prompts, third part).                                                  *)
(***************************************************************************)
EXTENDS ConsoleIngress, ListenerMailbox, Prompts, SequenceTheorems, TLAPS

(***************************************************************************)
(* Proofs about ConsoleIngress, for any threads, any length of a line and  *)
(* any ring of at least two slots.                                         *)
(*                                                                         *)
(* The invariant has three parts.  RingInv says what every position of the *)
(* window of the ring holds and whose it is.  TextInv says that the next   *)
(* unread record of a thread continues the unfinished line the worker has  *)
(* of it, unless the record carries a later loss generation, in which case *)
(* the worker discards the line first.  FlushInv says that the entry a     *)
(* flush waits for lies behind every record of the flushing thread.        *)
(***************************************************************************)

USE CapacityAssumption, LineAssumption, ThreadsAssumption

Ids == 0..(Capacity - 1)
SlotType == [seq : Nat, t : Threads \cup {Stopper}, k : 0..LineLength, gen : Nat]
Places == {"idle", "check", "claim", "stamp", "publish", "flush", "wait", "flushed",
           "pause", "drain", "join"}
Entries == [kind : {"flush", "close"}, at : Nat, gen : Nat, seq : Nat]

SeqAt(p) == slots[Index(p)].seq
OwnerAt(p) == slots[Index(p)].t
ChunkAt(p) == slots[Index(p)].k
GenAt(p) == slots[Index(p)].gen

\* Thread t owns the slot of a position it fills.
Fills(t) == pc[t].at \in {"stamp", "publish"}

\* Position p holds a record of thread t: published, or about to be.
Rec(t, p) ==
  /\ p \in Nat /\ deq <= p /\ p < enq
  /\ OwnerAt(p) = t
  /\ SeqAt(p) = p + 1 \/ (pc[t].at = "publish" /\ pc[t].pos = p)

---------------------------------------------------------------------------
(* The inductive invariant. *)

Types ==
  /\ slots \in [Ids -> SlotType]
  /\ deq \in Nat /\ enq \in Nat /\ deq <= enq /\ enq <= deq + Capacity
  /\ lossGen \in Nat
  /\ pc \in [Threads \cup {Stopper} -> [at : Places, pos : Nat]]
  /\ chunk \in [Threads -> 1..LineLength]
  /\ active \subseteq Threads

RingInv ==
  /\ \A p \in Nat : deq <= p /\ p < deq + Capacity =>
       SeqAt(p) = IF p >= enq \/ (\E t \in Threads : Fills(t) /\ pc[t].pos = p) THEN p ELSE p + 1
  /\ \A t \in Threads : Fills(t) => deq <= pc[t].pos /\ pc[t].pos < enq
  /\ \A t, u \in Threads : Fills(t) /\ Fills(u) /\ pc[t].pos = pc[u].pos => t = u
  /\ \A t \in Threads : pc[t].at = "claim" =>
       pc[t].pos <= enq /\ (pc[t].pos = enq => enq < deq + Capacity)
  /\ \A t \in Threads : pc[t].at = "publish" =>
       OwnerAt(pc[t].pos) = t /\ ChunkAt(pc[t].pos) = chunk[t]
  /\ \A t \in Threads, p \in Nat : Rec(t, p) => ChunkAt(p) >= 1 /\ GenAt(p) <= lossGen
  /\ \A p \in Nat : deq <= p /\ p < enq /\ SeqAt(p) = p + 1 => OwnerAt(p) \in Threads

Following(k) == IF k = LineLength THEN 1 ELSE k + 1
Unfinished(t) == pending[t] # <<>>
Last(s) == s[Len(s)]
Rising(s) == \A i \in 1..(Len(s) - 1) : s[i + 1] = s[i] + 1

\* Record p of thread t is the first, or the last, of its records in the
\* ring, or the one that comes after record q.
FirstRec(t, p) == Rec(t, p) /\ \A r \in Nat : r < p => ~Rec(t, r)
LastRec(t, p) == Rec(t, p) /\ \A r \in Nat : p < r => ~Rec(t, r)
NextRec(t, q, p) == Rec(t, q) /\ Rec(t, p) /\ q < p /\ \A r \in Nat : q < r /\ r < p => ~Rec(t, r)

TextTypes ==
  /\ pending \in [Threads -> Seq(Nat)] /\ line \in Seq(Nat)
  /\ seenGen \in Nat /\ seenGen <= lossGen

LinesRise ==
  /\ Rising(line)
  /\ \A t \in Threads : Rising(pending[t]) /\ (Unfinished(t) => Last(pending[t]) < LineLength)

NothingAhead == \A t \in Threads, p \in Nat : Fills(t) /\ pc[t].pos < p => ~Rec(t, p)

RecordsFollow == \A t \in Threads, q, p \in Nat :
  NextRec(t, q, p) => GenAt(q) < GenAt(p) \/ ChunkAt(p) = Following(ChunkAt(q))

FirstContinues == \A t \in Threads, p \in Nat :
  FirstRec(t, p) /\ Unfinished(t) => seenGen < GenAt(p) \/ ChunkAt(p) = Last(pending[t]) + 1

LastContinued == \A t \in Threads, q \in Nat :
  LastRec(t, q) /\ pc[t].at # "publish" => GenAt(q) < lossGen \/ chunk[t] = Following(ChunkAt(q))

NextContinues == \A t \in Threads :
  (\A p \in Nat : ~Rec(t, p)) /\ Unfinished(t) => seenGen < lossGen \/ chunk[t] = Last(pending[t]) + 1

TextInv ==
  /\ TextTypes /\ LinesRise
  /\ NothingAhead /\ RecordsFollow /\ FirstContinues /\ LastContinued /\ NextContinues

QueueInv ==
  /\ queue \in Seq(Entries) /\ queued \in Nat /\ done \in Nat /\ done <= queued
  /\ \A i \in 1..Len(queue) : queue[i].at <= enq /\ queue[i].gen <= lossGen
  /\ worker \in {"Stopped", "Running", "Draining", "Stopping"}
  /\ worker = "Stopped" => queue = <<>> /\ ~running
  /\ worker # "Stopped" =>
       Len(queue) = queued - done /\ \A i \in 1..Len(queue) : queue[i].seq = done + i

FlushHolds == \A t \in Threads : pc[t].at = "flush" => mutex = t /\ worker = "Running"

WaitsBehind == \A t \in Threads : pc[t].at = "wait" =>
  /\ 1 <= pc[t].pos /\ pc[t].pos <= queued
  /\ pc[t].pos <= done => \A p \in Nat : ~Rec(t, p)
  /\ done < pc[t].pos /\ worker # "Stopped" =>
       \A p \in Nat : Rec(t, p) => p < queue[pc[t].pos - done].at

FlushedClean == \A t \in Threads : pc[t].at = "flushed" => \A p \in Nat : ~Rec(t, p)

StopperInv ==
  /\ pc[Stopper].at \in {"idle", "pause", "drain", "join"}
  /\ pc[Stopper].at = "pause" => mutex = Stopper /\ worker # "Stopped"
  /\ pc[Stopper].at \in {"drain", "join"} => worker # "Stopped" /\ 1 <= queued

NotStarted == worker = "Stopped" /\ queued = 0 =>
  /\ enq = 0 /\ deq = 0 /\ ~accepting
  /\ \A t \in Threads : pc[t].at \notin {"claim", "stamp", "publish"} /\ pending[t] = <<>>

FlushInv == FlushHolds /\ WaitsBehind /\ FlushedClean /\ StopperInv /\ NotStarted

IInv == Types /\ RingInv /\ TextInv /\ QueueInv /\ FlushInv

---------------------------------------------------------------------------
(* Positions and slots: the positions of a window have slots of their own. *)

LEMMA IndexType == ASSUME NEW p \in Nat PROVE Index(p) \in Ids
BY DEF Index, Ids

LEMMA IndexUnique ==
  ASSUME NEW p \in Nat, NEW q \in Nat, Index(p) = Index(q), p <= q, q < p + Capacity
  PROVE  p = q
<1> DEFINE a == p \div Capacity
           b == q \div Capacity
           r == Index(p)
<1>1. /\ a \in Int /\ b \in Int /\ r \in Int
      /\ p = Capacity * a + r /\ q = Capacity * b + r
  BY DEF Index
<1> HIDE DEF a, b, r
<1>2. Capacity * (b - a) = q - p
  BY <1>1
<1>3. b - a = 0
  BY <1>1, <1>2
<1> QED
  BY <1>1, <1>3

LEMMA IndexWraps == ASSUME NEW p \in Nat PROVE Index(p + Capacity) = Index(p)
<1> DEFINE a == p \div Capacity
           b == (p + Capacity) \div Capacity
           r == Index(p)
           s == Index(p + Capacity)
<1>1. /\ a \in Int /\ b \in Int /\ r \in 0..(Capacity - 1) /\ s \in 0..(Capacity - 1)
      /\ p = Capacity * a + r /\ p + Capacity = Capacity * b + s
  BY DEF Index
<1> HIDE DEF a, b, r, s
<1>2. Capacity * ((b - a) - 1) = r - s
  BY <1>1
<1>3. (b - a) - 1 = 0
  BY <1>1, <1>2
<1>4. r = s
  BY <1>1, <1>2, <1>3
<1> QED
  BY <1>4 DEF r, s

---------------------------------------------------------------------------
(* The ring. *)

Quiet == {"idle", "check", "flush", "wait", "flushed"}

\* Steps that leave the ring alone, and of its writers move only one that
\* fills no slot: no record comes or goes.
RingStays ==
  /\ UNCHANGED <<slots, enq, deq>>
  /\ lossGen' \in Nat /\ lossGen <= lossGen'
  /\ \A t \in Threads :
       \/ pc'[t] = pc[t] /\ chunk'[t] = chunk[t]
       \/ ~Fills(t) /\ pc'[t].at \in Quiet
       \/ ~Fills(t) /\ pc'[t].at = "claim" /\ pc'[t].pos = enq /\ enq < deq + Capacity

RecsStay == \A t \in Threads, p \in Nat :
  /\ Rec(t, p)' <=> Rec(t, p)
  /\ Rec(t, p) => ChunkAt(p)' = ChunkAt(p) /\ GenAt(p)' = GenAt(p)

LEMMA RecsStayWithRing ==
  ASSUME Types, RingStays
  PROVE  RecsStay
<1>1. ASSUME NEW t \in Threads, NEW p \in Nat
      PROVE  (Rec(t, p)' <=> Rec(t, p)) /\ ChunkAt(p)' = ChunkAt(p) /\ GenAt(p)' = GenAt(p)
  BY DEF RingStays, Rec, Fills, Quiet, OwnerAt, SeqAt, ChunkAt, GenAt
<1> QED
  BY <1>1 DEF RecsStay

LEMMA RingInvStays ==
  ASSUME Types, RingInv, RingStays
  PROVE  RingInv'
<1>1. RecsStay
  BY RecsStayWithRing
<1>2. \A t \in Threads : (Fills(t)' <=> Fills(t)) /\ (Fills(t) => pc'[t] = pc[t] /\ chunk'[t] = chunk[t])
  BY DEF RingStays, Fills, Quiet
<1>3. \A p \in Nat : /\ SeqAt(p)' = SeqAt(p) /\ OwnerAt(p)' = OwnerAt(p)
                     /\ ChunkAt(p)' = ChunkAt(p)
  BY DEF RingStays, SeqAt, OwnerAt, ChunkAt
<1>4. (\A p \in Nat : deq <= p /\ p < deq + Capacity =>
         SeqAt(p) = IF p >= enq \/ (\E t \in Threads : Fills(t) /\ pc[t].pos = p) THEN p ELSE p + 1)'
  BY <1>2, <1>3 DEF RingInv, RingStays
<1>5. (\A t \in Threads : Fills(t) => deq <= pc[t].pos /\ pc[t].pos < enq)'
  BY <1>2 DEF RingInv, RingStays
<1>6. (\A t, u \in Threads : Fills(t) /\ Fills(u) /\ pc[t].pos = pc[u].pos => t = u)'
  BY <1>2 DEF RingInv
<1>7. (\A t \in Threads : pc[t].at = "claim" =>
        pc[t].pos <= enq /\ (pc[t].pos = enq => enq < deq + Capacity))'
  <2> SUFFICES ASSUME NEW t \in Threads, pc'[t].at = "claim"
               PROVE  pc'[t].pos <= enq /\ (pc'[t].pos = enq => enq < deq + Capacity)
    BY DEF RingStays
  <2>1. CASE pc'[t] = pc[t]
    BY <2>1 DEF RingInv
  <2>2. CASE pc'[t].pos = enq /\ enq < deq + Capacity
    BY <2>2 DEF Types
  <2> QED
    BY <2>1, <2>2 DEF RingStays, Quiet
<1>8. (\A t \in Threads : pc[t].at = "publish" =>
        OwnerAt(pc[t].pos) = t /\ ChunkAt(pc[t].pos) = chunk[t])'
  <2> SUFFICES ASSUME NEW t \in Threads, pc'[t].at = "publish"
               PROVE  OwnerAt(pc[t].pos)' = t /\ ChunkAt(pc[t].pos)' = chunk'[t]
    OBVIOUS
  <2>1. pc'[t] = pc[t] /\ chunk'[t] = chunk[t] /\ pc[t].pos \in Nat
    BY DEF RingStays, Quiet, Types
  <2> QED
    BY <2>1 DEF RingInv, RingStays, OwnerAt, ChunkAt
<1>9. (\A t \in Threads, p \in Nat : Rec(t, p) => ChunkAt(p) >= 1 /\ GenAt(p) <= lossGen)'
  <2> SUFFICES ASSUME NEW t \in Threads, NEW p \in Nat, Rec(t, p)'
               PROVE  ChunkAt(p)' >= 1 /\ GenAt(p)' <= lossGen'
    OBVIOUS
  <2>1. Rec(t, p) /\ ChunkAt(p)' = ChunkAt(p) /\ GenAt(p)' = GenAt(p)
    BY <1>1 DEF RecsStay
  <2>2. GenAt(p) \in Nat
    BY IndexType DEF Types, GenAt, SlotType
  <2> QED
    BY <2>1, <2>2 DEF RingInv, RingStays, Types
<1>10. (\A p \in Nat : deq <= p /\ p < enq /\ SeqAt(p) = p + 1 => OwnerAt(p) \in Threads)'
  BY <1>3 DEF RingInv, RingStays
<1> QED
  BY <1>4, <1>5, <1>6, <1>7, <1>8, <1>9, <1>10 DEF RingInv

\* A free slot at the end of the ring means that the ring is not full.
LEMMA NotFull ==
  ASSUME Types, RingInv, slots[Index(enq)].seq = enq
  PROVE  enq < deq + Capacity
<1>1. CASE enq = deq + Capacity
  <2>1. Index(enq) = Index(deq)
    BY <1>1, IndexWraps DEF Types
  <2>2. SeqAt(deq) \in {deq, deq + 1}
    BY DEF Types, RingInv
  <2> QED
    BY <1>1, <2>1, <2>2 DEF SeqAt, Types
<1> QED
  BY <1>1 DEF Types

\* The slots of a window are told apart by their positions.
LEMMA OneSlotChanges ==
  ASSUME Types, NEW q \in Nat, deq <= q, q < deq + Capacity, NEW v,
         slots' = [slots EXCEPT ![Index(q)] = v]
  PROVE  /\ SeqAt(q)' = v.seq /\ OwnerAt(q)' = v.t /\ ChunkAt(q)' = v.k /\ GenAt(q)' = v.gen
         /\ \A p \in Nat : deq <= p /\ p < deq + Capacity /\ p # q =>
              /\ SeqAt(p)' = SeqAt(p) /\ OwnerAt(p)' = OwnerAt(p)
              /\ ChunkAt(p)' = ChunkAt(p) /\ GenAt(p)' = GenAt(p)
<1>1. Index(q) \in Ids
  BY IndexType
<1>2. ASSUME NEW p \in Nat, deq <= p, p < deq + Capacity, p # q PROVE Index(p) # Index(q)
  BY <1>2, IndexUnique DEF Types
<1>3. \A p \in Nat : Index(p) \in Ids
  BY IndexType
<1> QED
  BY <1>1, <1>2, <1>3 DEF Types, SeqAt, OwnerAt, ChunkAt, GenAt

LEMMA ClaimKeeps ==
  ASSUME Types, RingInv, NEW t \in Threads, Claim(t), Won(t)
  PROVE  RingInv' /\ RecsStay
<1>1. /\ pc[t].at = "claim" /\ pc[t].pos = enq /\ enq < deq + Capacity
      /\ enq' = enq + 1 /\ pc' = [pc EXCEPT ![t] = [at |-> "stamp", pos |-> enq]]
      /\ UNCHANGED <<slots, deq, lossGen, chunk>>
  BY DEF Claim, Won, At, Goto, RingInv, gens
<1>2. /\ pc'[t].at = "stamp" /\ pc'[t].pos = enq
      /\ \A u \in Threads : u # t => pc'[u] = pc[u]
  BY <1>1 DEF Types
<1>3. /\ Fills(t)' /\ ~Fills(t)
      /\ \A u \in Threads : u # t => (Fills(u)' <=> Fills(u))
  BY <1>1, <1>2 DEF Fills
<1>4. \A p \in Nat : /\ SeqAt(p)' = SeqAt(p) /\ OwnerAt(p)' = OwnerAt(p)
                     /\ ChunkAt(p)' = ChunkAt(p) /\ GenAt(p)' = GenAt(p)
  BY <1>1 DEF SeqAt, OwnerAt, ChunkAt, GenAt
<1>5. deq \in Nat /\ enq \in Nat /\ deq <= enq /\ SeqAt(enq) = enq
  BY <1>1 DEF Types, RingInv
<1>6. ASSUME NEW u \in Threads, NEW p \in Nat PROVE Rec(u, p)' <=> Rec(u, p)
  <2>1. CASE p = enq
    <3>1. ~Rec(u, p)
      BY <2>1 DEF Rec
    <3>2. ~(pc'[u].at = "publish" /\ pc'[u].pos = enq)
      BY <1>2, <1>5 DEF RingInv, Fills
    <3>3. SeqAt(p)' # p + 1
      BY <2>1, <1>4, <1>5
    <3> QED
      BY <2>1, <3>1, <3>2, <3>3 DEF Rec
  <2>2. CASE p # enq
    <3>1. (p < enq') <=> (p < enq)
      BY <1>1, <1>5, <2>2
    <3>2. pc'[u].at = "publish" /\ pc'[u].pos = p <=> pc[u].at = "publish" /\ pc[u].pos = p
      BY <1>1, <1>2
    <3> QED
      BY <1>1, <1>4, <3>1, <3>2 DEF Rec
  <2> QED
    BY <2>1, <2>2
<1>7. RecsStay
  BY <1>4, <1>6 DEF RecsStay
<1>8. (\A p \in Nat : deq <= p /\ p < deq + Capacity =>
         SeqAt(p) = IF p >= enq \/ (\E u \in Threads : Fills(u) /\ pc[u].pos = p) THEN p ELSE p + 1)'
  <2> SUFFICES ASSUME NEW p \in Nat, deq <= p, p < deq + Capacity
               PROVE  SeqAt(p) = IF p >= enq + 1 \/ (\E u \in Threads : Fills(u)' /\ pc'[u].pos = p)
                                 THEN p ELSE p + 1
    BY <1>1, <1>4
  <2>1. CASE p = enq
    BY <2>1, <1>2, <1>3, <1>5
  <2>2. CASE p # enq
    <3>1. (\E u \in Threads : Fills(u)' /\ pc'[u].pos = p) <=> (\E u \in Threads : Fills(u) /\ pc[u].pos = p)
      BY <2>2, <1>2, <1>3
    <3>2. p >= enq + 1 <=> p >= enq
      BY <2>2, <1>5
    <3> QED
      BY <3>1, <3>2 DEF RingInv
  <2> QED
    BY <2>1, <2>2
<1>9. (\A u \in Threads : Fills(u) => deq <= pc[u].pos /\ pc[u].pos < enq)'
  <2> SUFFICES ASSUME NEW u \in Threads, Fills(u)' PROVE deq <= pc'[u].pos /\ pc'[u].pos < enq + 1
    BY <1>1
  <2>1. CASE u = t
    BY <2>1, <1>2, <1>5
  <2>2. CASE u # t
    BY <2>2, <1>2, <1>3, <1>5 DEF RingInv, Types
  <2> QED
    BY <2>1, <2>2
<1>10. (\A u, v \in Threads : Fills(u) /\ Fills(v) /\ pc[u].pos = pc[v].pos => u = v)'
  <2>1. \A u \in Threads : u # t /\ Fills(u)' => pc'[u].pos < enq
    BY <1>2, <1>3 DEF RingInv
  <2>2. \A u, v \in Threads : u # t /\ v # t /\ Fills(u)' /\ Fills(v)' /\ pc'[u].pos = pc'[v].pos => u = v
    BY <1>2, <1>3 DEF RingInv
  <2> QED
    BY <2>1, <2>2, <1>2, <1>5
<1>11. (\A u \in Threads : pc[u].at = "claim" =>
         pc[u].pos <= enq /\ (pc[u].pos = enq => enq < deq + Capacity))'
  <2> SUFFICES ASSUME NEW u \in Threads, pc'[u].at = "claim"
               PROVE  pc'[u].pos <= enq + 1 /\ (pc'[u].pos = enq + 1 => enq + 1 < deq + Capacity)
    BY <1>1
  <2>1. u # t /\ pc'[u] = pc[u] /\ pc[u].pos \in Nat
    BY <1>2 DEF Types
  <2>2. pc[u].pos <= enq
    BY <2>1 DEF RingInv
  <2> QED
    BY <2>1, <2>2, <1>5
<1>12. (\A u \in Threads : pc[u].at = "publish" =>
         OwnerAt(pc[u].pos) = u /\ ChunkAt(pc[u].pos) = chunk[u])'
  <2> SUFFICES ASSUME NEW u \in Threads, pc'[u].at = "publish"
               PROVE  OwnerAt(pc[u].pos)' = u /\ ChunkAt(pc[u].pos)' = chunk'[u]
    OBVIOUS
  <2>1. pc'[u] = pc[u] /\ pc[u].pos \in Nat
    BY <1>2 DEF Types
  <2> QED
    BY <2>1, <1>1 DEF RingInv, OwnerAt, ChunkAt
<1>13. (\A u \in Threads, p \in Nat : Rec(u, p) => ChunkAt(p) >= 1 /\ GenAt(p) <= lossGen)'
  BY <1>1, <1>4, <1>6 DEF RingInv
<1>14. (\A p \in Nat : deq <= p /\ p < enq /\ SeqAt(p) = p + 1 => OwnerAt(p) \in Threads)'
  <2> SUFFICES ASSUME NEW p \in Nat, deq <= p, p < enq + 1, SeqAt(p) = p + 1
               PROVE  OwnerAt(p) \in Threads
    BY <1>1, <1>4
  <2>1. p < enq
    BY <1>5
  <2> QED
    BY <2>1 DEF RingInv
<1> QED
  BY <1>7, <1>8, <1>9, <1>10, <1>11, <1>12, <1>13, <1>14 DEF RingInv

\* A thread that fills its slot makes a record of it.
NewRec(t) == \A u \in Threads, p \in Nat :
  /\ Rec(u, p)' <=> (Rec(u, p) \/ (u = t /\ p = pc[t].pos))
  /\ Rec(u, p) => ChunkAt(p)' = ChunkAt(p) /\ GenAt(p)' = GenAt(p)

LEMMA StampKeeps ==
  ASSUME Types, RingInv, NEW t \in Threads, Stamp(t)
  PROVE  /\ RingInv' /\ NewRec(t)
         /\ ChunkAt(pc[t].pos)' = chunk[t] /\ GenAt(pc[t].pos)' = lossGen
<1>0. PICK q \in Nat : q = pc[t].pos
  BY DEF Types
<1>1. /\ pc[t].at = "stamp" /\ pc' = [pc EXCEPT ![t] = [at |-> "publish", pos |-> q]]
      /\ slots' = [slots EXCEPT ![Index(q)] =
                     [seq |-> slots[Index(q)].seq, t |-> t, k |-> chunk[t], gen |-> lossGen]]
      /\ UNCHANGED <<enq, deq, lossGen, chunk>>
  BY <1>0, IndexType DEF Stamp, At, Goto, gens, progress, Types
<1>2. /\ pc'[t].at = "publish" /\ pc'[t].pos = q
      /\ \A u \in Threads : u # t => pc'[u] = pc[u]
      /\ \A u \in Threads : pc'[u].pos = pc[u].pos /\ (Fills(u)' <=> Fills(u))
  BY <1>0, <1>1 DEF Types, Fills
<1>3. q \in Nat /\ deq <= q /\ q < enq /\ q < deq + Capacity /\ Fills(t)
  BY <1>0, <1>1 DEF RingInv, Fills, Types
<1>4. /\ SeqAt(q)' = SeqAt(q) /\ OwnerAt(q)' = t /\ ChunkAt(q)' = chunk[t] /\ GenAt(q)' = lossGen
      /\ \A p \in Nat : deq <= p /\ p < deq + Capacity /\ p # q =>
           /\ SeqAt(p)' = SeqAt(p) /\ OwnerAt(p)' = OwnerAt(p)
           /\ ChunkAt(p)' = ChunkAt(p) /\ GenAt(p)' = GenAt(p)
  <2> DEFINE v == [seq |-> slots[Index(q)].seq, t |-> t, k |-> chunk[t], gen |-> lossGen]
  <2>1. v.seq = SeqAt(q) /\ v.t = t /\ v.k = chunk[t] /\ v.gen = lossGen
    BY DEF SeqAt
  <2>2. slots' = [slots EXCEPT ![Index(q)] = v]
    BY <1>1
  <2> HIDE DEF v
  <2> QED
    BY <1>3, <2>1, <2>2, OneSlotChanges
<1>5. SeqAt(q) = q
  BY <1>0, <1>3 DEF RingInv
<1>6. ASSUME NEW u \in Threads, NEW p \in Nat
      PROVE  /\ Rec(u, p)' <=> (Rec(u, p) \/ (u = t /\ p = q))
             /\ Rec(u, p) => ChunkAt(p)' = ChunkAt(p) /\ GenAt(p)' = GenAt(p)
  <2>0. Rec(u, p) => deq <= p /\ p < deq + Capacity
    BY DEF Rec, Types
  <2>1. CASE p = q
    <3>1. ~Rec(u, p)
      <4>1. SeqAt(p) # p + 1
        BY <2>1, <1>5, <1>3
      <4>2. ~(pc[u].at = "publish" /\ pc[u].pos = q)
        BY <1>0, <1>1, <1>3 DEF RingInv, Fills
      <4> QED
        BY <2>1, <4>1, <4>2 DEF Rec
    <3>2. Rec(u, p)' <=> u = t
      BY <2>1, <1>1, <1>2, <1>3, <1>4 DEF Rec
    <3> QED
      BY <2>1, <3>1, <3>2
  <2>2. CASE p # q
    <3>1. pc'[u].at = "publish" /\ pc'[u].pos = p <=> pc[u].at = "publish" /\ pc[u].pos = p
      BY <1>1, <1>2, <2>2
    <3>2. CASE deq <= p /\ p < enq
      <4>1. p < deq + Capacity
        BY <3>2 DEF Types
      <4> QED
        BY <1>1, <1>4, <2>2, <3>1, <3>2, <4>1 DEF Rec
    <3>3. CASE ~(deq <= p /\ p < enq)
      BY <1>1, <2>2, <3>3 DEF Rec
    <3> QED
      BY <3>2, <3>3
  <2> QED
    BY <2>1, <2>2
<1>7. NewRec(t)
  BY <1>0, <1>6 DEF NewRec
<1>8. (\A p \in Nat : deq <= p /\ p < deq + Capacity =>
         SeqAt(p) = IF p >= enq \/ (\E u \in Threads : Fills(u) /\ pc[u].pos = p) THEN p ELSE p + 1)'
  <2>1. \A p \in Nat : deq <= p /\ p < deq + Capacity => SeqAt(p)' = SeqAt(p)
    BY <1>4
  <2> QED
    BY <2>1, <1>1, <1>2 DEF RingInv
<1>9. (\A u \in Threads : Fills(u) => deq <= pc[u].pos /\ pc[u].pos < enq)'
  BY <1>1, <1>2 DEF RingInv
<1>10. (\A u, v \in Threads : Fills(u) /\ Fills(v) /\ pc[u].pos = pc[v].pos => u = v)'
  BY <1>2 DEF RingInv
<1>11. (\A u \in Threads : pc[u].at = "claim" =>
         pc[u].pos <= enq /\ (pc[u].pos = enq => enq < deq + Capacity))'
  BY <1>1, <1>2 DEF RingInv
<1>12. (\A u \in Threads : pc[u].at = "publish" =>
         OwnerAt(pc[u].pos) = u /\ ChunkAt(pc[u].pos) = chunk[u])'
  <2> SUFFICES ASSUME NEW u \in Threads, pc'[u].at = "publish"
               PROVE  OwnerAt(pc[u].pos)' = u /\ ChunkAt(pc[u].pos)' = chunk'[u]
    OBVIOUS
  <2>1. CASE u = t
    BY <2>1, <1>0, <1>1, <1>2, <1>4 DEF OwnerAt, ChunkAt
  <2>2. CASE u # t
    <3>1. pc'[u] = pc[u] /\ pc[u].at = "publish" /\ Fills(u)
      BY <2>2, <1>2 DEF Fills
    <3>2. pc[u].pos \in Nat /\ pc[u].pos # q /\ deq <= pc[u].pos /\ pc[u].pos < deq + Capacity
      BY <3>1, <2>2, <1>0, <1>3 DEF RingInv, Types
    <3>3. OwnerAt(pc[u].pos) = u /\ ChunkAt(pc[u].pos) = chunk[u]
      BY <3>1 DEF RingInv
    <3> QED
      BY <3>1, <3>2, <3>3, <1>1, <1>4 DEF OwnerAt, ChunkAt
  <2> QED
    BY <2>1, <2>2
<1>13. (\A u \in Threads, p \in Nat : Rec(u, p) => ChunkAt(p) >= 1 /\ GenAt(p) <= lossGen)'
  <2>1. chunk[t] >= 1 /\ lossGen <= lossGen
    BY DEF Types
  <2> QED
    BY <2>1, <1>1, <1>4, <1>6 DEF RingInv
<1>14. (\A p \in Nat : deq <= p /\ p < enq /\ SeqAt(p) = p + 1 => OwnerAt(p) \in Threads)'
  <2> SUFFICES ASSUME NEW p \in Nat, deq <= p, p < enq, SeqAt(p)' = p + 1
               PROVE  OwnerAt(p)' \in Threads
    BY <1>1
  <2>1. p < deq + Capacity
    BY DEF Types
  <2>2. p # q
    BY <1>4, <1>5
  <2> QED
    BY <2>1, <2>2, <1>4 DEF RingInv
<1> QED
  <2>1. ChunkAt(pc[t].pos)' = chunk[t] /\ GenAt(pc[t].pos)' = lossGen
    BY <1>0, <1>2, <1>4 DEF ChunkAt, GenAt
  <2> QED
    BY <2>1, <1>7, <1>8, <1>9, <1>10, <1>11, <1>12, <1>13, <1>14 DEF RingInv

LEMMA PublishKeeps ==
  ASSUME Types, RingInv, NEW t \in Threads, Publish(t)
  PROVE  RingInv' /\ RecsStay
<1>0. PICK q \in Nat : q = pc[t].pos
  BY DEF Types
<1>1. /\ pc[t].at = "publish" /\ pc' = [pc EXCEPT ![t] = Idle]
      /\ slots' = [slots EXCEPT ![Index(q)] = [slots[Index(q)] EXCEPT !.seq = q + 1]]
      /\ UNCHANGED <<enq, deq, lossGen>>
      /\ chunk' = [chunk EXCEPT ![t] = (@ % LineLength) + 1]
  BY <1>0, IndexType DEF Publish, At, gens, Types, NextChunk
<1>2. /\ pc'[t].at = "idle"
      /\ \A u \in Threads : u # t => pc'[u] = pc[u] /\ chunk'[u] = chunk[u]
      /\ \A u \in Threads : Fills(u)' <=> Fills(u) /\ u # t
  BY <1>1 DEF Types, Fills, Idle
<1>3. deq <= q /\ q < enq /\ q < deq + Capacity /\ Fills(t)
  BY <1>0, <1>1 DEF RingInv, Fills, Types
<1>4. /\ SeqAt(q)' = q + 1 /\ OwnerAt(q)' = OwnerAt(q) /\ ChunkAt(q)' = ChunkAt(q)
      /\ GenAt(q)' = GenAt(q)
      /\ \A p \in Nat : deq <= p /\ p < deq + Capacity /\ p # q =>
           /\ SeqAt(p)' = SeqAt(p) /\ OwnerAt(p)' = OwnerAt(p)
           /\ ChunkAt(p)' = ChunkAt(p) /\ GenAt(p)' = GenAt(p)
  <2> DEFINE v == [slots[Index(q)] EXCEPT !.seq = q + 1]
  <2>1. v.seq = q + 1 /\ v.t = OwnerAt(q) /\ v.k = ChunkAt(q) /\ v.gen = GenAt(q)
    BY IndexType DEF OwnerAt, ChunkAt, GenAt, Types, SlotType
  <2>2. slots' = [slots EXCEPT ![Index(q)] = v]
    BY <1>1
  <2> HIDE DEF v
  <2> QED
    BY <1>3, <2>1, <2>2, OneSlotChanges
<1>5. OwnerAt(q) = t
  BY <1>0, <1>1 DEF RingInv
<1>6. \A p \in Nat : OwnerAt(p)' = OwnerAt(p) /\ ChunkAt(p)' = ChunkAt(p) /\ GenAt(p)' = GenAt(p)
  <2> DEFINE v == [slots[Index(q)] EXCEPT !.seq = q + 1]
  <2>1. v.t = slots[Index(q)].t /\ v.k = slots[Index(q)].k /\ v.gen = slots[Index(q)].gen
    BY IndexType DEF Types, SlotType
  <2>2. slots' = [slots EXCEPT ![Index(q)] = v]
    BY <1>1
  <2> HIDE DEF v
  <2> TAKE p \in Nat
  <2>3. Index(p) \in Ids /\ slots'[Index(p)] = IF Index(p) = Index(q) THEN v ELSE slots[Index(p)]
    BY <2>2, IndexType DEF Types
  <2> QED
    BY <2>1, <2>3 DEF OwnerAt, ChunkAt, GenAt
<1>7. ASSUME NEW u \in Threads, NEW p \in Nat PROVE Rec(u, p)' <=> Rec(u, p)
  <2>1. CASE p = q
    <3>1. Rec(u, p) <=> u = t
      <4>1. u = t => Rec(u, p)
        BY <2>1, <1>0, <1>1, <1>3, <1>5 DEF Rec
      <4>2. u # t => ~Rec(u, p)
        BY <2>1, <1>5 DEF Rec
      <4> QED
        BY <4>1, <4>2
    <3>2. Rec(u, p)' <=> u = t
      <4>1. u = t => Rec(u, p)'
        BY <2>1, <1>1, <1>3, <1>4, <1>5 DEF Rec
      <4>2. u # t => ~Rec(u, p)'
        BY <2>1, <1>4, <1>5 DEF Rec
      <4> QED
        BY <4>1, <4>2
    <3> QED
      BY <3>1, <3>2
  <2>2. CASE p # q
    <3>1. pc'[u].at = "publish" /\ pc'[u].pos = p <=> pc[u].at = "publish" /\ pc[u].pos = p
      BY <1>0, <1>1, <1>2, <2>2
    <3>2. CASE deq <= p /\ p < enq
      <4>1. p < deq + Capacity
        BY <3>2 DEF Types
      <4> QED
        BY <1>1, <1>4, <2>2, <3>1, <3>2, <4>1 DEF Rec
    <3>3. CASE ~(deq <= p /\ p < enq)
      BY <1>1, <3>3 DEF Rec
    <3> QED
      BY <3>2, <3>3
  <2> QED
    BY <2>1, <2>2
<1>8. RecsStay
  BY <1>6, <1>7 DEF RecsStay
<1>9. (\A p \in Nat : deq <= p /\ p < deq + Capacity =>
         SeqAt(p) = IF p >= enq \/ (\E u \in Threads : Fills(u) /\ pc[u].pos = p) THEN p ELSE p + 1)'
  <2> SUFFICES ASSUME NEW p \in Nat, deq <= p, p < deq + Capacity
               PROVE  SeqAt(p)' = IF p >= enq \/ (\E u \in Threads : Fills(u)' /\ pc'[u].pos = p)
                                  THEN p ELSE p + 1
    BY <1>1
  <2>1. CASE p = q
    <3>1. ~(\E u \in Threads : Fills(u)' /\ pc'[u].pos = q)
      BY <1>0, <1>2, <1>3 DEF RingInv
    <3> QED
      BY <2>1, <3>1, <1>3, <1>4 DEF Types
  <2>2. CASE p # q
    <3>1. (\E u \in Threads : Fills(u)' /\ pc'[u].pos = p) <=> (\E u \in Threads : Fills(u) /\ pc[u].pos = p)
      BY <2>2, <1>0, <1>2
    <3> QED
      BY <2>2, <3>1, <1>4 DEF RingInv
  <2> QED
    BY <2>1, <2>2
<1>10. (\A u \in Threads : Fills(u) => deq <= pc[u].pos /\ pc[u].pos < enq)'
  BY <1>1, <1>2 DEF RingInv
<1>11. (\A u, v \in Threads : Fills(u) /\ Fills(v) /\ pc[u].pos = pc[v].pos => u = v)'
  BY <1>2 DEF RingInv
<1>12. (\A u \in Threads : pc[u].at = "claim" =>
         pc[u].pos <= enq /\ (pc[u].pos = enq => enq < deq + Capacity))'
  BY <1>1, <1>2 DEF RingInv
<1>13. (\A u \in Threads : pc[u].at = "publish" =>
         OwnerAt(pc[u].pos) = u /\ ChunkAt(pc[u].pos) = chunk[u])'
  <2> SUFFICES ASSUME NEW u \in Threads, pc'[u].at = "publish"
               PROVE  OwnerAt(pc[u].pos)' = u /\ ChunkAt(pc[u].pos)' = chunk'[u]
    OBVIOUS
  <2>1. u # t /\ pc'[u] = pc[u] /\ chunk'[u] = chunk[u] /\ pc[u].pos \in Nat
    BY <1>2 DEF Types
  <2>2. OwnerAt(pc[u].pos) = u /\ ChunkAt(pc[u].pos) = chunk[u]
    BY <2>1 DEF RingInv
  <2> QED
    BY <2>1, <2>2, <1>6 DEF OwnerAt, ChunkAt
<1>14. (\A u \in Threads, p \in Nat : Rec(u, p) => ChunkAt(p) >= 1 /\ GenAt(p) <= lossGen)'
  BY <1>1, <1>6, <1>7 DEF RingInv
<1>15. (\A p \in Nat : deq <= p /\ p < enq /\ SeqAt(p) = p + 1 => OwnerAt(p) \in Threads)'
  <2> SUFFICES ASSUME NEW p \in Nat, deq <= p, p < enq, SeqAt(p)' = p + 1
               PROVE  OwnerAt(p)' \in Threads
    BY <1>1
  <2>1. p < deq + Capacity
    BY DEF Types
  <2> QED
    BY <2>1, <1>4, <1>5 DEF RingInv
<1> QED
  BY <1>8, <1>9, <1>10, <1>11, <1>12, <1>13, <1>14, <1>15 DEF RingInv

\* The worker takes the record at the front; the slot serves the next lap.
FrontGone == \A u \in Threads, p \in Nat :
  /\ Rec(u, p)' <=> Rec(u, p) /\ p # deq
  /\ ChunkAt(p)' = ChunkAt(p) /\ GenAt(p)' = GenAt(p)

LEMMA TakeKeeps ==
  ASSUME Types, RingInv, TakeRecord
  PROVE  /\ RingInv' /\ FrontGone
         /\ deq < enq /\ OwnerAt(deq) \in Threads /\ Rec(OwnerAt(deq), deq)
         /\ \A u \in Threads : Fills(u) => pc[u].pos # deq
<1>0. PICK q \in Nat : q = deq
  BY DEF Types
<1>1. /\ SeqAt(q) = q + 1 /\ deq' = q + 1
      /\ slots' = [slots EXCEPT ![Index(q)] = [slots[Index(q)] EXCEPT !.seq = q + Capacity]]
      /\ UNCHANGED <<enq, lossGen, chunk, pc>>
  BY <1>0, IndexType DEF TakeRecord, SeqAt, progress, Types
<1>2. q < enq /\ (\A u \in Threads : ~(Fills(u) /\ pc[u].pos = q))
  <2>1. q < q + Capacity /\ q + 1 # q
    OBVIOUS
  <2> QED
    BY <1>0, <1>1, <2>1 DEF RingInv, Types
<1>3. OwnerAt(q) \in Threads /\ Rec(OwnerAt(q), q)
  BY <1>0, <1>1, <1>2 DEF RingInv, Rec, Types
<1>4. /\ SeqAt(q)' = q + Capacity
      /\ \A p \in Nat : deq <= p /\ p < deq + Capacity /\ p # q =>
           /\ SeqAt(p)' = SeqAt(p) /\ OwnerAt(p)' = OwnerAt(p)
           /\ ChunkAt(p)' = ChunkAt(p) /\ GenAt(p)' = GenAt(p)
  <2> DEFINE v == [slots[Index(q)] EXCEPT !.seq = q + Capacity]
  <2>1. v.seq = q + Capacity
    BY IndexType DEF Types, SlotType
  <2>2. slots' = [slots EXCEPT ![Index(q)] = v]
    BY <1>1
  <2>3. deq <= q /\ q < deq + Capacity
    BY <1>0
  <2> HIDE DEF v
  <2> QED
    BY <2>1, <2>2, <2>3, OneSlotChanges
<1>5. SeqAt(q + Capacity)' = q + Capacity
  <2>1. Index(q + Capacity) = Index(q)
    BY IndexWraps
  <2>2. SeqAt(q + Capacity)' = SeqAt(q)'
    BY <2>1 DEF SeqAt
  <2> QED
    BY <2>2, <1>4
<1>6. \A p \in Nat : OwnerAt(p)' = OwnerAt(p) /\ ChunkAt(p)' = ChunkAt(p) /\ GenAt(p)' = GenAt(p)
  <2> DEFINE v == [slots[Index(q)] EXCEPT !.seq = q + Capacity]
  <2>1. v.t = slots[Index(q)].t /\ v.k = slots[Index(q)].k /\ v.gen = slots[Index(q)].gen
    BY IndexType DEF Types, SlotType
  <2>2. slots' = [slots EXCEPT ![Index(q)] = v]
    BY <1>1
  <2> HIDE DEF v
  <2> TAKE p \in Nat
  <2>3. Index(p) \in Ids /\ slots'[Index(p)] = IF Index(p) = Index(q) THEN v ELSE slots[Index(p)]
    BY <2>2, IndexType DEF Types
  <2> QED
    BY <2>1, <2>3 DEF OwnerAt, ChunkAt, GenAt
<1>7. ASSUME NEW u \in Threads, NEW p \in Nat PROVE Rec(u, p)' <=> Rec(u, p) /\ p # q
  <2>1. CASE q + 1 <= p /\ p < enq
    <3>1. p # q /\ deq <= p /\ p < deq + Capacity
      BY <2>1, <1>0 DEF Types
    <3> QED
      BY <1>0, <1>1, <1>4, <3>1, <2>1 DEF Rec
  <2>2. CASE ~(q + 1 <= p /\ p < enq)
    BY <1>0, <1>1, <2>2 DEF Rec, Types
  <2> QED
    BY <2>1, <2>2
<1>8. FrontGone
  BY <1>0, <1>6, <1>7 DEF FrontGone
<1>9. \A u \in Threads : (Fills(u)' <=> Fills(u)) /\ pc'[u] = pc[u]
  BY <1>1 DEF Fills
<1>10. (\A p \in Nat : deq <= p /\ p < deq + Capacity =>
         SeqAt(p) = IF p >= enq \/ (\E u \in Threads : Fills(u) /\ pc[u].pos = p) THEN p ELSE p + 1)'
  <2> SUFFICES ASSUME NEW p \in Nat, q + 1 <= p, p < q + 1 + Capacity
               PROVE  SeqAt(p)' = IF p >= enq \/ (\E u \in Threads : Fills(u) /\ pc[u].pos = p)
                                  THEN p ELSE p + 1
    BY <1>1, <1>9
  <2>1. CASE p = q + Capacity
    BY <2>1, <1>0, <1>5 DEF Types
  <2>2. CASE p # q + Capacity
    <3>1. deq <= p /\ p < deq + Capacity /\ p # q
      BY <2>2, <1>0
    <3> QED
      BY <3>1, <1>4 DEF RingInv
  <2> QED
    BY <2>1, <2>2
<1>11. (\A u \in Threads : Fills(u) => deq <= pc[u].pos /\ pc[u].pos < enq)'
  <2> SUFFICES ASSUME NEW u \in Threads, Fills(u) PROVE q + 1 <= pc[u].pos /\ pc[u].pos < enq
    BY <1>1, <1>9
  <2>1. deq <= pc[u].pos /\ pc[u].pos < enq /\ pc[u].pos # q /\ pc[u].pos \in Nat
    BY <1>2 DEF RingInv, Types
  <2> QED
    BY <2>1, <1>0
<1>12. (\A u, v \in Threads : Fills(u) /\ Fills(v) /\ pc[u].pos = pc[v].pos => u = v)'
  BY <1>9 DEF RingInv
<1>13. (\A u \in Threads : pc[u].at = "claim" =>
         pc[u].pos <= enq /\ (pc[u].pos = enq => enq < deq + Capacity))'
  BY <1>0, <1>1, <1>9 DEF RingInv, Types
<1>14. (\A u \in Threads : pc[u].at = "publish" =>
         OwnerAt(pc[u].pos) = u /\ ChunkAt(pc[u].pos) = chunk[u])'
  <2> SUFFICES ASSUME NEW u \in Threads, pc[u].at = "publish"
               PROVE  OwnerAt(pc[u].pos)' = u /\ ChunkAt(pc[u].pos)' = chunk[u]
    BY <1>1
  <2>1. OwnerAt(pc[u].pos) = u /\ ChunkAt(pc[u].pos) = chunk[u] /\ pc[u].pos \in Nat
    BY DEF RingInv, Types
  <2> QED
    BY <2>1, <1>1, <1>6 DEF OwnerAt, ChunkAt
<1>15. (\A u \in Threads, p \in Nat : Rec(u, p) => ChunkAt(p) >= 1 /\ GenAt(p) <= lossGen)'
  BY <1>1, <1>6, <1>7 DEF RingInv
<1>16. (\A p \in Nat : deq <= p /\ p < enq /\ SeqAt(p) = p + 1 => OwnerAt(p) \in Threads)'
  <2> SUFFICES ASSUME NEW p \in Nat, q + 1 <= p, p < enq, SeqAt(p)' = p + 1
               PROVE  OwnerAt(p)' \in Threads
    BY <1>1
  <2>1. deq <= p /\ p < deq + Capacity /\ p # q
    BY <1>0 DEF Types
  <2> QED
    BY <2>1, <1>4 DEF RingInv
<1> QED
  BY <1>0, <1>2, <1>3, <1>8, <1>10, <1>11, <1>12, <1>13, <1>14, <1>15, <1>16 DEF RingInv

\* Every other step of a writer, a reader or the worker.
LEMMA DropStays ==
  ASSUME Types, NEW t \in Threads, ~Fills(t), Drop(t), deq' = deq
  PROVE  RingStays /\ lossGen' = lossGen + 1
<1>1. lossGen' = lossGen + 1 /\ lossGen \in Nat /\ UNCHANGED <<slots, enq, deq>>
  BY DEF Drop, Types
<1>2. pc'[t].at \in Quiet
  BY DEF Drop, Types, Idle, Quiet
<1>3. \A u \in Threads : u # t => pc'[u] = pc[u] /\ chunk'[u] = chunk[u]
  BY DEF Drop, NextChunk, Types
<1> QED
  BY <1>1, <1>2, <1>3 DEF RingStays

LEMMA IndexSmall == ASSUME NEW p \in Nat, p < Capacity PROVE Index(p) = p
<1>1. 0 <= p /\ p < 0 + Capacity
  OBVIOUS
<1> DEFINE a == p \div Capacity
           r == Index(p)
<1>2. a \in Int /\ r \in 0..(Capacity - 1) /\ p = Capacity * a + r
  BY DEF Index
<1> HIDE DEF a, r
<1>3. a = 0
  BY <1>1, <1>2
<1>4. r = p
  BY <1>2, <1>3
<1> QED
  BY <1>4 DEF r

LEMMA StartKeeps ==
  ASSUME Types, RingInv, FlushInv, StartConsoleCaptureWorker
  PROVE  RingInv' /\ RecsStay
<1>1. /\ enq = 0 /\ deq = 0 /\ enq' = 0 /\ deq' = 0 /\ slots' = EmptyRing
      /\ \A t \in Threads : pc[t].at \notin {"claim", "stamp", "publish"}
      /\ UNCHANGED <<pc, lossGen, chunk>>
  BY DEF StartConsoleCaptureWorker, FlushInv, NotStarted, progress
<1>2. \A t \in Threads : ~Fills(t)' /\ pc'[t].at \notin {"claim", "publish"}
  BY <1>1 DEF Fills
<1>3. \A t \in Threads, p \in Nat : ~Rec(t, p) /\ ~Rec(t, p)'
  BY <1>1 DEF Rec
<1>4. ASSUME NEW p \in Nat, p < Capacity PROVE SeqAt(p)' = p
  <2>1. Index(p) = p /\ p \in 0..(Capacity - 1)
    BY <1>4, IndexSmall
  <2> QED
    BY <2>1, <1>1 DEF SeqAt, EmptyRing
<1>5. (\A p \in Nat : deq <= p /\ p < deq + Capacity =>
         SeqAt(p) = IF p >= enq \/ (\E t \in Threads : Fills(t) /\ pc[t].pos = p) THEN p ELSE p + 1)'
  BY <1>1, <1>4
<1>6. (\A p \in Nat : deq <= p /\ p < enq /\ SeqAt(p) = p + 1 => OwnerAt(p) \in Threads)'
  BY <1>1
<1> QED
  BY <1>2, <1>3, <1>5, <1>6 DEF RingInv, RecsStay

\* The steps that neither fill nor take a slot nor drop a chunk.
LEMMA QuietSteps ==
  ASSUME Types, RingInv, FlushInv
  PROVE  /\ \A t \in Threads :
              /\ Write(t) => RingStays
              /\ CheckSlot(t) => RingStays
              /\ Claim(t) /\ ~Won(t) => RingStays
              /\ FlushPause(t) \/ FlushStep(t) => RingStays
              /\ FlushUnmanaged(t) => RingStays
         /\ TakeEntry \/ WorkerExits \/ StopPause \/ StopStep \/ EmergencyStop => RingStays
         /\ UNCHANGED vars => RingStays
<1>0. Stopper \notin Threads /\ lossGen \in Nat
  BY DEF Stopper, Types
<1>1. ASSUME NEW t \in Threads, Write(t) PROVE RingStays
  BY <1>1, <1>0 DEF Write, At, Goto, ring, gens, RingStays, Types, Quiet, Fills
<1>2. ASSUME NEW t \in Threads, CheckSlot(t) PROVE RingStays
  <2>0. ~Fills(t) /\ deq' = deq
    BY <1>2 DEF CheckSlot, At, Fills
  <2>1. CASE Room
    <3>1. enq < deq + Capacity
      BY <2>1, NotFull DEF Room
    <3>2. /\ UNCHANGED <<slots, enq, deq, lossGen, chunk>>
          /\ pc'[t].at = "claim" /\ pc'[t].pos = enq
          /\ \A u \in Threads : u # t => pc'[u] = pc[u]
      BY <1>2, <2>1 DEF CheckSlot, Goto, Types
    <3> QED
      BY <1>0, <2>0, <3>1, <3>2 DEF RingStays
  <2>2. CASE ~Room
    BY <1>2, <2>0, <2>2, DropStays DEF CheckSlot
  <2> QED
    BY <2>1, <2>2
<1>3. ASSUME NEW t \in Threads, Claim(t), ~Won(t) PROVE RingStays
  <2>1. ~Fills(t) /\ deq' = deq /\ Drop(t)
    BY <1>3 DEF Claim, At, Fills
  <2> QED
    BY <2>1, DropStays
<1>4. ASSUME NEW t \in Threads, FlushPause(t) PROVE RingStays
  BY <1>4, <1>0 DEF FlushPause, At, Goto, ring, gens, RingStays, Types, Quiet, Fills
<1>5. ASSUME NEW t \in Threads, FlushQueue(t) PROVE RingStays
  BY <1>5, <1>0 DEF FlushQueue, At, Goto, ring, gens, progress, RingStays, Types, Quiet, Fills
<1>6. ASSUME NEW t \in Threads, FlushDone(t) PROVE RingStays
  BY <1>6, <1>0 DEF FlushDone, At, Goto, ring, gens, progress, RingStays, Types, Quiet, Fills
<1>7. ASSUME NEW t \in Threads, ReadConsole(t) PROVE RingStays
  BY <1>7, <1>0 DEF ReadConsole, At, Idle, ring, gens, progress, RingStays, Types, Quiet, Fills
<1>8. ASSUME NEW t \in Threads, FlushUnmanaged(t) PROVE RingStays
  BY <1>8, <1>0 DEF FlushUnmanaged, ring, gens, progress, RingStays
<1>9. ASSUME TakeEntry PROVE RingStays
  BY <1>9, <1>0 DEF TakeEntry, ring, progress, RingStays
<1>10. ASSUME WorkerExits \/ EmergencyStop PROVE RingStays
  BY <1>10, <1>0 DEF WorkerExits, EmergencyStop, ring, gens, progress, RingStays
<1>11. ASSUME StopPause \/ StopStep PROVE RingStays
  <2>1. UNCHANGED <<slots, enq, deq, lossGen, chunk>>
    BY <1>11 DEF StopPause, StopStep, StopQueue, StopDrained, StopJoined, ring, gens, progress
  <2>2. \A u \in Threads : pc'[u] = pc[u]
    BY <1>0, <1>11 DEF StopPause, StopStep, StopQueue, StopDrained, StopJoined, Goto, Types
  <2> QED
    BY <1>0, <2>1, <2>2 DEF RingStays
<1>12. ASSUME UNCHANGED vars PROVE RingStays
  BY <1>12, <1>0 DEF vars, RingStays
<1> QED
  BY <1>1, <1>2, <1>3, <1>4, <1>5, <1>6, <1>7, <1>8, <1>9, <1>10, <1>11, <1>12 DEF FlushStep

\* Only a thread that fills its slot gains a record.
NoNewRec == \A t \in Threads, p \in Nat : Rec(t, p)' => Rec(t, p) \/ Stamp(t)

LEMMA RingNext ==
  ASSUME Types, RingInv, FlushInv, [Next]_vars
  PROVE  RingInv' /\ NoNewRec
<1>1. ASSUME RingStays PROVE RingInv' /\ NoNewRec
  BY <1>1, RingInvStays, RecsStayWithRing DEF RecsStay, NoNewRec
<1>2. ASSUME RingInv', RecsStay PROVE RingInv' /\ NoNewRec
  BY <1>2 DEF RecsStay, NoNewRec
<1>3. CASE StartConsoleCaptureWorker
  BY <1>3, <1>2, StartKeeps
<1>4. ASSUME NEW t \in Threads, Claim(t) PROVE RingInv' /\ NoNewRec
  BY <1>4, <1>1, <1>2, QuietSteps, ClaimKeeps
<1>5. ASSUME NEW t \in Threads, Stamp(t) PROVE RingInv' /\ NoNewRec
  BY <1>5, StampKeeps DEF NewRec, NoNewRec
<1>6. ASSUME NEW t \in Threads, Publish(t) PROVE RingInv' /\ NoNewRec
  BY <1>6, <1>2, PublishKeeps
<1>7. CASE TakeRecord
  BY <1>7, TakeKeeps DEF FrontGone, NoNewRec
<1> QED
  BY <1>1, <1>3, <1>4, <1>5, <1>6, <1>7, QuietSteps DEF Next, WriterStep, WorkerStep

---------------------------------------------------------------------------
(* Types. *)

LEMMA ChunkFollows ==
  ASSUME NEW c \in 1..LineLength
  PROVE  (c % LineLength) + 1 = Following(c) /\ Following(c) \in 1..LineLength
<1> DEFINE a == c \div LineLength
           r == c % LineLength
<1>1. a \in Int /\ r \in 0..(LineLength - 1) /\ c = LineLength * a + r
  OBVIOUS
<1> HIDE DEF a, r
<1>2. CASE c = LineLength
  <2>1. LineLength * (1 - a) = r
    BY <1>1, <1>2
  <2>2. 1 - a = 0
    BY <1>1, <2>1
  <2>3. r = 0
    BY <2>1, <2>2
  <2> QED
    BY <1>2, <2>3 DEF Following, r
<1>3. CASE c # LineLength
  <2>1. a = 0
    BY <1>1, <1>3
  <2>2. r = c
    BY <1>1, <2>1
  <2> QED
    BY <1>3, <2>2 DEF Following, r
<1> QED
  BY <1>2, <1>3

LEMMA NextChunkFollows ==
  ASSUME Types, NEW t \in Threads, NextChunk(t)
  PROVE  /\ chunk' = [chunk EXCEPT ![t] = Following(chunk[t])]
         /\ chunk' \in [Threads -> 1..LineLength]
<1>1. chunk[t] \in 1..LineLength
  BY DEF Types
<1>2. (chunk[t] % LineLength) + 1 = Following(chunk[t]) /\ Following(chunk[t]) \in 1..LineLength
  BY <1>1, ChunkFollows
<1> HIDE DEF Following
<1>3. chunk' = [chunk EXCEPT ![t] = Following(chunk[t])]
  BY <1>2 DEF NextChunk
<1> QED
  BY <1>2, <1>3 DEF Types

LEMMA TypesNext ==
  ASSUME Types, RingInv, QueueInv, [Next]_vars
  PROVE  Types'
<1>0. /\ Stopper \notin Threads /\ lossGen \in Nat /\ lossGen + 1 \in Nat
      /\ Places = {"idle", "check", "claim", "stamp", "publish", "flush", "wait", "flushed",
                   "pause", "drain", "join"}
  BY DEF Stopper, Types, Places
<1>1. ASSUME UNCHANGED <<slots, enq, deq, lossGen, chunk>>,
             pc' \in [Threads \cup {Stopper} -> [at : Places, pos : Nat]], active' \subseteq Threads
      PROVE  Types'
  BY <1>1 DEF Types
<1>2. ASSUME NEW t \in Threads \cup {Stopper}, NEW w \in Places, NEW p \in Nat, Goto(t, w, p)
      PROVE  pc' \in [Threads \cup {Stopper} -> [at : Places, pos : Nat]]
  BY <1>2 DEF Goto, Types
<1>3. ASSUME NEW t \in Threads \cup {Stopper}, pc' = [pc EXCEPT ![t] = Idle]
      PROVE  pc' \in [Threads \cup {Stopper} -> [at : Places, pos : Nat]]
  <2>1. Idle \in [at : Places, pos : Nat]
    BY <1>0 DEF Idle
  <2> QED
    BY <1>3, <2>1 DEF Types
<1>4. ASSUME NEW t \in Threads, Drop(t), deq' = deq PROVE Types'
  <2>1. pc' \in [Threads \cup {Stopper} -> [at : Places, pos : Nat]]
    BY <1>3, <1>4 DEF Drop
  <2>2. chunk' \in [Threads -> 1..LineLength]
    BY <1>4, NextChunkFollows DEF Drop
  <2> QED
    BY <1>0, <1>4, <2>1, <2>2 DEF Drop, Types
<1>5. CASE StartConsoleCaptureWorker
  <2>1. EmptyRing \in [Ids -> SlotType]
    BY DEF EmptyRing, Ids, SlotType
  <2> QED
    BY <1>5, <2>1 DEF StartConsoleCaptureWorker, progress, Types
<1>6. ASSUME NEW t \in Threads, Write(t) PROVE Types'
  BY <1>0, <1>1, <1>2, <1>6 DEF Write, ring, gens, Types
<1>7. ASSUME NEW t \in Threads, CheckSlot(t) PROVE Types'
  <2>1. CASE Room
    BY <1>0, <1>1, <1>2, <1>7, <2>1 DEF CheckSlot, Types
  <2>2. CASE ~Room
    BY <1>4, <1>7, <2>2 DEF CheckSlot
  <2> QED
    BY <2>1, <2>2
<1>8. ASSUME NEW t \in Threads, Claim(t) PROVE Types'
  <2>1. CASE Won(t)
    <3>1. enq' = enq + 1 /\ enq < deq + Capacity /\ UNCHANGED <<slots, deq, lossGen, active, chunk>>
      BY <1>8, <2>1 DEF Claim, Won, At, RingInv
    <3>2. pc[t].pos \in Nat
      BY DEF Types
    <3>3. pc' \in [Threads \cup {Stopper} -> [at : Places, pos : Nat]]
      BY <1>0, <1>2, <1>8, <2>1, <3>2 DEF Claim
    <3> QED
      BY <3>1, <3>3 DEF Types
  <2>2. CASE ~Won(t)
    BY <1>4, <1>8, <2>2 DEF Claim
  <2> QED
    BY <2>1, <2>2
<1>9. ASSUME NEW t \in Threads, Stamp(t) PROVE Types'
  <2>1. pc[t].pos \in Nat /\ Index(pc[t].pos) \in Ids /\ chunk[t] \in 1..LineLength
    BY IndexType DEF Types
  <2>2. pc' \in [Threads \cup {Stopper} -> [at : Places, pos : Nat]]
    BY <1>0, <1>2, <1>9, <2>1 DEF Stamp
  <2>3. slots[Index(pc[t].pos)].seq \in Nat
    BY <2>1 DEF Types, SlotType
  <2>4. slots' = [slots EXCEPT ![Index(pc[t].pos)] =
                    [seq |-> slots[Index(pc[t].pos)].seq, t |-> t, k |-> chunk[t], gen |-> lossGen]]
    BY <1>9, <2>1 DEF Stamp, Types
  <2>5. [seq |-> slots[Index(pc[t].pos)].seq, t |-> t, k |-> chunk[t], gen |-> lossGen] \in SlotType
    BY <1>0, <2>1, <2>3 DEF SlotType
  <2>6. slots' \in [Ids -> SlotType]
    BY <2>1, <2>4, <2>5 DEF Types
  <2> QED
    BY <1>9, <2>2, <2>6 DEF Stamp, gens, progress, Types
<1>10. ASSUME NEW t \in Threads, Publish(t) PROVE Types'
  <2>1. pc[t].pos \in Nat /\ Index(pc[t].pos) \in Ids /\ pc[t].pos + 1 \in Nat
    BY IndexType DEF Types
  <2>2. pc' \in [Threads \cup {Stopper} -> [at : Places, pos : Nat]]
    BY <1>3, <1>10 DEF Publish
  <2>3. chunk' \in [Threads -> 1..LineLength]
    BY <1>10, NextChunkFollows DEF Publish
  <2>4. slots' \in [Ids -> SlotType]
    BY <1>10, <2>1 DEF Publish, Types, SlotType
  <2> QED
    BY <1>10, <2>2, <2>3, <2>4 DEF Publish, gens, Types
<1>11. ASSUME NEW t \in Threads, FlushPause(t) PROVE Types'
  <2>1. (IF accepting THEN 1 ELSE 0) \in Nat
    OBVIOUS
  <2>2. "flush" \in Places
    BY <1>0
  <2> QED
    BY <1>1, <1>2, <1>11, <2>1, <2>2 DEF FlushPause, ring, gens, Types
<1>12. ASSUME NEW t \in Threads, FlushQueue(t) PROVE Types'
  <2>1. queued + 1 \in Nat /\ {"wait", "idle"} \subseteq Places
    BY <1>0 DEF QueueInv
  <2>2. CASE Goto(t, "wait", queued + 1)
    BY <1>1, <1>2, <1>12, <2>1, <2>2 DEF FlushQueue, ring, gens, progress, Types
  <2>3. CASE Goto(t, "idle", 0)
    BY <1>1, <1>2, <1>12, <2>1, <2>3 DEF FlushQueue, ring, gens, progress, Types
  <2> QED
    BY <1>12, <2>2, <2>3 DEF FlushQueue
<1>13. ASSUME NEW t \in Threads, FlushDone(t) PROVE Types'
  <2>1. (IF done >= pc[t].pos THEN "flushed" ELSE "idle") \in Places
    BY <1>0
  <2> QED
    BY <1>1, <1>2, <1>13, <2>1 DEF FlushDone, ring, gens, progress, Types
<1>14. ASSUME NEW t \in Threads, ReadConsole(t) PROVE Types'
  BY <1>1, <1>3, <1>14 DEF ReadConsole, ring, gens, progress, Types
<1>15. ASSUME NEW t \in Threads, FlushUnmanaged(t) PROVE Types'
  BY <1>1, <1>15 DEF FlushUnmanaged, ring, gens, progress, Types
<1>16. CASE TakeRecord
  <2>1. Index(deq) \in Ids /\ deq + 1 \in Nat /\ deq + Capacity \in Nat
    BY IndexType DEF Types
  <2>2. deq < enq
    BY <1>16, TakeKeeps
  <2>3. slots' \in [Ids -> SlotType]
    BY <1>16, <2>1 DEF TakeRecord, Types, SlotType
  <2>4. deq' = deq + 1 /\ UNCHANGED <<enq, lossGen, pc, chunk, active>>
    BY <1>16 DEF TakeRecord, progress
  <2> QED
    BY <2>1, <2>2, <2>3, <2>4 DEF Types
<1>17. CASE TakeEntry \/ WorkerExits \/ EmergencyStop
  BY <1>1, <1>17 DEF TakeEntry, WorkerExits, EmergencyStop, ring, gens, progress, Types
<1>18. CASE StopPause
  BY <1>0, <1>1, <1>2, <1>18 DEF StopPause, ring, gens, progress, Types
<1>19. CASE StopQueue
  <2>1. queued + 1 \in Nat /\ "drain" \in Places
    BY <1>0 DEF QueueInv
  <2> QED
    BY <1>1, <1>2, <1>19, <2>1 DEF StopQueue, ring, gens, progress, Types
<1>20. CASE StopDrained
  BY <1>0, <1>1, <1>2, <1>20 DEF StopDrained, ring, gens, progress, Types
<1>21. CASE StopJoined
  BY <1>1, <1>3, <1>21 DEF StopJoined, ring, gens, progress, Types
<1>22. CASE UNCHANGED vars
  BY <1>22 DEF vars, Types
<1> QED
  BY <1>5, <1>6, <1>7, <1>8, <1>9, <1>10, <1>11, <1>12, <1>13, <1>14, <1>15, <1>16, <1>17, <1>18,
     <1>19, <1>20, <1>21, <1>22 DEF Next, WriterStep, FlushStep, WorkerStep, StopStep

---------------------------------------------------------------------------
(* The queue of entries. *)

LEMMA Appended ==
  ASSUME QueueInv, enq \in Nat, lossGen \in Nat, NEW kind \in {"flush", "close"},
         worker # "Stopped", queue' = Append(queue, Boundary(kind)), queued' = queued + 1,
         UNCHANGED <<enq, lossGen, done, worker, running>>
  PROVE  /\ QueueInv'
         /\ Len(queue) = queued - done /\ Len(queue') = Len(queue) + 1
         /\ \A i \in 1..Len(queue) : queue'[i] = queue[i]
         /\ queue'[Len(queue) + 1].at = enq
<1>1. /\ Boundary(kind).at = enq /\ Boundary(kind).gen = lossGen /\ Boundary(kind).seq = queued + 1
      /\ Boundary(kind) \in Entries
  BY DEF Boundary, Entries, QueueInv
<1>2. queue \in Seq(Entries) /\ Len(queue) \in Nat
  BY DEF QueueInv
<1>3. /\ Len(queue') = Len(queue) + 1 /\ queue' \in Seq(Entries)
      /\ \A i \in 1..Len(queue) : queue'[i] = queue[i]
      /\ queue'[Len(queue) + 1] = Boundary(kind)
  BY <1>1, <1>2
<1>4. Len(queue) = queued - done
  BY DEF QueueInv
<1> HIDE DEF Boundary, Entries
<1>5. \A i \in 1..Len(queue') : i \in 1..Len(queue) \/ i = Len(queue) + 1
  BY <1>2, <1>3
<1>6. \A i \in 1..Len(queue') : queue'[i].at <= enq /\ queue'[i].gen <= lossGen
  BY <1>1, <1>3, <1>5 DEF QueueInv
<1>7. \A i \in 1..Len(queue') : queue'[i].seq = done + i
  <2> SUFFICES ASSUME NEW i \in 1..Len(queue') PROVE queue'[i].seq = done + i
    OBVIOUS
  <2>1. CASE i \in 1..Len(queue)
    BY <2>1, <1>3 DEF QueueInv
  <2>2. CASE i = Len(queue) + 1
    <3>1. queue'[i].seq = queued + 1
      BY <2>2, <1>1, <1>3
    <3>2. i = queued - done + 1 /\ queued \in Nat /\ done \in Nat
      BY <2>2, <1>4 DEF QueueInv
    <3> QED
      BY <3>1, <3>2
  <2> QED
    BY <2>1, <2>2, <1>5
<1>8. Len(queue') = queued' - done
  BY <1>3, <1>4 DEF QueueInv
<1> QED
  BY <1>1, <1>3, <1>4, <1>6, <1>7, <1>8 DEF QueueInv

LEMMA Popped ==
  ASSUME QueueInv, TakeEntry
  PROVE  /\ worker # "Stopped" /\ queue # <<>> /\ done' = done + 1 /\ done' <= queued
         /\ Head(queue) = queue[1] /\ Head(queue) \in Entries /\ deq >= queue[1].at
         /\ Head(queue).gen <= lossGen
         /\ Len(queue') = Len(queue) - 1 /\ queue' \in Seq(Entries)
         /\ \A i \in 1..Len(queue') : queue'[i] = queue[i + 1]
<1>1. queue # <<>> /\ queue \in Seq(Entries) /\ queue' = Tail(queue) /\ deq >= Head(queue).at
      /\ done' = Head(queue).seq
  BY DEF TakeEntry, EntryDue, QueueInv
<1>2. /\ Len(queue) \in Nat /\ Len(queue) >= 1 /\ Head(queue) = queue[1] /\ queue[1] \in Entries
      /\ Len(queue') = Len(queue) - 1 /\ queue' \in Seq(Entries)
      /\ \A i \in 1..Len(queue') : queue'[i] = queue[i + 1]
  BY <1>1
<1>3. worker # "Stopped" /\ 1 \in 1..Len(queue)
  BY <1>1, <1>2 DEF QueueInv
<1>4. queue[1].seq = done + 1 /\ queue[1].gen <= lossGen /\ Len(queue) = queued - done
  BY <1>3 DEF QueueInv
<1>5. done + 1 <= queued
  BY <1>2, <1>4 DEF QueueInv
<1> QED
  BY <1>1, <1>2, <1>3, <1>4, <1>5

LEMMA QueueNext ==
  ASSUME IInv, [Next]_vars
  PROVE  QueueInv'
<1>0. /\ enq \in Nat /\ lossGen \in Nat /\ Stopper \notin Threads
      /\ Types /\ RingInv /\ QueueInv /\ FlushInv
  BY DEF IInv, Types, Stopper
<1>1. ASSUME UNCHANGED <<queue, queued, done, worker, running>>, enq' \in Nat, enq <= enq',
             lossGen' \in Nat, lossGen <= lossGen'
      PROVE  QueueInv'
  <2>1. \A i \in 1..Len(queue) : queue[i].at \in Nat /\ queue[i].gen \in Nat
    <3>1. queue \in Seq(Entries) /\ Len(queue) \in Nat
      BY <1>0 DEF QueueInv
    <3>2. \A i \in 1..Len(queue) : queue[i] \in Entries
      BY <3>1
    <3> QED
      BY <3>2 DEF Entries
  <2>2. \A i \in 1..Len(queue) : queue[i].at <= enq' /\ queue[i].gen <= lossGen'
    <3>1. /\ enq \in Nat /\ lossGen \in Nat
          /\ \A i \in 1..Len(queue) : queue[i].at <= enq /\ queue[i].gen <= lossGen
      BY <1>0 DEF QueueInv, Types
    <3>2. \A a, b, c \in Nat : a <= b /\ b <= c => a <= c
      OBVIOUS
    <3> QED
      BY <1>1, <2>1, <3>1, <3>2, Zenon
  <2> QED
    BY <1>0, <1>1, <2>2 DEF QueueInv
<1>2. ASSUME RingStays, UNCHANGED <<queue, queued, done, worker, running>> PROVE QueueInv'
  BY <1>0, <1>1, <1>2 DEF RingStays
<1>3. CASE StartConsoleCaptureWorker
  <2>1. queue = <<>> /\ queue' = <<>> /\ queued = 0 /\ queued' = 0 /\ done = 0 /\ done' = 0
    BY <1>0, <1>3 DEF StartConsoleCaptureWorker, QueueInv
  <2>2. worker' = "Running" /\ running' = TRUE /\ Len(queue') = 0
    BY <1>3, <2>1 DEF StartConsoleCaptureWorker
  <2>3. queue' \in Seq(Entries) /\ 1..0 = {}
    BY <2>1
  <2> QED
    BY <2>1, <2>2, <2>3 DEF QueueInv
<1>4. ASSUME NEW t \in Threads, Write(t) \/ CheckSlot(t) \/ FlushPause(t) \/ FlushUnmanaged(t)
      PROVE  QueueInv'
  BY <1>0, <1>2, <1>4, QuietSteps DEF Write, CheckSlot, FlushPause, FlushUnmanaged, control
<1>5. ASSUME NEW t \in Threads, Claim(t) PROVE QueueInv'
  <2>1. CASE Won(t)
    <3>1. enq' = enq + 1 /\ lossGen' = lossGen
      BY <1>5, <2>1 DEF Claim, Won
    <3> QED
      BY <1>0, <1>1, <1>5, <3>1 DEF Claim, control
  <2>2. CASE ~Won(t)
    BY <1>0, <1>2, <1>5, <2>2, QuietSteps DEF Claim, control
  <2> QED
    BY <2>1, <2>2
<1>6. ASSUME NEW t \in Threads, Stamp(t) \/ Publish(t) PROVE QueueInv'
  BY <1>0, <1>1, <1>6 DEF Stamp, Publish, control, gens
<1>7. ASSUME NEW t \in Threads, FlushDone(t) \/ ReadConsole(t) PROVE QueueInv'
  BY <1>0, <1>1, <1>7 DEF FlushDone, ReadConsole, control, gens, ring
<1>8. ASSUME NEW t \in Threads, FlushQueue(t) PROVE QueueInv'
  <2>1. worker # "Stopped"
    BY <1>0, <1>8 DEF FlushQueue, At, FlushInv, FlushHolds
  <2> QED
    BY <1>0, <1>8, <2>1, Appended DEF FlushQueue, ring, gens
<1>9. CASE StopQueue
  <2>1. worker # "Stopped"
    BY <1>0, <1>9 DEF StopQueue, At, FlushInv, StopperInv
  <2> QED
    BY <1>0, <1>9, <2>1, Appended DEF StopQueue, ring, gens
<1>10. CASE TakeRecord
  BY <1>0, <1>1, <1>10 DEF TakeRecord, control
<1>11. CASE TakeEntry
  <2>1. UNCHANGED <<enq, lossGen, worker, running, queued>>
    BY <1>11 DEF TakeEntry, ring
  <2>2. /\ worker # "Stopped" /\ done' = done + 1 /\ done' <= queued
        /\ Len(queue') = Len(queue) - 1 /\ queue' \in Seq(Entries)
        /\ \A i \in 1..Len(queue') : queue'[i] = queue[i + 1]
    BY <1>0, <1>11, Popped
  <2>3. Len(queue) \in Nat /\ Len(queue) = queued - done
        /\ \A i \in 1..Len(queue) : queue[i].seq = done + i
    BY <1>0, <2>2 DEF QueueInv
  <2>4. \A i \in 1..Len(queue') : i \in Nat /\ i + 1 \in 1..Len(queue)
    BY <2>2, <2>3
  <2>5. \A i \in 1..Len(queue') : queue'[i].at <= enq /\ queue'[i].gen <= lossGen
    BY <1>0, <2>2, <2>4 DEF QueueInv
  <2>6. \A i \in 1..Len(queue') : queue'[i].seq = done' + i
    <3> SUFFICES ASSUME NEW i \in 1..Len(queue') PROVE queue'[i].seq = done' + i
      OBVIOUS
    <3>1. i \in Nat /\ i + 1 \in 1..Len(queue) /\ queue'[i] = queue[i + 1]
      BY <2>2, <2>4
    <3>2. queue[i + 1].seq = done + (i + 1)
      BY <2>3, <3>1
    <3> QED
      BY <1>0, <2>2, <3>1, <3>2 DEF QueueInv
  <2>7. Len(queue') = queued - done'
    BY <1>0, <2>2, <2>3 DEF QueueInv
  <2> QED
    BY <1>0, <2>1, <2>2, <2>5, <2>6, <2>7 DEF QueueInv
<1>12. CASE WorkerExits
  BY <1>0, <1>12 DEF WorkerExits, ring, gens, QueueInv
<1>13. CASE StopPause
  <2>1. worker # "Stopped" /\ worker' \in {worker, "Draining"}
    BY <1>13 DEF StopPause
  <2> QED
    BY <1>0, <1>13, <2>1 DEF StopPause, ring, gens, QueueInv
<1>14. CASE StopDrained
  <2>1. worker # "Stopped"
    BY <1>0, <1>14 DEF StopDrained, At, FlushInv, StopperInv
  <2> QED
    BY <1>0, <1>14, <2>1 DEF StopDrained, ring, gens, QueueInv
<1>15. CASE StopJoined
  <2>1. queue' = <<>> /\ Len(queue') = 0 /\ queue' \in Seq(Entries)
    BY <1>15 DEF StopJoined
  <2> QED
    BY <1>0, <1>15, <2>1 DEF StopJoined, ring, gens, QueueInv
<1>16. CASE EmergencyStop
  BY <1>0, <1>1, <1>16 DEF EmergencyStop, ring, gens
<1>17. CASE UNCHANGED vars
  BY <1>0, <1>1, <1>17 DEF vars
<1> QED
  BY <1>3, <1>4, <1>5, <1>6, <1>7, <1>8, <1>9, <1>10, <1>11, <1>12, <1>13, <1>14, <1>15, <1>16, <1>17
     DEF Next, WriterStep, FlushStep, WorkerStep, StopStep

---------------------------------------------------------------------------
(* Flushes and the stop. *)

LEMMA GotoMoves ==
  ASSUME Types, NEW t \in Threads \cup {Stopper}, NEW where, NEW pos, Goto(t, where, pos)
  PROVE  /\ pc'[t].at = where /\ pc'[t].pos = pos
         /\ \A u \in Threads \cup {Stopper} : u # t => pc'[u] = pc[u]
BY DEF Goto, Types

LEMMA FlushHoldsNext ==
  ASSUME IInv, [Next]_vars
  PROVE  FlushHolds'
<1>0. Stopper \notin Threads /\ Free \notin Threads /\ Types /\ FlushHolds
  BY DEF IInv, FlushInv, Stopper, Free
<1>1. ASSUME UNCHANGED mutex, worker = "Running" => worker' = "Running",
             \A t \in Threads : pc'[t].at = "flush" => pc[t].at = "flush"
      PROVE  FlushHolds'
  BY <1>0, <1>1 DEF FlushHolds
<1>2. ASSUME mutex = Free PROVE \A t \in Threads : pc[t].at # "flush"
  BY <1>0, <1>2 DEF FlushHolds
<1>3. CASE StartConsoleCaptureWorker
  BY <1>1, <1>2, <1>3 DEF StartConsoleCaptureWorker
<1>4. ASSUME NEW t \in Threads, Write(t) PROVE FlushHolds'
  BY <1>0, <1>1, <1>4 DEF Write, Goto, control, Types
<1>5. ASSUME NEW t \in Threads, CheckSlot(t) PROVE FlushHolds'
  BY <1>0, <1>1, <1>5 DEF CheckSlot, Drop, Idle, Goto, control, Types
<1>6. ASSUME NEW t \in Threads, Claim(t) PROVE FlushHolds'
  BY <1>0, <1>1, <1>6 DEF Claim, Drop, Idle, Goto, control, Types
<1>7. ASSUME NEW t \in Threads, Stamp(t) PROVE FlushHolds'
  BY <1>0, <1>1, <1>7 DEF Stamp, Goto, control, Types
<1>8. ASSUME NEW t \in Threads, Publish(t) PROVE FlushHolds'
  BY <1>0, <1>1, <1>8 DEF Publish, Idle, control, Types
<1>9. ASSUME NEW t \in Threads, FlushPause(t) PROVE FlushHolds'
  <2>1. \A u \in Threads : pc[u].at # "flush"
    BY <1>2, <1>9 DEF FlushPause
  <2>2. \A u \in Threads : u # t => pc'[u] = pc[u]
    BY <1>9 DEF FlushPause, Goto, Types
  <2>3. mutex' = t /\ worker' = "Running"
    BY <1>9 DEF FlushPause, control
  <2> QED
    BY <2>1, <2>2, <2>3 DEF FlushHolds
<1>10. ASSUME NEW t \in Threads, FlushQueue(t) PROVE FlushHolds'
  <2>1. /\ pc[t].at = "flush" /\ pc'[t].at \in {"wait", "idle"}
        /\ \A u \in Threads : u # t => pc'[u] = pc[u]
    <3>1. PICK w, n : w \in {"wait", "idle"} /\ Goto(t, w, n)
      BY <1>10 DEF FlushQueue
    <3>2. pc[t].at = "flush"
      BY <1>10 DEF FlushQueue, At
    <3> QED
      BY <1>0, <3>1, <3>2, GotoMoves
  <2>2. \A u \in Threads : u # t => pc[u].at # "flush"
    BY <1>0, <2>1 DEF FlushHolds
  <2> QED
    BY <2>1, <2>2 DEF FlushHolds
<1>11. ASSUME NEW t \in Threads, FlushDone(t) PROVE FlushHolds'
  <2>1. pc'[t].at # "flush" /\ \A u \in Threads : u # t => pc'[u] = pc[u]
    <3>1. PICK w \in {"flushed", "idle"} : w = IF done >= pc[t].pos THEN "flushed" ELSE "idle"
      OBVIOUS
    <3>2. Goto(t, w, 0)
      BY <1>11, <3>1 DEF FlushDone
    <3> QED
      BY <1>0, <3>2, GotoMoves
  <2> QED
    BY <1>0, <1>1, <1>11, <2>1 DEF FlushDone, control
<1>12. ASSUME NEW t \in Threads, ReadConsole(t) PROVE FlushHolds'
  BY <1>0, <1>1, <1>12 DEF ReadConsole, Idle, control, Types
<1>13. ASSUME NEW t \in Threads, FlushUnmanaged(t) PROVE FlushHolds'
  BY <1>1, <1>13 DEF FlushUnmanaged, control
<1>14. CASE TakeRecord \/ TakeEntry \/ WorkerExits \/ EmergencyStop
  BY <1>1, <1>14 DEF TakeRecord, TakeEntry, WorkerExits, EmergencyStop, control
<1>15. CASE StopPause \/ StopDrained \/ StopJoined
  <2>1. mutex = Free /\ \A u \in Threads : pc'[u] = pc[u]
    BY <1>0, <1>15 DEF StopPause, StopDrained, StopJoined, Goto, Types
  <2> QED
    BY <1>2, <2>1 DEF FlushHolds
<1>16. CASE StopQueue
  <2>1. mutex = Stopper /\ \A u \in Threads : pc'[u] = pc[u]
    BY <1>0, <1>16 DEF StopQueue, At, Goto, Types, IInv, FlushInv, StopperInv
  <2> QED
    BY <1>0, <2>1 DEF FlushHolds
<1>17. CASE UNCHANGED vars
  BY <1>1, <1>17 DEF vars
<1> QED
  BY <1>3, <1>4, <1>5, <1>6, <1>7, <1>8, <1>9, <1>10, <1>11, <1>12, <1>13, <1>14, <1>15, <1>16, <1>17
     DEF Next, WriterStep, FlushStep, WorkerStep, StopStep

LEMMA StopperNext ==
  ASSUME IInv, [Next]_vars
  PROVE  StopperInv'
<1>0. /\ Stopper \notin Threads /\ Stopper # Free /\ Types /\ FlushHolds /\ StopperInv
      /\ queued \in Nat
  BY DEF IInv, FlushInv, QueueInv, Stopper, Free
<1>1. ASSUME UNCHANGED <<worker, queued>>, pc'[Stopper] = pc[Stopper], mutex = Stopper => mutex' = Stopper
      PROVE  StopperInv'
  BY <1>0, <1>1 DEF StopperInv
<1>2. CASE StartConsoleCaptureWorker
  BY <1>0, <1>2 DEF StartConsoleCaptureWorker, StopperInv
<1>3. ASSUME NEW t \in Threads, Write(t) \/ Stamp(t) \/ Publish(t) \/ ReadConsole(t)
      PROVE  StopperInv'
  BY <1>0, <1>1, <1>3 DEF Write, Stamp, Publish, ReadConsole, Goto, control, Types
<1>4. ASSUME NEW t \in Threads, CheckSlot(t) \/ Claim(t) PROVE StopperInv'
  BY <1>0, <1>1, <1>4 DEF CheckSlot, Claim, Drop, Goto, control, Types
<1>5. ASSUME NEW t \in Threads, FlushPause(t) PROVE StopperInv'
  BY <1>0, <1>1, <1>5 DEF FlushPause, Goto, control, Types
<1>6. ASSUME NEW t \in Threads, FlushQueue(t) PROVE StopperInv'
  <2>1. mutex = t /\ worker = "Running" /\ pc'[Stopper] = pc[Stopper]
    BY <1>0, <1>6 DEF FlushQueue, At, Goto, FlushHolds, Types
  <2>2. queued' = queued + 1 /\ worker' = worker
    BY <1>6 DEF FlushQueue
  <2> QED
    BY <1>0, <2>1, <2>2 DEF StopperInv
<1>7. ASSUME NEW t \in Threads, FlushDone(t) \/ FlushUnmanaged(t) PROVE StopperInv'
  BY <1>0, <1>1, <1>7 DEF FlushDone, FlushUnmanaged, Goto, control, Types
<1>8. CASE TakeRecord \/ TakeEntry \/ WorkerExits \/ EmergencyStop
  BY <1>1, <1>8 DEF TakeRecord, TakeEntry, WorkerExits, EmergencyStop, control
<1>9. CASE StopPause
  BY <1>0, <1>9 DEF StopPause, Goto, StopperInv, Types
<1>10. CASE StopQueue
  BY <1>0, <1>10 DEF StopQueue, At, Goto, StopperInv, Types
<1>11. CASE StopDrained
  BY <1>0, <1>11 DEF StopDrained, At, Goto, StopperInv, Types
<1>12. CASE StopJoined
  BY <1>0, <1>12 DEF StopJoined, Idle, StopperInv, Types
<1>13. CASE UNCHANGED vars
  BY <1>1, <1>13 DEF vars
<1> QED
  BY <1>2, <1>3, <1>4, <1>5, <1>6, <1>7, <1>8, <1>9, <1>10, <1>11, <1>12, <1>13
     DEF Next, WriterStep, FlushStep, WorkerStep, StopStep

LEMMA NotStartedNext ==
  ASSUME IInv, [Next]_vars
  PROVE  NotStarted'
<1> SUFFICES ASSUME worker' = "Stopped" /\ queued' = 0
             PROVE  /\ enq' = 0 /\ deq' = 0 /\ ~accepting'
                    /\ \A t \in Threads : pc'[t].at \notin {"claim", "stamp", "publish"} /\ pending'[t] = <<>>
  BY DEF NotStarted
<1>0. /\ Stopper \notin Threads /\ Types /\ FlushHolds /\ StopperInv /\ NotStarted
      /\ queued \in Nat /\ (worker = "Stopped" => ~running /\ queue = <<>>)
  BY DEF IInv, FlushInv, QueueInv, Stopper
<1> DEFINE Before == /\ worker = "Stopped" /\ enq = 0 /\ deq = 0 /\ ~accepting /\ ~running
                     /\ \A t \in Threads : pc[t].at \notin {"claim", "stamp", "publish"}
                     /\ \A t \in Threads : pending[t] = <<>>
           After == /\ enq' = 0 /\ deq' = 0 /\ ~accepting'
                    /\ \A t \in Threads : pc'[t].at \notin {"claim", "stamp", "publish"} /\ pending'[t] = <<>>
<1>1. ASSUME UNCHANGED <<worker, queued>> PROVE Before
  BY <1>0, <1>1 DEF NotStarted
<1>2. ASSUME NEW t \in Threads, Write(t) PROVE After
  BY <1>0, <1>1, <1>2 DEF Write, Goto, ring, control, text, Types
<1>3. ASSUME NEW t \in Threads, CheckSlot(t) PROVE After
  <2>1. Before /\ ~Room
    BY <1>1, <1>3 DEF CheckSlot, control, Room
  <2> QED
    BY <1>0, <1>3, <2>1 DEF CheckSlot, Drop, Idle, text, Types
<1>4. ASSUME NEW t \in Threads, Claim(t) \/ Stamp(t) \/ Publish(t) PROVE FALSE
  BY <1>0, <1>1, <1>4 DEF Claim, Stamp, Publish, At, control
<1>5. ASSUME NEW t \in Threads, FlushPause(t) \/ FlushQueue(t) PROVE FALSE
  BY <1>0, <1>5 DEF FlushPause, FlushQueue, At, control, FlushHolds
<1>6. ASSUME NEW t \in Threads, FlushDone(t) PROVE After
  <2>1. pc'[t].at \notin {"claim", "stamp", "publish"} /\ \A u \in Threads : u # t => pc'[u] = pc[u]
    <3>1. PICK w \in {"flushed", "idle"} : w = IF done >= pc[t].pos THEN "flushed" ELSE "idle"
      OBVIOUS
    <3>2. Goto(t, w, 0)
      BY <1>6, <3>1 DEF FlushDone
    <3> QED
      BY <1>0, <3>2, GotoMoves
  <2> QED
    BY <1>1, <1>6, <2>1 DEF FlushDone, ring, control, text
<1>7. ASSUME NEW t \in Threads, ReadConsole(t) PROVE After
  BY <1>0, <1>1, <1>7 DEF ReadConsole, Idle, ring, control, text, Types
<1>8. ASSUME NEW t \in Threads, FlushUnmanaged(t) PROVE FALSE
  BY <1>1, <1>8 DEF FlushUnmanaged, control
<1>9. ASSUME WorkerStep PROVE FALSE
  <2>1. running /\ UNCHANGED <<worker, queued>>
    BY <1>9 DEF WorkerStep, TakeRecord, TakeEntry, WorkerExits, control
  <2> QED
    BY <1>1, <2>1
<1>10. ASSUME StartConsoleCaptureWorker \/ StopPause \/ StopDrained \/ EmergencyStop PROVE FALSE
  BY <1>10 DEF StartConsoleCaptureWorker, StopPause, StopDrained, EmergencyStop
<1>11. ASSUME StopQueue \/ StopJoined PROVE FALSE
  BY <1>0, <1>11 DEF StopQueue, StopJoined, At, StopperInv
<1>12. ASSUME UNCHANGED vars PROVE After
  BY <1>1, <1>12 DEF vars
<1> QED
  BY <1>2, <1>3, <1>4, <1>5, <1>6, <1>7, <1>8, <1>9, <1>10, <1>11, <1>12
     DEF Next, WriterStep, FlushStep, StopStep

\* How a thread comes to wait for a flush, and from the wait to its end.
LEMMA Arrivals ==
  ASSUME Types, QueueInv, [Next]_vars, NEW t \in Threads
  PROVE  /\ pc'[t].at = "flushed" =>
              pc[t].at = "flushed" \/ (pc[t].at = "wait" /\ done >= pc[t].pos)
         /\ pc'[t].at = "wait" => pc'[t] = pc[t] \/ FlushQueue(t)
         /\ Stamp(t) => pc'[t].at = "publish"
<1> DEFINE Arrived ==
      /\ pc'[t].at = "flushed" => pc[t].at = "flushed" \/ (pc[t].at = "wait" /\ done >= pc[t].pos)
      /\ pc'[t].at = "wait" => pc'[t] = pc[t] \/ FlushQueue(t)
<1>0. Stopper \notin Threads
  BY DEF Stopper
<1>1. ASSUME pc'[t] = pc[t] PROVE Arrived
  BY <1>1
<1>2. ASSUME pc'[t].at \notin {"flushed", "wait"} PROVE Arrived
  BY <1>2
<1>3. ASSUME NEW u \in Threads, NEW w \in Places \ {"flushed", "wait"}, NEW n, Goto(u, w, n)
      PROVE  Arrived
  BY <1>1, <1>2, <1>3, GotoMoves
<1>4. ASSUME NEW u \in Threads, pc' = [pc EXCEPT ![u] = Idle] PROVE Arrived
  <2>1. pc'[t] = pc[t] \/ pc'[t].at = "idle"
    BY <1>4 DEF Idle, Types
  <2> QED
    BY <1>1, <1>2, <2>1
<1>5. ASSUME NEW u \in Threads, Write(u) PROVE Arrived
  BY <1>3, <1>5 DEF Write, Places
<1>6. ASSUME NEW u \in Threads, CheckSlot(u) PROVE Arrived
  <2>1. (\E n : Goto(u, "claim", n)) \/ Drop(u)
    BY <1>6 DEF CheckSlot
  <2> QED
    BY <1>3, <1>4, <2>1 DEF Drop, Places
<1>7. ASSUME NEW u \in Threads, Claim(u) PROVE Arrived
  <2>1. (\E n : Goto(u, "stamp", n)) \/ Drop(u)
    BY <1>7 DEF Claim
  <2> QED
    BY <1>3, <1>4, <2>1 DEF Drop, Places
<1>8. ASSUME NEW u \in Threads, Stamp(u) PROVE Arrived
  <2>1. \E n : Goto(u, "publish", n)
    BY <1>8 DEF Stamp
  <2> QED
    BY <1>3, <2>1 DEF Places
<1>9. ASSUME NEW u \in Threads, Publish(u) PROVE Arrived
  BY <1>4, <1>9 DEF Publish
<1>10. ASSUME NEW u \in Threads, FlushPause(u) PROVE Arrived
  <2>1. \E n : Goto(u, "flush", n)
    BY <1>10 DEF FlushPause
  <2> QED
    BY <1>3, <2>1 DEF Places
<1>11. ASSUME NEW u \in Threads, FlushQueue(u) PROVE Arrived
  <2>1. PICK w, n : w \in {"wait", "idle"} /\ Goto(u, w, n)
    BY <1>11 DEF FlushQueue
  <2>2. \A v \in Threads : v # u => pc'[v] = pc[v]
    BY <2>1, GotoMoves
  <2>3. pc'[u].at = w
    BY <2>1, GotoMoves
  <2> QED
    BY <1>1, <1>2, <1>11, <2>1, <2>2, <2>3
<1>12. ASSUME NEW u \in Threads, FlushDone(u) PROVE Arrived
  <2>1. PICK w \in {"flushed", "idle"} : w = IF done >= pc[u].pos THEN "flushed" ELSE "idle"
    OBVIOUS
  <2>2. Goto(u, w, 0) /\ pc[u].at = "wait"
    BY <1>12, <2>1 DEF FlushDone, At
  <2>3. pc'[u].at = w /\ \A v \in Threads : v # u => pc'[v] = pc[v]
    BY <2>2, GotoMoves
  <2> QED
    BY <1>1, <2>1, <2>2, <2>3
<1>13. ASSUME NEW u \in Threads, ReadConsole(u) PROVE Arrived
  BY <1>4, <1>13 DEF ReadConsole
<1>14. ASSUME NEW u \in Threads, FlushUnmanaged(u) PROVE Arrived
  BY <1>1, <1>14 DEF FlushUnmanaged
<1>15. ASSUME StartConsoleCaptureWorker \/ WorkerStep \/ EmergencyStop \/ UNCHANGED vars
       PROVE  Arrived
  BY <1>1, <1>15 DEF StartConsoleCaptureWorker, WorkerStep, TakeRecord, TakeEntry, WorkerExits,
                    EmergencyStop, vars
<1>16. ASSUME StopPause \/ StopStep PROVE Arrived
  <2>1. (\E w, n : Goto(Stopper, w, n)) \/ pc' = [pc EXCEPT ![Stopper] = Idle]
    BY <1>16 DEF StopPause, StopStep, StopQueue, StopDrained, StopJoined
  <2>2. pc'[t] = pc[t]
    BY <1>0, <2>1, GotoMoves DEF Types
  <2> QED
    BY <1>1, <2>2
<1>17. Arrived
  BY <1>5, <1>6, <1>7, <1>8, <1>9, <1>10, <1>11, <1>12, <1>13, <1>14, <1>15, <1>16
     DEF Next, WriterStep, FlushStep
<1>18. Stamp(t) => pc'[t].at = "publish"
  BY DEF Stamp, Goto, Types
<1> QED
  BY <1>17, <1>18

LEMMA FlushedCleanNext ==
  ASSUME IInv, [Next]_vars
  PROVE  FlushedClean'
<1> SUFFICES ASSUME NEW t \in Threads, pc'[t].at = "flushed", NEW p \in Nat PROVE ~Rec(t, p)'
  BY DEF FlushedClean
<1>1. Types /\ RingInv /\ QueueInv /\ FlushInv /\ pc[t].pos \in Nat /\ done \in Nat
  BY DEF IInv, Types, QueueInv
<1>2. ~Stamp(t)
  BY <1>1, Arrivals
<1>3. Rec(t, p)' => Rec(t, p)
  BY <1>1, <1>2, RingNext DEF NoNewRec
<1>4. CASE pc[t].at = "flushed"
  BY <1>1, <1>3, <1>4 DEF FlushInv, FlushedClean
<1>5. CASE pc[t].at = "wait" /\ done >= pc[t].pos
  <2>1. pc[t].pos <= done
    BY <1>1, <1>5
  <2> QED
    BY <1>1, <1>3, <1>5, <2>1 DEF FlushInv, WaitsBehind
<1> QED
  BY <1>1, <1>4, <1>5, Arrivals

\* What a step may do to the queue and its two numbers.
LEMMA QueueSteps ==
  ASSUME StopperInv, [Next]_vars
  PROVE  \/ UNCHANGED <<queue, queued, done>> /\ (worker' # "Stopped" => worker # "Stopped")
         \/ worker = "Stopped" /\ queued = 0
         \/ worker' = "Stopped" /\ UNCHANGED <<queued, done>>
         \/ TakeEntry
         \/ (\E u \in Threads : FlushQueue(u)) \/ StopQueue
<1> DEFINE Quietly == UNCHANGED <<queue, queued, done>> /\ (worker' # "Stopped" => worker # "Stopped")
<1>1. ASSUME NEW t \in Threads,
             Write(t) \/ CheckSlot(t) \/ Claim(t) \/ Stamp(t) \/ Publish(t)
      PROVE  Quietly
  BY <1>1 DEF Write, CheckSlot, Claim, Stamp, Publish, control
<1>2. ASSUME NEW t \in Threads,
             FlushPause(t) \/ FlushDone(t) \/ ReadConsole(t) \/ FlushUnmanaged(t)
      PROVE  Quietly
  BY <1>2 DEF FlushPause, FlushDone, ReadConsole, FlushUnmanaged, control
<1>3. ASSUME TakeRecord \/ WorkerExits \/ EmergencyStop \/ UNCHANGED vars PROVE Quietly
  BY <1>3 DEF TakeRecord, WorkerExits, EmergencyStop, control, vars
<1>4. ASSUME StopPause PROVE Quietly
  BY <1>4 DEF StopPause
<1>5. ASSUME StopDrained PROVE Quietly
  BY <1>5 DEF StopDrained, At, StopperInv
<1> QED
  BY <1>1, <1>2, <1>3, <1>4, <1>5
     DEF Next, WriterStep, FlushStep, WorkerStep, StopStep, StopJoined, StartConsoleCaptureWorker

LEMMA WaitsBehindNext ==
  ASSUME IInv, [Next]_vars
  PROVE  WaitsBehind'
<1> SUFFICES ASSUME NEW t \in Threads, pc'[t].at = "wait"
             PROVE  /\ 1 <= pc'[t].pos /\ pc'[t].pos <= queued'
                    /\ pc'[t].pos <= done' => \A p \in Nat : ~Rec(t, p)'
                    /\ done' < pc'[t].pos /\ worker' # "Stopped" =>
                         \A p \in Nat : Rec(t, p)' => p < queue'[pc'[t].pos - done'].at
  BY DEF WaitsBehind
<1>0. /\ Types /\ RingInv /\ QueueInv /\ FlushInv /\ StopperInv /\ WaitsBehind
      /\ queued \in Nat /\ done \in Nat /\ done <= queued /\ enq \in Nat /\ lossGen \in Nat
      /\ pc[t].pos \in Nat
  BY DEF IInv, FlushInv, QueueInv, Types
<1>1. ~Stamp(t)
  BY <1>0, Arrivals
<1>2. ASSUME NEW p \in Nat PROVE Rec(t, p)' => Rec(t, p)
  BY <1>0, <1>1, RingNext DEF NoNewRec
<1>3. \A p \in Nat : Rec(t, p) => deq <= p /\ p < enq
  BY DEF Rec
<1>4. CASE FlushQueue(t)
  <2>1. PICK n : n = queued + 1
    OBVIOUS
  <2>2. Goto(t, "wait", n) /\ pc[t].at = "flush" /\ queued' = n /\ UNCHANGED <<done, worker, enq>>
    <3>1. ~Goto(t, "idle", 0)
      BY <1>0, GotoMoves
    <3> QED
      BY <1>4, <2>1, <3>1 DEF FlushQueue, At, ring
  <2>3. pc'[t].pos = n /\ worker = "Running"
    BY <1>0, <2>2, GotoMoves DEF FlushInv, FlushHolds
  <2>4. Len(queue) = queued - done /\ queue'[Len(queue) + 1].at = enq
    BY <1>0, <1>4, <2>3, Appended DEF FlushQueue, ring, gens
  <2>5. n - done' = Len(queue) + 1
    BY <1>0, <2>1, <2>2, <2>4
  <2>6. queue'[n - done'].at = enq
    BY <2>4, <2>5
  <2> QED
    BY <1>0, <1>2, <1>3, <2>1, <2>2, <2>3, <2>6
<1>5. CASE pc'[t] = pc[t]
  <2>0. PICK n \in Nat : n = pc[t].pos
    BY <1>0
  <2>1. /\ pc'[t].pos = n /\ 1 <= n /\ n <= queued
        /\ n <= done => \A p \in Nat : ~Rec(t, p)
        /\ done < n /\ worker # "Stopped" => \A p \in Nat : Rec(t, p) => p < queue[n - done].at
    BY <1>0, <1>5, <2>0 DEF WaitsBehind
  <2>2. CASE UNCHANGED <<queue, queued, done>> /\ (worker' # "Stopped" => worker # "Stopped")
    BY <1>2, <2>1, <2>2
  <2>3. CASE worker = "Stopped" /\ queued = 0
    BY <2>1, <2>3
  <2>4. CASE worker' = "Stopped" /\ UNCHANGED <<queued, done>>
    BY <1>2, <2>1, <2>4
  <2>5. CASE TakeEntry
    <3>1. /\ worker # "Stopped" /\ done' = done + 1 /\ deq >= queue[1].at
          /\ queue[1].at \in Nat /\ queued' = queued
          /\ Len(queue') = Len(queue) - 1
          /\ \A i \in 1..Len(queue') : queue'[i] = queue[i + 1]
      BY <1>0, <2>5, Popped DEF TakeEntry, Entries
    <3>2. Len(queue) = queued - done
      BY <1>0, <3>1 DEF QueueInv
    <3>3. CASE n <= done
      BY <1>0, <1>2, <2>1, <3>1, <3>3
    <3>4. CASE n = done + 1
      <4>1. n - done = 1
        BY <1>0, <3>4
      <4>2. \A p \in Nat : ~Rec(t, p)
        <5> SUFFICES ASSUME NEW p \in Nat, Rec(t, p) PROVE FALSE
          OBVIOUS
        <5>1. deq <= p /\ deq \in Nat
          BY <1>0, <1>3 DEF Types
        <5>2. done < n
          BY <1>0, <3>4
        <5>3. p < queue[n - done].at
          BY <2>1, <3>1, <5>2
        <5>4. p < queue[1].at
          BY <4>1, <5>3
        <5> QED
          BY <3>1, <5>1, <5>4
      <4> QED
        BY <1>0, <1>2, <2>1, <3>1, <3>4, <4>2
    <3>5. CASE done + 1 < n
      <4>1. n - done' \in 1..Len(queue') /\ (n - done') + 1 = n - done
        BY <1>0, <2>1, <3>1, <3>2, <3>5
      <4>2. queue'[n - done'] = queue[n - done]
        BY <3>1, <4>1
      <4>3. \A p \in Nat : Rec(t, p) => p < queue'[n - done'].at
        BY <1>0, <2>1, <3>1, <3>5, <4>2
      <4> QED
        BY <1>0, <1>2, <2>1, <3>1, <3>5, <4>3
    <3> QED
      BY <1>0, <3>3, <3>4, <3>5
  <2>6. CASE (\E u \in Threads : FlushQueue(u)) \/ StopQueue
    <3>1. worker # "Stopped"
      BY <1>0, <2>6 DEF FlushQueue, StopQueue, At, FlushInv, FlushHolds, StopperInv
    <3>2. PICK kind \in {"flush", "close"} :
            /\ queue' = Append(queue, Boundary(kind)) /\ queued' = queued + 1
            /\ UNCHANGED <<enq, lossGen, done, worker, running>>
      <4>1. ASSUME NEW u \in Threads, FlushQueue(u)
            PROVE  /\ queue' = Append(queue, Boundary("flush")) /\ queued' = queued + 1
                   /\ UNCHANGED <<enq, lossGen, done, worker, running>>
        BY <4>1 DEF FlushQueue, ring, gens
      <4>2. ASSUME StopQueue
            PROVE  /\ queue' = Append(queue, Boundary("close")) /\ queued' = queued + 1
                   /\ UNCHANGED <<enq, lossGen, done, worker, running>>
        BY <4>2 DEF StopQueue, ring, gens
      <4>3. CASE \E u \in Threads : FlushQueue(u)
        <5>1. PICK u \in Threads : FlushQueue(u)
          BY <4>3
        <5> HIDE DEF Boundary
        <5> QED
          BY <4>1, <5>1
      <4>4. CASE StopQueue
        BY <4>2, <4>4
      <4> QED
        BY <2>6, <4>3, <4>4
    <3>3. Len(queue) = queued - done /\ \A i \in 1..Len(queue) : queue'[i] = queue[i]
      BY <1>0, <3>1, <3>2, Appended
    <3>4. done < n => queue'[n - done] = queue[n - done]
      BY <1>0, <2>1, <3>3
    <3>5. done' = done /\ n <= queued'
      BY <1>0, <2>1, <3>2
    <3>6. n <= done' => \A p \in Nat : ~Rec(t, p)'
      BY <1>2, <2>1, <3>5
    <3>7. done' < n => \A p \in Nat : Rec(t, p)' => p < queue'[n - done'].at
      BY <1>2, <2>1, <3>1, <3>4, <3>5
    <3> QED
      BY <2>1, <3>5, <3>6, <3>7
  <2> QED
    BY <1>0, <2>2, <2>3, <2>4, <2>5, <2>6, QueueSteps
<1> QED
  BY <1>0, <1>4, <1>5, Arrivals

LEMMA FlushNext ==
  ASSUME IInv, [Next]_vars
  PROVE  FlushInv'
BY FlushHoldsNext, WaitsBehindNext, FlushedCleanNext, StopperNext, NotStartedNext DEF FlushInv

---------------------------------------------------------------------------
(* The text. *)

LEMMA RecTypes ==
  ASSUME Types, RingInv, NEW t \in Threads, NEW p \in Nat, Rec(t, p)
  PROVE  /\ ChunkAt(p) \in 1..LineLength /\ GenAt(p) \in Nat /\ GenAt(p) <= lossGen
         /\ deq <= p /\ p < enq
<1>1. ChunkAt(p) \in 0..LineLength /\ GenAt(p) \in Nat
  BY IndexType DEF Types, SlotType, ChunkAt, GenAt
<1>2. ChunkAt(p) >= 1 /\ GenAt(p) <= lossGen
  BY DEF RingInv
<1> QED
  BY <1>1, <1>2 DEF Rec

\* Steps that leave every record as it is.  A thread keeps its next chunk
\* unless a loss is counted; a line is kept or thrown away.
LEMMA TextStays ==
  ASSUME Types, RingInv, TextInv, RecsStay, TextTypes', Rising(line)',
         lossGen' \in Nat, lossGen <= lossGen',
         \A t \in Threads : \/ pending'[t] = <<>>
                            \/ pending'[t] = pending[t] /\ seenGen' = seenGen,
         \A t \in Threads : \/ lossGen < lossGen'
                            \/ /\ chunk'[t] = chunk[t]
                               /\ pc'[t].at # "publish" => pc[t].at # "publish",
         \A t \in Threads : Fills(t)' => \/ Fills(t) /\ pc'[t].pos = pc[t].pos
                                         \/ pc'[t].pos = enq
  PROVE  TextInv'
<1>0. /\ \A t \in Threads, p \in Nat : Rec(t, p)' <=> Rec(t, p)
      /\ \A t \in Threads, p \in Nat : Rec(t, p) => ChunkAt(p)' = ChunkAt(p) /\ GenAt(p)' = GenAt(p)
      /\ lossGen \in Nat /\ enq \in Nat /\ seenGen \in Nat /\ seenGen <= lossGen
  BY DEF RecsStay, Types, TextInv, TextTypes
<1>1. LinesRise'
  <2> SUFFICES ASSUME NEW t \in Threads
               PROVE  Rising(pending'[t]) /\ (pending'[t] # <<>> => Last(pending'[t]) < LineLength)
    BY DEF LinesRise, Unfinished
  <2>1. Rising(<<>>)
    BY DEF Rising
  <2>2. Rising(pending[t]) /\ (pending[t] # <<>> => Last(pending[t]) < LineLength)
    BY DEF TextInv, LinesRise, Unfinished
  <2> QED
    BY <2>1, <2>2
<1>2. NothingAhead'
  <2> SUFFICES ASSUME NEW t \in Threads, NEW p \in Nat, Fills(t)', pc'[t].pos < p PROVE ~Rec(t, p)
    BY <1>0 DEF NothingAhead
  <2>1. Rec(t, p) => p < enq
    BY DEF Rec
  <2>2. CASE Fills(t) /\ pc'[t].pos = pc[t].pos
    BY <2>2 DEF TextInv, NothingAhead
  <2>3. CASE pc'[t].pos = enq
    BY <1>0, <2>1, <2>3
  <2> QED
    BY <2>2, <2>3
<1>3. RecordsFollow'
  <2> SUFFICES ASSUME NEW t \in Threads, NEW q \in Nat, NEW p \in Nat, NextRec(t, q, p)'
               PROVE  GenAt(q)' < GenAt(p)' \/ ChunkAt(p)' = Following(ChunkAt(q))'
    BY DEF RecordsFollow
  <2>1. NextRec(t, q, p) /\ Rec(t, q) /\ Rec(t, p)
    BY <1>0 DEF NextRec
  <2>2. GenAt(q) < GenAt(p) \/ ChunkAt(p) = Following(ChunkAt(q))
    BY <2>1 DEF TextInv, RecordsFollow
  <2>3. /\ ChunkAt(p)' = ChunkAt(p) /\ GenAt(p)' = GenAt(p)
        /\ ChunkAt(q)' = ChunkAt(q) /\ GenAt(q)' = GenAt(q)
    BY <1>0, <2>1
  <2> QED
    BY <2>2, <2>3 DEF Following
<1>4. FirstContinues'
  <2> SUFFICES ASSUME NEW t \in Threads, NEW p \in Nat, FirstRec(t, p)', pending'[t] # <<>>
               PROVE  seenGen' < GenAt(p)' \/ ChunkAt(p)' = Last(pending'[t]) + 1
    BY DEF FirstContinues, Unfinished
  <2>1. FirstRec(t, p) /\ Rec(t, p)
    BY <1>0 DEF FirstRec
  <2>2. pending'[t] = pending[t] /\ seenGen' = seenGen
    OBVIOUS
  <2>3. seenGen < GenAt(p) \/ ChunkAt(p) = Last(pending[t]) + 1
    BY <2>1, <2>2 DEF TextInv, FirstContinues, Unfinished
  <2> QED
    BY <1>0, <2>1, <2>2, <2>3
<1>5. LastContinued'
  <2> SUFFICES ASSUME NEW t \in Threads, NEW q \in Nat, LastRec(t, q)', pc'[t].at # "publish"
               PROVE  GenAt(q)' < lossGen' \/ chunk'[t] = Following(ChunkAt(q))'
    BY DEF LastContinued
  <2>1. LastRec(t, q) /\ Rec(t, q)
    BY <1>0 DEF LastRec
  <2>2. GenAt(q)' = GenAt(q) /\ ChunkAt(q)' = ChunkAt(q) /\ GenAt(q) \in Nat /\ GenAt(q) <= lossGen
    BY <1>0, <2>1, RecTypes
  <2>3. CASE lossGen < lossGen'
    BY <1>0, <2>2, <2>3
  <2>4. CASE chunk'[t] = chunk[t] /\ pc[t].at # "publish"
    <3>1. GenAt(q) < lossGen \/ chunk[t] = Following(ChunkAt(q))
      BY <2>1, <2>4 DEF TextInv, LastContinued
    <3> QED
      BY <1>0, <2>2, <2>4, <3>1 DEF Following
  <2> QED
    BY <2>3, <2>4
<1>6. NextContinues'
  <2> SUFFICES ASSUME NEW t \in Threads, \A p \in Nat : ~Rec(t, p)', pending'[t] # <<>>
               PROVE  seenGen' < lossGen' \/ chunk'[t] = Last(pending'[t]) + 1
    BY DEF NextContinues, Unfinished
  <2>1. pending'[t] = pending[t] /\ seenGen' = seenGen /\ \A p \in Nat : ~Rec(t, p)
    BY <1>0
  <2>2. CASE lossGen < lossGen'
    BY <1>0, <2>1, <2>2
  <2>3. CASE chunk'[t] = chunk[t]
    <3>1. seenGen < lossGen \/ chunk[t] = Last(pending[t]) + 1
      BY <2>1 DEF TextInv, NextContinues, Unfinished
    <3> QED
      BY <1>0, <2>1, <2>3, <3>1
  <2> QED
    BY <2>2, <2>3
<1> QED
  BY <1>1, <1>2, <1>3, <1>4, <1>5, <1>6 DEF TextInv

\* A new record of a thread comes after all its others.
LEMMA TextStamp ==
  ASSUME Types, RingInv, TextInv, NEW t \in Threads, Stamp(t)
  PROVE  TextInv'
<1>0. PICK n \in Nat : n = pc[t].pos
  BY DEF Types
<1>1. /\ pc[t].at = "stamp" /\ pc'[t].at = "publish" /\ pc'[t].pos = n
      /\ \A u \in Threads : u # t => pc'[u] = pc[u]
      /\ UNCHANGED <<lossGen, seenGen, chunk, pending, line>>
  BY <1>0 DEF Stamp, At, Goto, gens, progress, text, Types
<1>2. /\ \A u \in Threads, p \in Nat : Rec(u, p)' <=> (Rec(u, p) \/ (u = t /\ p = n))
      /\ \A u \in Threads, p \in Nat : Rec(u, p) => ChunkAt(p)' = ChunkAt(p) /\ GenAt(p)' = GenAt(p)
      /\ ChunkAt(n)' = chunk[t] /\ GenAt(n)' = lossGen
  <2>1. NewRec(t) /\ ChunkAt(pc[t].pos)' = chunk[t] /\ GenAt(pc[t].pos)' = lossGen
    BY StampKeeps
  <2>2. ChunkAt(pc[t].pos)' = ChunkAt(n)' /\ GenAt(pc[t].pos)' = GenAt(n)'
    <3>1. pc'[t].pos = n
      BY <1>1
    <3> QED
      BY <1>0, <3>1, <2>1, StampKeeps, <1>1 DEF ChunkAt, GenAt, Stamp, Goto, Types
  <2> QED
    BY <1>0, <2>1, <2>2 DEF NewRec
<1>3. Fills(t) /\ \A p \in Nat : n < p => ~Rec(t, p)
  BY <1>0, <1>1 DEF Fills, TextInv, NothingAhead
<1>4. ~Rec(t, n)
  <2>1. deq <= n /\ n < deq + Capacity /\ SeqAt(n) = n
    BY <1>0, <1>3 DEF RingInv, Types
  <2> QED
    BY <1>1, <2>1 DEF Rec
<1>5. TextTypes' /\ LinesRise'
  BY <1>1 DEF TextInv, TextTypes, LinesRise, Rising, Unfinished
<1>6. NothingAhead'
  <2> SUFFICES ASSUME NEW u \in Threads, NEW p \in Nat, Fills(u)', pc'[u].pos < p PROVE ~Rec(u, p)'
    BY DEF NothingAhead
  <2>1. CASE u = t
    BY <1>1, <1>2, <1>3, <2>1
  <2>2. CASE u # t
    <3>1. Fills(u) /\ pc[u].pos < p
      BY <1>1, <2>2 DEF Fills
    <3> QED
      BY <1>2, <2>2, <3>1 DEF TextInv, NothingAhead
  <2> QED
    BY <2>1, <2>2
<1>7. RecordsFollow'
  <2> SUFFICES ASSUME NEW u \in Threads, NEW q \in Nat, NEW p \in Nat, NextRec(u, q, p)'
               PROVE  GenAt(q)' < GenAt(p)' \/ ChunkAt(p)' = Following(ChunkAt(q))'
    BY DEF RecordsFollow
  <2>1. Rec(u, q)' /\ Rec(u, p)' /\ q < p /\ \A r \in Nat : q < r /\ r < p => ~Rec(u, r)'
    BY DEF NextRec
  <2>2. CASE u = t /\ p = n
    <3>1. Rec(t, q) /\ \A r \in Nat : q < r => ~Rec(t, r)
      BY <1>2, <1>3, <1>4, <2>1, <2>2
    <3>2. LastRec(t, q)
      BY <3>1 DEF LastRec
    <3>3. GenAt(q) < lossGen \/ chunk[t] = Following(ChunkAt(q))
      BY <1>1, <3>2 DEF TextInv, LastContinued
    <3> QED
      BY <1>2, <2>2, <3>1, <3>3 DEF Following
  <2>3. CASE ~(u = t /\ p = n)
    <3>1. Rec(u, p) /\ ~(u = t /\ q = n)
      BY <1>2, <1>3, <2>1, <2>3
    <3>2. Rec(u, q) /\ NextRec(u, q, p)
      BY <1>2, <2>1, <3>1 DEF NextRec
    <3>3. GenAt(q) < GenAt(p) \/ ChunkAt(p) = Following(ChunkAt(q))
      BY <3>2 DEF TextInv, RecordsFollow
    <3>4. /\ ChunkAt(p)' = ChunkAt(p) /\ GenAt(p)' = GenAt(p)
          /\ ChunkAt(q)' = ChunkAt(q) /\ GenAt(q)' = GenAt(q)
      BY <1>2, <3>1, <3>2
    <3> QED
      BY <3>3, <3>4 DEF Following
  <2> QED
    BY <2>2, <2>3
<1>8. FirstContinues'
  <2> SUFFICES ASSUME NEW u \in Threads, NEW p \in Nat, FirstRec(u, p)', pending[u] # <<>>
               PROVE  seenGen < GenAt(p)' \/ ChunkAt(p)' = Last(pending[u]) + 1
    BY <1>1 DEF FirstContinues, Unfinished
  <2>1. Rec(u, p)' /\ \A r \in Nat : r < p => ~Rec(u, r)'
    BY DEF FirstRec
  <2>2. CASE u = t /\ p = n
    <3>1. \A r \in Nat : ~Rec(t, r)
      BY <1>2, <1>3, <1>4, <2>1, <2>2
    <3>2. seenGen < lossGen \/ chunk[t] = Last(pending[t]) + 1
      BY <2>2, <3>1 DEF TextInv, NextContinues, Unfinished
    <3> QED
      BY <1>2, <2>2, <3>2
  <2>3. CASE ~(u = t /\ p = n)
    <3>1. Rec(u, p) /\ FirstRec(u, p)
      BY <1>2, <2>1, <2>3 DEF FirstRec
    <3>2. seenGen < GenAt(p) \/ ChunkAt(p) = Last(pending[u]) + 1
      BY <3>1 DEF TextInv, FirstContinues, Unfinished
    <3> QED
      BY <1>2, <3>1, <3>2
  <2> QED
    BY <2>2, <2>3
<1>9. LastContinued'
  <2> SUFFICES ASSUME NEW u \in Threads, NEW q \in Nat, LastRec(u, q)', pc'[u].at # "publish"
               PROVE  GenAt(q)' < lossGen \/ chunk[u] = Following(ChunkAt(q))'
    BY <1>1 DEF LastContinued
  <2>1. u # t /\ pc'[u] = pc[u]
    BY <1>1
  <2>2. Rec(u, q) /\ LastRec(u, q)
    BY <1>2, <2>1 DEF LastRec
  <2>3. GenAt(q) < lossGen \/ chunk[u] = Following(ChunkAt(q))
    BY <2>1, <2>2 DEF TextInv, LastContinued
  <2> QED
    BY <1>2, <2>2, <2>3 DEF Following
<1>10. NextContinues'
  <2> SUFFICES ASSUME NEW u \in Threads, \A p \in Nat : ~Rec(u, p)', pending[u] # <<>>
               PROVE  seenGen < lossGen \/ chunk[u] = Last(pending[u]) + 1
    BY <1>1 DEF NextContinues, Unfinished
  <2>1. u # t /\ \A p \in Nat : ~Rec(u, p)
    BY <1>2
  <2> QED
    BY <2>1 DEF TextInv, NextContinues, Unfinished
<1> QED
  BY <1>5, <1>6, <1>7, <1>8, <1>9, <1>10 DEF TextInv

\* The published record is the last of its thread, which goes on to the
\* chunk after it.
LEMMA TextPublish ==
  ASSUME Types, RingInv, TextInv, NEW t \in Threads, Publish(t)
  PROVE  TextInv'
<1>0. PICK n \in Nat : n = pc[t].pos
  BY DEF Types
<1>1. /\ pc[t].at = "publish" /\ pc'[t].at = "idle"
      /\ \A u \in Threads : u # t => pc'[u] = pc[u]
      /\ UNCHANGED <<enq, lossGen, seenGen, pending, line>>
      /\ chunk' = [chunk EXCEPT ![t] = Following(chunk[t])]
  BY NextChunkFollows DEF Publish, At, Idle, gens, text, Types
<1>2. RecsStay
  BY PublishKeeps
<1>3. /\ \A u \in Threads, p \in Nat : Rec(u, p)' <=> Rec(u, p)
      /\ \A u \in Threads, p \in Nat : Rec(u, p) => ChunkAt(p)' = ChunkAt(p) /\ GenAt(p)' = GenAt(p)
  BY <1>2 DEF RecsStay
<1>4. Fills(t) /\ ChunkAt(n) = chunk[t] /\ Rec(t, n) /\ \A p \in Nat : n < p => ~Rec(t, p)
  <2>1. Fills(t)
    BY <1>1 DEF Fills
  <2>2. OwnerAt(n) = t /\ ChunkAt(n) = chunk[t]
    BY <1>0, <1>1 DEF RingInv
  <2>3. deq <= n /\ n < enq
    BY <1>0, <2>1 DEF RingInv
  <2>4. \A p \in Nat : n < p => ~Rec(t, p)
    BY <1>0, <2>1 DEF TextInv, NothingAhead
  <2> QED
    BY <1>0, <1>1, <2>1, <2>2, <2>3, <2>4 DEF Rec
<1>5. chunk'[t] = Following(chunk[t]) /\ \A u \in Threads : u # t => chunk'[u] = chunk[u]
  BY <1>1 DEF Types
<1>6. TextTypes' /\ LinesRise'
  BY <1>1 DEF TextInv, TextTypes, LinesRise, Rising, Unfinished
<1>7. NothingAhead'
  BY <1>1, <1>3 DEF TextInv, NothingAhead, Fills
<1>8. RecordsFollow'
  <2> SUFFICES ASSUME NEW u \in Threads, NEW q \in Nat, NEW p \in Nat, NextRec(u, q, p)'
               PROVE  GenAt(q)' < GenAt(p)' \/ ChunkAt(p)' = Following(ChunkAt(q))'
    BY DEF RecordsFollow
  <2>1. NextRec(u, q, p) /\ Rec(u, q) /\ Rec(u, p)
    BY <1>3 DEF NextRec
  <2>2. GenAt(q) < GenAt(p) \/ ChunkAt(p) = Following(ChunkAt(q))
    BY <2>1 DEF TextInv, RecordsFollow
  <2> QED
    BY <1>3, <2>1, <2>2 DEF Following
<1>9. FirstContinues'
  <2> SUFFICES ASSUME NEW u \in Threads, NEW p \in Nat, FirstRec(u, p)', pending[u] # <<>>
               PROVE  seenGen < GenAt(p)' \/ ChunkAt(p)' = Last(pending[u]) + 1
    BY <1>1 DEF FirstContinues, Unfinished
  <2>1. FirstRec(u, p) /\ Rec(u, p)
    BY <1>3 DEF FirstRec
  <2> QED
    BY <1>3, <2>1 DEF TextInv, FirstContinues, Unfinished
<1>10. LastContinued'
  <2> SUFFICES ASSUME NEW u \in Threads, NEW q \in Nat, LastRec(u, q)', pc'[u].at # "publish"
               PROVE  GenAt(q)' < lossGen \/ chunk'[u] = Following(ChunkAt(q))'
    BY <1>1 DEF LastContinued
  <2>1. LastRec(u, q) /\ Rec(u, q) /\ ChunkAt(q)' = ChunkAt(q) /\ GenAt(q)' = GenAt(q)
    BY <1>3 DEF LastRec
  <2>2. CASE u = t
    <3>1. q = n
      BY <1>4, <2>1, <2>2 DEF LastRec
    <3> QED
      BY <1>4, <1>5, <2>1, <2>2, <3>1 DEF Following
  <2>3. CASE u # t
    <3>1. GenAt(q) < lossGen \/ chunk[u] = Following(ChunkAt(q))
      BY <1>1, <2>1, <2>3 DEF TextInv, LastContinued
    <3> QED
      BY <1>5, <2>1, <2>3, <3>1 DEF Following
  <2> QED
    BY <2>2, <2>3
<1>11. NextContinues'
  <2> SUFFICES ASSUME NEW u \in Threads, \A p \in Nat : ~Rec(u, p)', pending[u] # <<>>
               PROVE  seenGen < lossGen \/ chunk'[u] = Last(pending[u]) + 1
    BY <1>1 DEF NextContinues, Unfinished
  <2>1. u # t /\ \A p \in Nat : ~Rec(u, p)
    BY <1>3, <1>4
  <2> QED
    BY <1>5, <2>1 DEF TextInv, NextContinues, Unfinished
<1> QED
  BY <1>6, <1>7, <1>8, <1>9, <1>10, <1>11 DEF TextInv

LEMMA RisingAppend ==
  ASSUME NEW s \in Seq(Nat), Rising(s), NEW k \in Nat, s = <<>> \/ k = Last(s) + 1
  PROVE  Append(s, k) \in Seq(Nat) /\ Rising(Append(s, k)) /\ Last(Append(s, k)) = k /\ Append(s, k) # <<>>
<1>1. /\ Append(s, k) \in Seq(Nat) /\ Len(Append(s, k)) = Len(s) + 1 /\ Len(s) \in Nat
      /\ Append(s, k)[Len(s) + 1] = k /\ \A i \in 1..Len(s) : Append(s, k)[i] = s[i]
  OBVIOUS
<1>2. Rising(Append(s, k))
  <2> SUFFICES ASSUME NEW i \in 1..Len(s) PROVE Append(s, k)[i + 1] = Append(s, k)[i] + 1
    BY <1>1 DEF Rising
  <2>1. CASE i = Len(s)
    <3>1. s # <<>>
      BY <2>1
    <3> QED
      BY <1>1, <2>1, <3>1 DEF Last
  <2>2. CASE i # Len(s)
    <3>1. i \in 1..(Len(s) - 1) /\ i + 1 \in 1..Len(s)
      BY <2>2
    <3> QED
      BY <1>1, <3>1 DEF Rising
  <2> QED
    BY <2>1, <2>2
<1>3. Last(Append(s, k)) = k
  BY <1>1 DEF Last
<1>4. Append(s, k) # <<>>
  BY <1>1
<1> QED
  BY <1>1, <1>2, <1>3, <1>4

\* The record taken continues the line of its thread, or the line was
\* thrown away because a chunk was lost in between.
LEMMA Taken ==
  ASSUME Types, RingInv, TextInv, TakeRecord
  PROVE  LET o == OwnerAt(deq)  k == ChunkAt(deq)  before == AfterLoss(GenAt(deq)) IN
         /\ o \in Threads /\ k \in 1..LineLength /\ seenGen' = GenAt(deq) /\ GenAt(deq) <= lossGen
         /\ GenAt(deq) \in Nat
         /\ before \in [Threads -> Seq(Nat)]
         /\ \A t \in Threads : \/ before[t] = <<>>
                               \/ before[t] = pending[t] /\ seenGen' = seenGen
         /\ before[o] = <<>> \/ k = Last(before[o]) + 1
         /\ IF k = LineLength
            THEN line' = Append(before[o], k) /\ pending' = [before EXCEPT ![o] = <<>>]
            ELSE line' = line /\ pending' = [before EXCEPT ![o] = Append(before[o], k)]
<1> DEFINE o == OwnerAt(deq)
           k == ChunkAt(deq)
           g == GenAt(deq)
           before == AfterLoss(g)
<1>1. deq \in Nat /\ o \in Threads /\ Rec(o, deq) /\ pending \in [Threads -> Seq(Nat)]
  BY TakeKeeps DEF Types, TextInv, TextTypes
<1>2. k \in 1..LineLength /\ g \in Nat /\ g <= lossGen
  BY <1>1, RecTypes
<1>3. seenGen' = g
  BY DEF TakeRecord, SeenAfter, LossBoundary, GenAt
<1>4. before \in [Threads -> Seq(Nat)]
  BY <1>1 DEF AfterLoss
<1>5. ASSUME NEW t \in Threads PROVE before[t] = <<>> \/ (before[t] = pending[t] /\ seenGen' = seenGen)
  BY <1>3 DEF AfterLoss, LossBoundary
<1>6. before[o] = <<>> \/ k = Last(before[o]) + 1
  <2> SUFFICES ASSUME before[o] # <<>> PROVE k = Last(before[o]) + 1
    OBVIOUS
  <2>1. before[o] = pending[o] /\ seenGen = g /\ Unfinished(o)
    BY <1>1, <1>3, <1>5 DEF Unfinished
  <2>2. FirstRec(o, deq)
    BY <1>1 DEF FirstRec, Rec
  <2>3. seenGen < g \/ k = Last(pending[o]) + 1
    BY <1>1, <2>1, <2>2 DEF TextInv, FirstContinues
  <2> HIDE DEF k, before, g
  <2> QED
    BY <1>2, <2>1, <2>3
<1>7. IF k = LineLength
      THEN line' = Append(before[o], k) /\ pending' = [before EXCEPT ![o] = <<>>]
      ELSE line' = line /\ pending' = [before EXCEPT ![o] = Append(before[o], k)]
  <2>1. Parse(o, k, before)
    BY DEF TakeRecord, OwnerAt, ChunkAt, GenAt
  <2> HIDE DEF k, before, g, o
  <2> QED
    BY <1>1, <1>4, <2>1 DEF Parse
<1> QED
  BY <1>1, <1>2, <1>3, <1>4, <1>5, <1>6, <1>7

LEMMA TextTake ==
  ASSUME Types, RingInv, TextInv, TakeRecord
  PROVE  TextInv'
<1>0. PICK o \in Threads, k \in 1..LineLength, g \in Nat, d \in Nat :
        o = OwnerAt(deq) /\ k = ChunkAt(deq) /\ g = GenAt(deq) /\ d = deq
  BY Taken DEF Types
<1>1. PICK before \in [Threads -> Seq(Nat)] :
        /\ seenGen' = g /\ g <= lossGen
        /\ \A t \in Threads : before[t] = <<>> \/ (before[t] = pending[t] /\ g = seenGen)
        /\ before[o] = <<>> \/ k = Last(before[o]) + 1
        /\ IF k = LineLength
           THEN line' = Append(before[o], k) /\ pending' = [before EXCEPT ![o] = <<>>]
           ELSE line' = line /\ pending' = [before EXCEPT ![o] = Append(before[o], k)]
  BY <1>0, Taken
<1>2. /\ UNCHANGED <<lossGen, pc, chunk>> /\ lossGen \in Nat /\ seenGen \in Nat /\ k \in Nat
      /\ \A u \in Threads : Fills(u)' <=> Fills(u)
  BY DEF TakeRecord, progress, Types, TextInv, TextTypes, Fills
<1>3. /\ \A u \in Threads, p \in Nat : Rec(u, p)' <=> (Rec(u, p) /\ p # d)
      /\ \A u \in Threads, p \in Nat : ChunkAt(p)' = ChunkAt(p) /\ GenAt(p)' = GenAt(p)
      /\ Rec(o, d) /\ \A u \in Threads : Fills(u) => pc[u].pos # d
  BY <1>0, TakeKeeps DEF FrontGone
<1>4. /\ \A u \in Threads, p \in Nat : Rec(u, p) => d <= p
      /\ \A u \in Threads : u # o => ~Rec(u, d)
  BY <1>0 DEF Rec
<1>5. \A t \in Threads : Rising(before[t]) /\ (before[t] # <<>> => Last(before[t]) < LineLength)
  <2>1. Rising(<<>>)
    BY DEF Rising
  <2> QED
    BY <1>1, <2>1 DEF TextInv, LinesRise, Unfinished
<1>6. /\ Append(before[o], k) \in Seq(Nat) /\ Rising(Append(before[o], k))
      /\ Last(Append(before[o], k)) = k /\ Append(before[o], k) # <<>>
  BY <1>1, <1>2, <1>5, RisingAppend
<1>7. /\ \A t \in Threads : t # o => pending'[t] = before[t]
      /\ pending'[o] = <<>> \/ (pending'[o] = Append(before[o], k) /\ k < LineLength)
      /\ pending' \in [Threads -> Seq(Nat)]
      /\ line' = line \/ line' = Append(before[o], k)
  <2>1. <<>> \in Seq(Nat)
    OBVIOUS
  <2>2. CASE k = LineLength
    BY <1>1, <2>1, <2>2
  <2>3. CASE k # LineLength
    <3>1. k < LineLength
      BY <2>3
    <3> QED
      BY <1>1, <1>6, <2>3, <3>1
  <2> QED
    BY <2>2, <2>3
<1>8. TextTypes'
  BY <1>1, <1>2, <1>6, <1>7 DEF TextTypes, TextInv
<1>9. LinesRise'
  <2>1. Rising(line')
    BY <1>6, <1>7 DEF TextInv, LinesRise
  <2>2. ASSUME NEW t \in Threads
        PROVE  Rising(pending'[t]) /\ (pending'[t] # <<>> => Last(pending'[t]) < LineLength)
    <3>1. CASE t = o /\ pending'[o] = <<>>
      BY <3>1 DEF Rising
    <3>2. CASE t = o /\ pending'[o] = Append(before[o], k) /\ k < LineLength
      BY <1>6, <3>2
    <3>3. CASE t # o
      BY <1>5, <1>7, <3>3
    <3> QED
      BY <1>7, <3>1, <3>2, <3>3
  <2>3. Rising(line)' = Rising(line')
    BY DEF Rising
  <2>4. ASSUME NEW t \in Threads PROVE Rising(pending[t])' = Rising(pending'[t]) /\ Last(pending[t])' = Last(pending'[t])
    BY DEF Rising, Last
  <2> QED
    BY <2>1, <2>2, <2>3, <2>4 DEF LinesRise, Unfinished
<1>10. NothingAhead'
  BY <1>2, <1>3 DEF TextInv, NothingAhead
<1>11. RecordsFollow'
  <2> SUFFICES ASSUME NEW u \in Threads, NEW q \in Nat, NEW p \in Nat, NextRec(u, q, p)'
               PROVE  GenAt(q)' < GenAt(p)' \/ ChunkAt(p)' = Following(ChunkAt(q))'
    BY DEF RecordsFollow
  <2>1. Rec(u, q) /\ Rec(u, p) /\ q # d /\ q < p /\ \A r \in Nat : q < r /\ r < p => ~Rec(u, r)'
    BY <1>3 DEF NextRec
  <2>2. \A r \in Nat : q < r /\ r < p => ~Rec(u, r)
    BY <1>3, <1>4, <2>1
  <2>3. NextRec(u, q, p)
    BY <2>1, <2>2 DEF NextRec
  <2>4. GenAt(q) < GenAt(p) \/ ChunkAt(p) = Following(ChunkAt(q))
    BY <2>3 DEF TextInv, RecordsFollow
  <2> QED
    BY <1>3, <2>4 DEF Following
<1>12. FirstContinues'
  <2> SUFFICES ASSUME NEW u \in Threads, NEW p \in Nat, FirstRec(u, p)', pending'[u] # <<>>
               PROVE  g < GenAt(p) \/ ChunkAt(p) = Last(pending'[u]) + 1
    BY <1>1, <1>3 DEF FirstContinues, Unfinished
  <2>1. Rec(u, p) /\ p # d /\ \A r \in Nat : r < p => ~Rec(u, r)'
    BY <1>3 DEF FirstRec
  <2>2. CASE u = o
    <3>1. \A r \in Nat : d < r /\ r < p => ~Rec(o, r)
      BY <1>3, <2>1, <2>2
    <3>2. d < p
      BY <1>4, <2>1
    <3>3. NextRec(o, d, p)
      BY <1>3, <2>1, <2>2, <3>1, <3>2 DEF NextRec
    <3>4. GenAt(d) = g /\ ChunkAt(d) = k
      BY <1>0 DEF GenAt, ChunkAt
    <3>5. g < GenAt(p) \/ ChunkAt(p) = Following(k)
      BY <3>3, <3>4 DEF TextInv, RecordsFollow
    <3>6. pending'[o] = Append(before[o], k) /\ k < LineLength
      BY <1>7, <2>2
    <3>7. Following(k) = k + 1 /\ Last(pending'[o]) = k
      BY <1>6, <3>6 DEF Following
    <3> QED
      BY <2>2, <3>5, <3>7
  <2>3. CASE u # o
    <3>1. pending'[u] = pending[u] /\ g = seenGen
      BY <1>1, <1>7, <2>3
    <3>2. \A r \in Nat : r < p => ~Rec(u, r)
      BY <1>3, <1>4, <2>1, <2>3
    <3>3. FirstRec(u, p)
      BY <2>1, <3>2 DEF FirstRec
    <3> QED
      BY <3>1, <3>3 DEF TextInv, FirstContinues, Unfinished
  <2> QED
    BY <2>2, <2>3
<1>13. LastContinued'
  <2> SUFFICES ASSUME NEW u \in Threads, NEW q \in Nat, LastRec(u, q)', pc[u].at # "publish"
               PROVE  GenAt(q) < lossGen \/ chunk[u] = Following(ChunkAt(q))
    BY <1>2, <1>3 DEF LastContinued, Following
  <2>1. Rec(u, q) /\ q # d /\ \A r \in Nat : q < r => ~Rec(u, r)'
    BY <1>3 DEF LastRec
  <2>2. \A r \in Nat : q < r => ~Rec(u, r)
    BY <1>3, <1>4, <2>1
  <2> QED
    BY <2>1, <2>2 DEF TextInv, LastContinued, LastRec
<1>14. NextContinues'
  <2> SUFFICES ASSUME NEW u \in Threads, \A p \in Nat : ~Rec(u, p)', pending'[u] # <<>>
               PROVE  g < lossGen \/ chunk[u] = Last(pending'[u]) + 1
    BY <1>1, <1>2 DEF NextContinues, Unfinished
  <2>1. CASE u = o
    <3>1. pc[o].at # "publish"
      <4> SUFFICES ASSUME pc[o].at = "publish" PROVE FALSE
        OBVIOUS
      <4>1. Fills(o) /\ pc[o].pos \in Nat
        BY DEF Fills, Types
      <4>2. Rec(o, pc[o].pos)
        BY <4>1 DEF Rec, RingInv
      <4> QED
        BY <1>3, <2>1, <4>1, <4>2
    <3>2. LastRec(o, d)
      BY <1>3, <2>1 DEF LastRec
    <3>3. GenAt(d) = g /\ ChunkAt(d) = k
      BY <1>0 DEF GenAt, ChunkAt
    <3>4. g < lossGen \/ chunk[o] = Following(k)
      BY <3>1, <3>2, <3>3 DEF TextInv, LastContinued
    <3>5. pending'[o] = Append(before[o], k) /\ k < LineLength
      BY <1>7, <2>1
    <3>6. Following(k) = k + 1 /\ Last(pending'[o]) = k
      BY <1>6, <3>5 DEF Following
    <3> QED
      BY <2>1, <3>4, <3>6
  <2>2. CASE u # o
    <3>1. pending'[u] = pending[u] /\ g = seenGen /\ \A p \in Nat : ~Rec(u, p)
      BY <1>1, <1>3, <1>4, <1>7, <2>2
    <3> QED
      BY <3>1 DEF TextInv, NextContinues, Unfinished
  <2> QED
    BY <2>1, <2>2
<1> QED
  BY <1>8, <1>9, <1>10, <1>11, <1>12, <1>13, <1>14 DEF TextInv

LEMMA TextNext ==
  ASSUME IInv, [Next]_vars
  PROVE  TextInv'
<1>0. /\ Types /\ RingInv /\ TextInv /\ QueueInv /\ FlushInv
      /\ lossGen \in Nat /\ seenGen \in Nat /\ seenGen <= lossGen
      /\ pending \in [Threads -> Seq(Nat)] /\ line \in Seq(Nat) /\ Rising(line)
  BY DEF IInv, Types, TextInv, TextTypes, LinesRise
\* The text itself is left alone.
<1>1. ASSUME RecsStay, UNCHANGED <<seenGen, pending, line>>, lossGen' \in Nat, lossGen <= lossGen',
             \A t \in Threads : \/ lossGen < lossGen'
                                \/ /\ chunk'[t] = chunk[t]
                                   /\ pc'[t].at # "publish" => pc[t].at # "publish",
             \A t \in Threads : Fills(t)' => \/ Fills(t) /\ pc'[t].pos = pc[t].pos
                                             \/ pc'[t].pos = enq
      PROVE  TextInv'
  <2>1. TextTypes'
    BY <1>0, <1>1 DEF TextTypes
  <2>2. Rising(line)'
    BY <1>0, <1>1 DEF Rising
  <2> QED
    BY <1>0, <1>1, <2>1, <2>2, TextStays
<1>2. ASSUME RingStays PROVE RecsStay /\ lossGen' \in Nat /\ lossGen <= lossGen'
                             /\ \A t \in Threads : Fills(t)' => Fills(t) /\ pc'[t].pos = pc[t].pos
  <2>1. \A t \in Threads : Fills(t)' => Fills(t) /\ pc'[t].pos = pc[t].pos
    BY <1>2 DEF RingStays, Fills, Quiet
  <2> QED
    BY <1>0, <1>2, <2>1, RecsStayWithRing DEF RingStays
<1>3. ASSUME RingStays, UNCHANGED <<seenGen, pending, line, chunk>>
      PROVE  TextInv'
  <2>1. \A t \in Threads : pc'[t].at # "publish" => pc[t].at # "publish"
    BY <1>3 DEF RingStays, Fills
  <2> QED
    BY <1>1, <1>2, <1>3, <2>1
<1>4. ASSUME NEW t \in Threads, Drop(t), RingStays, UNCHANGED <<seenGen, pending, line>>
      PROVE  TextInv'
  <2>1. lossGen < lossGen'
    BY <1>0, <1>4 DEF Drop
  <2> QED
    BY <1>1, <1>2, <1>4, <2>1
<1>5. CASE StartConsoleCaptureWorker
  <2>1. /\ RecsStay /\ seenGen' = lossGen /\ UNCHANGED <<lossGen, pc, chunk, pending, line>>
        /\ \A t \in Threads : pending[t] = <<>>
    BY <1>0, <1>5, StartKeeps DEF StartConsoleCaptureWorker, FlushInv, NotStarted, progress, text
  <2>2. TextTypes'
    BY <1>0, <2>1 DEF TextTypes
  <2>3. Rising(line)'
    BY <1>0, <2>1 DEF Rising
  <2>4. \A t \in Threads : Fills(t)' => Fills(t) /\ pc'[t].pos = pc[t].pos
    BY <2>1 DEF Fills
  <2> QED
    BY <1>0, <2>1, <2>2, <2>3, <2>4, TextStays
<1>6. ASSUME NEW t \in Threads, Write(t) PROVE TextInv'
  BY <1>0, <1>3, <1>6, QuietSteps DEF Write, gens, text
<1>7. ASSUME NEW t \in Threads, CheckSlot(t) PROVE TextInv'
  <2>1. RingStays /\ UNCHANGED <<seenGen, pending, line>> /\ (UNCHANGED chunk \/ Drop(t))
    BY <1>0, <1>7, QuietSteps DEF CheckSlot, text
  <2> QED
    BY <1>3, <1>4, <2>1
<1>8. ASSUME NEW t \in Threads, Claim(t) PROVE TextInv'
  <2>0. UNCHANGED <<seenGen, pending, line>>
    BY <1>8 DEF Claim, text
  <2>1. CASE Won(t)
    <3>1. /\ UNCHANGED <<lossGen, chunk>> /\ pc'[t].at = "stamp" /\ pc'[t].pos = enq
          /\ pc[t].at = "claim" /\ \A u \in Threads : u # t => pc'[u] = pc[u]
      BY <1>0, <1>8, <2>1, GotoMoves DEF Claim, Won, At, Goto, Types
    <3>2. RecsStay
      BY <1>0, <1>8, <2>1, ClaimKeeps
    <3>3. /\ lossGen' \in Nat /\ lossGen <= lossGen'
          /\ \A u \in Threads : \/ lossGen < lossGen'
                                 \/ /\ chunk'[u] = chunk[u]
                                    /\ pc'[u].at # "publish" => pc[u].at # "publish"
      <4>1. lossGen' \in Nat /\ lossGen <= lossGen'
        BY <1>0, <3>1
      <4>2. ASSUME NEW u \in Threads
            PROVE  chunk'[u] = chunk[u] /\ (pc'[u].at # "publish" => pc[u].at # "publish")
        <5>1. CASE u = t
          BY <3>1, <5>1
        <5>2. CASE u # t
          BY <3>1, <5>2
        <5> QED
          BY <5>1, <5>2
      <4> QED
        BY <4>1, <4>2
    <3>4. \A u \in Threads : Fills(u)' => (Fills(u) /\ pc'[u].pos = pc[u].pos) \/ pc'[u].pos = enq
      BY <3>1 DEF Fills
    <3> QED
      BY <1>1, <2>0, <3>2, <3>3, <3>4
  <2>2. CASE ~Won(t)
    BY <1>0, <1>4, <1>8, <2>0, <2>2, QuietSteps DEF Claim
  <2> QED
    BY <2>1, <2>2
<1>9. ASSUME NEW t \in Threads, Stamp(t) \/ Publish(t) PROVE TextInv'
  BY <1>0, <1>9, TextStamp, TextPublish
<1>10. ASSUME NEW t \in Threads, FlushPause(t) PROVE TextInv'
  BY <1>0, <1>3, <1>10, QuietSteps DEF FlushPause, gens, text
<1>11. ASSUME NEW t \in Threads, FlushStep(t) PROVE TextInv'
  BY <1>0, <1>3, <1>11, QuietSteps DEF FlushStep, FlushQueue, FlushDone, ReadConsole, gens, text, progress
<1>12. ASSUME NEW t \in Threads, FlushUnmanaged(t) PROVE TextInv'
  <2>1. RingStays /\ UNCHANGED <<seenGen, lossGen, chunk, pc>>
    BY <1>0, <1>12, QuietSteps DEF FlushUnmanaged, gens, progress
  <2>2. PICK u \in Threads : line' = pending[u] /\ pending' = [pending EXCEPT ![u] = <<>>]
    BY <1>12 DEF FlushUnmanaged
  <2>3. \A v \in Threads : pending'[v] = <<>> \/ (pending'[v] = pending[v] /\ seenGen' = seenGen)
    BY <1>0, <2>1, <2>2
  <2>4. TextTypes'
    <3>1. <<>> \in Seq(Nat)
      OBVIOUS
    <3> QED
      BY <1>0, <2>1, <2>2, <3>1 DEF TextTypes
  <2>5. Rising(line)'
    <3>1. Rising(pending[u])
      BY <1>0 DEF TextInv, LinesRise
    <3>2. line' = pending[u]
      BY <2>2
    <3> QED
      BY <3>1, <3>2 DEF Rising
  <2> QED
    BY <1>0, <1>2, <2>1, <2>3, <2>4, <2>5, TextStays
<1>13. CASE TakeRecord
  BY <1>0, <1>13, TextTake
<1>14. CASE TakeEntry
  <2> DEFINE e == Head(queue)
             left == AfterLoss(e.gen)
  <2>1. RingStays /\ UNCHANGED <<lossGen, chunk, pc>>
    BY <1>0, <1>14, QuietSteps DEF TakeEntry, progress
  <2>2. e.gen \in Nat /\ e.gen <= lossGen
    BY <1>0, <1>14, Popped DEF Entries
  <2>3. seenGen' = e.gen /\ left \in [Threads -> Seq(Nat)]
        /\ \A v \in Threads : left[v] = <<>> \/ (left[v] = pending[v] /\ seenGen' = seenGen)
    BY <1>0, <1>14 DEF TakeEntry, SeenAfter, AfterLoss, LossBoundary
  <2>4. /\ (\A v \in Threads : pending'[v] = <<>>) \/ pending' = left
        /\ pending' \in [Threads -> Seq(Nat)]
        /\ line' = line \/ \E v \in Threads : left[v] # <<>> /\ line' = left[v]
    <3>1. UNCHANGED line \/ \E v \in Threads : left[v] # <<>> /\ line' = left[v]
      BY <1>14 DEF TakeEntry
    <3>2. pending' = [v \in Threads |-> <<>>] \/ pending' = left
      BY <1>14 DEF TakeEntry
    <3> HIDE DEF left
    <3>3. (\A v \in Threads : pending'[v] = <<>>) \/ pending' = left
      BY <3>2
    <3>4. [v \in Threads |-> <<>>] \in [Threads -> Seq(Nat)]
      OBVIOUS
    <3>5. pending' \in [Threads -> Seq(Nat)]
      BY <2>3, <3>2, <3>4
    <3> QED
      BY <3>1, <3>3, <3>5
  <2> HIDE DEF e, left
  <2>5. \A v \in Threads : pending'[v] = <<>> \/ (pending'[v] = pending[v] /\ seenGen' = seenGen)
    BY <2>3, <2>4
  <2>6. line' \in Seq(Nat) /\ Rising(line')
    <3>1. ASSUME NEW v \in Threads, left[v] # <<>> PROVE left[v] \in Seq(Nat) /\ Rising(left[v])
      BY <1>0, <2>3, <3>1 DEF TextInv, LinesRise
    <3> QED
      BY <1>0, <2>4, <3>1
  <2>7. TextTypes' /\ Rising(line)'
    BY <2>1, <2>2, <2>3, <2>4, <2>6 DEF TextTypes, Rising
  <2> QED
    BY <1>0, <1>2, <2>1, <2>5, <2>7, TextStays
<1>15. CASE WorkerExits \/ EmergencyStop \/ StopPause \/ StopStep
  BY <1>0, <1>3, <1>15, QuietSteps DEF WorkerExits, EmergencyStop, StopPause, StopStep, StopQueue,
                                       StopDrained, StopJoined, gens, text, progress
<1>16. CASE UNCHANGED vars
  BY <1>0, <1>3, <1>16, QuietSteps DEF vars
<1> QED
  BY <1>5, <1>6, <1>7, <1>8, <1>9, <1>10, <1>11, <1>12, <1>13, <1>14, <1>15, <1>16
     DEF Next, WriterStep, WorkerStep

---------------------------------------------------------------------------
(* The theorems. *)

LEMMA InitIInv == Init => IInv
<1> SUFFICES ASSUME Init PROVE IInv
  OBVIOUS
<1>1. /\ slots = EmptyRing /\ enq = 0 /\ deq = 0 /\ active = {} /\ lossGen = 0 /\ seenGen = 0
      /\ ~accepting /\ queue = <<>> /\ queued = 0 /\ done = 0 /\ worker = "Stopped" /\ ~running
      /\ line = <<>> /\ pending = [t \in Threads |-> <<>>] /\ chunk = [t \in Threads |-> 1]
      /\ \A t \in Threads \cup {Stopper} : pc[t].at = "idle" /\ pc[t].pos = 0
      /\ pc = [t \in Threads \cup {Stopper} |-> [at |-> "idle", pos |-> 0]]
  BY DEF Init, Idle
<1>2. Types
  <2>1. EmptyRing \in [Ids -> SlotType]
    BY DEF EmptyRing, Ids, SlotType
  <2> QED
    BY <1>1, <2>1 DEF Types, Places
<1>3. \A t \in Threads, p \in Nat : ~Rec(t, p) /\ ~Fills(t)
  BY <1>1 DEF Rec, Fills
<1>4. RingInv
  <2>1. ASSUME NEW p \in Nat, p < Capacity PROVE SeqAt(p) = p
    <3>1. Index(p) = p /\ p \in 0..(Capacity - 1)
      BY <2>1, IndexSmall
    <3> QED
      BY <1>1, <3>1 DEF SeqAt, EmptyRing
  <2>2. \A t \in Threads : pc[t].at \notin {"claim", "publish"}
    BY <1>1
  <2> QED
    BY <1>1, <1>3, <2>1, <2>2 DEF RingInv
<1>5. TextInv
  <2>1. Rising(<<>>) /\ <<>> \in Seq(Nat)
    BY DEF Rising
  <2>2. \A t \in Threads : pending[t] = <<>>
    BY <1>1
  <2>3. TextTypes /\ LinesRise
    BY <1>1, <2>1, <2>2 DEF TextTypes, LinesRise, Unfinished
  <2> QED
    BY <1>3, <2>2, <2>3 DEF TextInv, NothingAhead, RecordsFollow, FirstContinues, LastContinued,
                            NextContinues, NextRec, FirstRec, LastRec, Unfinished
<1>6. QueueInv
  BY <1>1 DEF QueueInv
<1>7. FlushInv
  BY <1>1 DEF FlushInv, FlushHolds, WaitsBehind, FlushedClean, StopperInv, NotStarted
<1> QED
  BY <1>2, <1>4, <1>5, <1>6, <1>7 DEF IInv

\* The ring, the unfinished lines, the queue of entries and the flushes stay
\* consistent in every behaviour of the capture.
THEOREM Inductive == Spec => []IInv
<1>1. IInv /\ [Next]_vars => IInv'
  <2> SUFFICES ASSUME IInv, [Next]_vars PROVE IInv'
    OBVIOUS
  <2>1. Types /\ RingInv /\ QueueInv /\ FlushInv
    BY DEF IInv
  <2>2. Types' /\ RingInv' /\ QueueInv' /\ FlushInv' /\ TextInv'
    BY <2>1, TypesNext, RingNext, QueueNext, FlushNext, TextNext
  <2> QED
    BY <2>2 DEF IInv
<1> QED
  BY <1>1, InitIInv, PTL DEF Spec

\* The capture splices no line across a dropped chunk, leaves nothing of a
\* thread unparsed after its flush, and never gives one slot to two writers,
\* for any number of threads and any size of the ring and of a line.
THEOREM ConsoleSafety == Spec => []ConsoleSafe
<1>1. ASSUME IInv PROVE ConsoleSafe
  <2>0. Types /\ RingInv /\ TextInv /\ QueueInv /\ FlushInv
    BY <1>1 DEF IInv
  <2>1. TypeOK
    <3>1. enq \in deq..(deq + Capacity)
      BY <2>0 DEF Types
    <3>2. slots \in [0..(Capacity - 1) -> [seq : Nat, t : Threads \cup {Stopper}, k : 0..LineLength, gen : Nat]]
      BY <2>0 DEF Types, Ids, SlotType
    <3> QED
      BY <2>0, <3>1, <3>2 DEF TypeOK, Types, QueueInv
  <2>2. NoSplice
    BY <2>0 DEF NoSplice, TextInv, LinesRise, Rising
  <2>3. FlushedIsParsed
    <3> SUFFICES ASSUME NEW t \in Threads, At(t, "flushed"), NEW p \in deq..(enq - 1),
                        slots[Index(p)].seq = p + 1, slots[Index(p)].t = t
                 PROVE  FALSE
      BY DEF FlushedIsParsed
    <3>1. p \in Nat /\ deq <= p /\ p < enq
      BY <2>0 DEF Types
    <3>2. Rec(t, p)
      BY <3>1 DEF Rec, SeqAt, OwnerAt
    <3> QED
      BY <2>0, <3>1, <3>2 DEF FlushInv, FlushedClean, At
  <2>4. RingSound
    <3>1. \A p \in deq..(deq + Capacity - 1) : p \in Nat /\ deq <= p /\ p < deq + Capacity
      BY <2>0 DEF Types
    <3> QED
      BY <2>0, <3>1 DEF RingSound, RingInv, SeqAt, Fills
  <2> QED
    BY <2>1, <2>2, <2>3, <2>4 DEF ConsoleSafe
<1>2. IInv => ConsoleSafe
  BY <1>1
<1> QED
  BY <1>2, Inductive, PTL

--------------------------------------------------------------------------------
(***************************************************************************)
(* Proofs about ListenerMailbox, for any families and ports and any number *)
(* of helpers and announcements.                                           *)
(*                                                                         *)
(* The words are written and read one by one, so no single step shows why  *)
(* an accepted observation is an announcement.  Three facts do.  While the *)
(* game has not cleared the mailbox of a live helper (Kept), its serial    *)
(* counts the increments of the announcements made so far, and the words   *)
(* not yet overwritten are those of the announcement before (Exact).  A    *)
(* cleared mailbox of a live helper is never read again: the places from   *)
(* which the session can still start to read are those where it is Kept    *)
(* (MailboxPlaces).  And a reader that began with an even serial has read  *)
(* the words that stand there as long as the serial is the same (Reading). *)
(***************************************************************************)

Stage == game.at[1]
Nexts == {"start", "started", "kill"}
AllPlaces ==
  {<<"idle">>, <<"start">>, <<"started">>, <<"running">>, <<"kill">>}
    \cup {<<"clear", k, n>> : k \in 1 .. 4, n \in Nexts}

Word == Int \cup Families \cup {NoFamily} \cup Ports
Slot == [serial : Nat, family : Families \cup {NoFamily}, port : Ports \cup {0}, pid : 0 .. MaxHelpers]
Publication == [words : Announcement, next : 1 .. 5]

MailboxTypes ==
  /\ slot \in Slot
  /\ pub = <<>> \/ \E p \in Publication : pub = <<p>>
  /\ game \in [at : AllPlaces, abort : BOOLEAN]
  /\ last \in Nat /\ helper \in {0, last}
  /\ read \in Seq(Word)
  /\ said \in Seq(Announcement) /\ Len(said) <= MaxLines

\* A session that is on its way to its helper.
Starting == Stage = "start" \/ (Stage = "clear" /\ game.at[3] = "start")

MailboxPlaces ==
  /\ Stage = "idle" \/ Starting => helper = 0
  /\ Stage = "running" => ~game.abort
  /\ Stage = "clear" /\ game.at[3] = "started" => game.abort
  /\ Stage = "idle" => ~game.abort
  /\ Starting \/ Stage = "started" \/ (Stage = "clear" /\ game.at[3] = "started") => got = Cleared
  /\ read # <<>> => Stage = "running"

\* No clear has hit the live helper's mailbox.
Kept == helper # 0 /\ (Stage = "running" \/ (Stage = "started" /\ ~game.abort))

\* Increments of the serial that the publication under way still has to make.
Owed == IF pub = <<>> THEN 0 ELSE IF pub[1].next = 1 THEN 2 ELSE 1

Said ==
  /\ helper = 0 => pub = <<>> /\ said = <<>>
  /\ helper = 0 => slot.serial <= 2 * MaxLines
  /\ helper # 0 => slot.serial + Owed <= 2 * Len(said)
  /\ pub # <<>> => said # <<>> /\ pub[1].words = said[Len(said)]

\* What stands in the mailbox, by how far the last publication has got.
Written ==
  /\ pub = <<>> /\ said # <<>> => Content(slot) = said[Len(said)]
  /\ pub # <<>> /\ Len(said) > 1 /\ pub[1].next = 1 => Content(slot) = said[Len(said) - 1]
  /\ pub # <<>> =>
       /\ pub[1].next > 2 => slot.family = pub[1].words.family
       /\ pub[1].next > 3 => slot.port = pub[1].words.port
       /\ pub[1].next > 4 => slot.pid = pub[1].words.pid
Exact == slot.serial + Owed = 2 * Len(said) /\ Written

Reading ==
  read # <<>> =>
    /\ Len(read) \in 1 .. 4
    /\ read[1] \in Nat /\ read[1] > 0 /\ read[1] % 2 = 0 /\ read[1] <= slot.serial
    /\ read[1] = slot.serial => \A i \in 2 .. Len(read) : read[i] = slot[Words[i]]

MailboxInv == MailboxTypes /\ MailboxPlaces /\ Said /\ (Kept => Exact) /\ Reading /\ AcceptedWasSaid

(* The place of a word of the mailbox that is cleared. *)
LEMMA ClearPlace ==
  ASSUME NEW k \in 1 .. 4, NEW n \in Nexts PROVE <<"clear", k, n>> \in AllPlaces
BY DEF AllPlaces

---------------------------------------------------------------------------
(* The places a session passes through, told apart by their first word.     *)
LEMMA PlaceWords ==
  ASSUME game \in [at : AllPlaces, abort : BOOLEAN]
  PROVE  /\ Stage \in {"idle", "start", "started", "running", "kill", "clear"}
         /\ Stage # "clear" => game.at = <<Stage>>
         /\ Stage = "clear" => \E k \in 1 .. 4, n \in Nexts : game.at = <<"clear", k, n>>
<1>1. game.at \in AllPlaces
  OBVIOUS
<1>2. CASE game.at = <<"idle">> BY <1>2 DEF Stage
<1>3. CASE game.at = <<"start">> BY <1>3 DEF Stage
<1>4. CASE game.at = <<"started">> BY <1>4 DEF Stage
<1>5. CASE game.at = <<"running">> BY <1>5 DEF Stage
<1>6. CASE game.at = <<"kill">> BY <1>6 DEF Stage
<1>7. CASE \E k \in 1 .. 4, n \in Nexts : game.at = <<"clear", k, n>>
  BY <1>7 DEF Stage
<1> QED BY <1>1, <1>2, <1>3, <1>4, <1>5, <1>6, <1>7 DEF AllPlaces

(* Each word of the mailbox keeps its type. *)
LEMMA SlotWord ==
  ASSUME slot \in Slot, MaxHelpers \in Nat
  PROVE  /\ \A i \in 1 .. 4 : slot[Words[i]] \in Word
         /\ Cleared \in Slot
<1>1. /\ Words[1] = "serial" /\ Words[2] = "family" /\ Words[3] = "port" /\ Words[4] = "pid"
  BY DEF Words
<1>2. \A i \in 1 .. 4 : i = 1 \/ i = 2 \/ i = 3 \/ i = 4
  OBVIOUS
<1>3. slot.serial \in Word /\ slot.family \in Word /\ slot.port \in Word /\ slot.pid \in Word
  BY DEF Slot, Word
<1>4. Cleared \in Slot
  BY DEF Cleared, Slot
<1> QED BY <1>1, <1>2, <1>3, <1>4

(* A publication under way is one record. *)
LEMMA UnderWay ==
  ASSUME MailboxTypes, pub # <<>>
  PROVE  pub = <<pub[1]>> /\ pub[1] \in Publication
BY DEF MailboxTypes

THEOREM Begins == ASSUME MaxLines \in Nat, MaxHelpers \in Nat
                  PROVE  MailboxInit => MailboxInv
<1> SUFFICES ASSUME MailboxInit PROVE MailboxInv
  OBVIOUS
<1> USE DEF MailboxInit
<1>1. Cleared \in Slot /\ Cleared.serial = 0
  BY DEF Cleared, Slot
<1>2. game.at \in AllPlaces /\ Stage = "idle" /\ game.abort = FALSE
  BY DEF AllPlaces, Stage
<1>3. MailboxTypes
  BY <1>1, <1>2 DEF MailboxTypes
<1>4. MailboxPlaces
  BY <1>2 DEF MailboxPlaces, Starting
<1>5. Said
  BY <1>1 DEF Said
<1>6. ~Kept
  BY DEF Kept
<1>7. Reading
  BY DEF Reading
<1>8. AcceptedWasSaid
  BY DEF AcceptedWasSaid
<1> QED BY <1>3, <1>4, <1>5, <1>6, <1>7, <1>8 DEF MailboxInv

---------------------------------------------------------------------------
(* MailboxTypes. *)
LEMMA TypesStep == ASSUME MaxLines \in Nat, MaxHelpers \in Nat, MailboxTypes, Reading, MailboxNext
                   PROVE  MailboxTypes'
<1>p. game \in [at : AllPlaces, abort : BOOLEAN]
  BY DEF MailboxTypes
<1>1. ASSUME NEW a \in Announcement, HelperListens(a) PROVE MailboxTypes'
  <2>1. [words |-> a, next |-> 1] \in Publication
    BY DEF Publication
  <2>2. said' \in Seq(Announcement) /\ Len(said') = Len(said) + 1
    BY <1>1 DEF HelperListens, MailboxTypes
  <2> QED BY <1>1, <2>1, <2>2 DEF HelperListens, MailboxTypes
<1>2. ASSUME PublishHostListenerObservation PROVE MailboxTypes'
  <2> USE <1>2 DEF PublishHostListenerObservation
  <2>1. pub = <<pub[1]>> /\ pub[1] \in Publication
    BY UnderWay
  <2>2. /\ pub[1].next \in 1 .. 5
        /\ pub[1].words.family \in Families /\ pub[1].words.port \in Ports
        /\ pub[1].words.pid \in 1 .. MaxHelpers
    BY <2>1 DEF Publication, Announcement
  <2>3. Len(Published) = 5
    BY DEF Published
  <2>4. pub' = <<>> \/ \E p \in Publication : pub' = <<p>>
    <3>1. CASE pub[1].next = 5 BY <3>1, <2>3
    <3>2. CASE pub[1].next # 5
      <4>1. [pub[1] EXCEPT !.next = @ + 1] \in Publication
        BY <2>1, <2>2, <3>2 DEF Publication
      <4> QED BY <4>1, <2>3, <3>2
    <3> QED BY <3>1, <3>2
  <2>5. slot' \in Slot
    <3>0. slot \in Slot
      BY DEF MailboxTypes
    <3>a. /\ Published[1] = "serial" /\ Published[2] = "family" /\ Published[3] = "port"
          /\ Published[4] = "pid" /\ Published[5] = "serial"
      BY DEF Published
    <3>b. \A w : w = Published[pub[1].next] =>
            slot' = [slot EXCEPT ![w] = IF w = "serial" THEN @ + 1 ELSE pub[1].words[w]]
      BY Zenon
    <3>c. /\ slot.serial + 1 \in Nat /\ pub[1].words.family \in Families \cup {NoFamily}
          /\ pub[1].words.port \in Ports \cup {0} /\ pub[1].words.pid \in 0 .. MaxHelpers
      <4>1. slot.serial + 1 \in Nat
        BY <3>0 DEF Slot
      <4>2. 1 .. MaxHelpers \subseteq 0 .. MaxHelpers
        OBVIOUS
      <4> QED BY <2>2, <4>1, <4>2, Zenon
    <3>1. CASE pub[1].next = 1
      <4>1. slot' = [slot EXCEPT !.serial = slot.serial + 1]
        BY <3>a, <3>b, <3>1
      <4> QED BY <3>0, <3>c, <4>1, Zenon DEF Slot
    <3>2. CASE pub[1].next = 2
      <4>1. slot' = [slot EXCEPT !.family = pub[1].words.family]
        BY <3>a, <3>b, <3>2
      <4> QED BY <3>0, <3>c, <4>1, Zenon DEF Slot
    <3>3. CASE pub[1].next = 3
      <4>1. slot' = [slot EXCEPT !.port = pub[1].words.port]
        BY <3>a, <3>b, <3>3
      <4> QED BY <3>0, <3>c, <4>1, Zenon DEF Slot
    <3>4. CASE pub[1].next = 4
      <4>1. slot' = [slot EXCEPT !.pid = pub[1].words.pid]
        BY <3>a, <3>b, <3>4
      <4> QED BY <3>0, <3>c, <4>1, Zenon DEF Slot
    <3>5. CASE pub[1].next = 5
      <4>1. slot' = [slot EXCEPT !.serial = slot.serial + 1]
        BY <3>a, <3>b, <3>5
      <4> QED BY <3>0, <3>c, <4>1, Zenon DEF Slot
    <3> QED BY <2>2, <3>1, <3>2, <3>3, <3>4, <3>5
  <2> QED BY <2>4, <2>5 DEF MailboxTypes
<1>3. ASSUME HelperEnds PROVE MailboxTypes'
  BY <1>3 DEF HelperEnds, Ends, MailboxTypes
<1>4. ASSUME StartSession PROVE MailboxTypes'
  <2>1. game' \in [at : AllPlaces, abort : BOOLEAN]
    BY <1>4, <1>p DEF StartSession, Place, AllPlaces, Nexts
  <2> QED BY <1>4, <2>1 DEF StartSession, MailboxTypes
<1>5. ASSUME ClearHostListenerObservation PROVE MailboxTypes'
  <2> USE <1>5 DEF ClearHostListenerObservation
  <2>1. PICK k \in 1 .. 4, n \in Nexts : game.at = <<"clear", k, n>>
    BY <1>p, PlaceWords DEF Stage
  <2>2. Len(Words) = 4
    BY DEF Words
  <2>3. game' \in [at : AllPlaces, abort : BOOLEAN]
    <3>1. CASE k = 4
      <4>1. game'.at = <<n>> /\ game' = [game EXCEPT !.at = <<n>>]
        BY <2>1, <2>2, <3>1, <1>p DEF Place
      <4>2. <<n>> \in AllPlaces BY DEF AllPlaces, Nexts
      <4> QED BY <4>1, <4>2, <1>p, Zenon
    <3>2. CASE k # 4
      <4>1. game' = [game EXCEPT !.at = <<"clear", k + 1, n>>] /\ k + 1 \in 1 .. 4
        BY <2>1, <2>2, <3>2, <1>p DEF Place
      <4>2. <<"clear", k + 1, n>> \in AllPlaces BY <4>1, ClearPlace
      <4> QED BY <4>1, <4>2, <1>p, Zenon
    <3> QED BY <3>1, <3>2
  <2>4. slot' \in Slot
    <3>0. slot \in Slot /\ Cleared \in Slot
      BY SlotWord DEF MailboxTypes
    <3>1. slot' = [slot EXCEPT ![Words[k]] = Cleared[Words[k]]]
      BY <2>1
    <3>2. CASE k = 1 BY <3>0, <3>1, <3>2 DEF Words, Slot, Cleared
    <3>3. CASE k = 2 BY <3>0, <3>1, <3>3 DEF Words, Slot, Cleared
    <3>4. CASE k = 3 BY <3>0, <3>1, <3>4 DEF Words, Slot, Cleared
    <3>5. CASE k = 4 BY <3>0, <3>1, <3>5 DEF Words, Slot, Cleared
    <3> QED BY <3>2, <3>3, <3>4, <3>5
  <2> QED BY <2>3, <2>4 DEF MailboxTypes
<1>6. ASSUME Spawn PROVE MailboxTypes'
  <2>1. game' \in [at : AllPlaces, abort : BOOLEAN]
    BY <1>6, <1>p DEF Spawn, Place, AllPlaces
  <2>2. slot' \in Slot
    BY <1>6, SlotWord DEF Spawn, MailboxTypes
  <2> QED BY <1>6, <2>1, <2>2 DEF Spawn, MailboxTypes
<1>7. ASSUME CancelSession PROVE MailboxTypes'
  <2>1. game' \in [at : AllPlaces, abort : BOOLEAN]
    <3>1. CASE game.at = <<"running">> /\ Place(<<"clear", 1, "kill">>)
      BY <3>1, <1>p DEF Place, AllPlaces, Nexts
    <3>2. CASE game.at = <<"start">> /\ game' = [at |-> <<"clear", 1, game.at[1]>>, abort |-> TRUE]
      BY <3>2 DEF AllPlaces, Nexts
    <3>3. CASE game.at = <<"started">> /\ game' = [at |-> <<"clear", 1, game.at[1]>>, abort |-> TRUE]
      BY <3>3 DEF AllPlaces, Nexts
    <3> QED BY <1>7, <3>1, <3>2, <3>3 DEF CancelSession
  <2> QED BY <1>7, <2>1 DEF CancelSession, MailboxTypes
<1>8. ASSUME Kill PROVE MailboxTypes'
  <2>1. game' \in [at : AllPlaces, abort : BOOLEAN]
    BY <1>8 DEF Kill, AllPlaces
  <2> QED BY <1>8, <2>1 DEF Kill, Ends, MailboxTypes
<1>9. ASSUME StartCompletes PROVE MailboxTypes'
  <2>1. game' \in [at : AllPlaces, abort : BOOLEAN]
    BY <1>9, <1>p DEF StartCompletes, Place, AllPlaces
  <2> QED BY <1>9, <2>1 DEF StartCompletes, MailboxTypes
<1>10. ASSUME SessionOver PROVE MailboxTypes'
  <2>1. game' \in [at : AllPlaces, abort : BOOLEAN]
    BY <1>10, <1>p DEF SessionOver, Place, AllPlaces
  <2> QED BY <1>10, <2>1 DEF SessionOver, MailboxTypes
<1>11. ASSUME ReadSerial PROVE MailboxTypes'
  <2>1. slot.serial \in Word
    BY DEF MailboxTypes, Slot, Word
  <2> QED BY <1>11, <2>1 DEF ReadSerial, MailboxTypes
<1>12. ASSUME ReadWord PROVE MailboxTypes'
  <2>1. Len(read) + 1 \in 1 .. 4
    <3>1. PICK n : n = Len(read)
      OBVIOUS
    <3>2. n \in 1 .. 3
      BY <1>12, <3>1 DEF ReadWord
    <3>3. n + 1 \in 1 .. 4
      BY <3>2
    <3> QED BY <3>1, <3>3
  <2>2. slot[Words[Len(read) + 1]] \in Word
    BY <2>1, SlotWord DEF MailboxTypes
  <2> QED BY <1>12, <2>2 DEF ReadWord, MailboxTypes
<1>13. ASSUME Accept PROVE MailboxTypes'
  BY <1>13 DEF Accept, MailboxTypes
<1> QED
  BY <1>1, <1>2, <1>3, <1>4, <1>5, <1>6, <1>7, <1>8, <1>9, <1>10, <1>11, <1>12, <1>13
  DEF MailboxNext

---------------------------------------------------------------------------
(* MailboxPlaces. *)
LEMMA PlacesStep == ASSUME MailboxTypes, MailboxPlaces, Reading, MailboxNext
                    PROVE  MailboxPlaces'
<1>p. game \in [at : AllPlaces, abort : BOOLEAN] /\ game.abort \in BOOLEAN
  BY DEF MailboxTypes
<1>f. ASSUME UNCHANGED <<game, helper, got>>, read' # <<>> => Stage = "running"
      PROVE  MailboxPlaces'
  BY <1>f DEF MailboxPlaces, Starting, Stage
<1>1. ASSUME NEW a \in Announcement, HelperListens(a) PROVE MailboxPlaces'
  BY <1>1, <1>f DEF HelperListens, MailboxPlaces
<1>2. ASSUME PublishHostListenerObservation PROVE MailboxPlaces'
  BY <1>2, <1>f DEF PublishHostListenerObservation, MailboxPlaces
<1>3. ASSUME HelperEnds PROVE MailboxPlaces'
  BY <1>3 DEF HelperEnds, Ends, MailboxPlaces, Starting, Stage
<1>4. ASSUME StartSession PROVE MailboxPlaces'
  <2>1. Stage = "idle"
    BY <1>4 DEF StartSession, Stage
  <2>2. game'.at = <<"clear", 1, "start">> /\ game'.abort = game.abort
    BY <1>4, <1>p DEF StartSession, Place
  <2>3. Stage' = "clear" /\ game'.at[3] = "start"
    BY <2>2 DEF Stage
  <2> QED BY <1>4, <2>1, <2>2, <2>3 DEF StartSession, MailboxPlaces, Starting
<1>5. ASSUME ClearHostListenerObservation PROVE MailboxPlaces'
  <2> USE <1>5 DEF ClearHostListenerObservation
  <2>0. Stage = "clear"
    BY DEF Stage
  <2>1. PICK k \in 1 .. 4, n \in Nexts : game.at = <<"clear", k, n>>
    BY <1>p, <2>0, PlaceWords
  <2>2. game'.abort = game.abort /\ game'.at = IF k < 4 THEN <<"clear", k + 1, n>> ELSE <<n>>
    BY <1>p, <2>1 DEF Place, Words
  <2>3. game.at[3] = n /\ read = <<>>
    BY <2>0, <2>1 DEF MailboxPlaces
  <2>4. CASE k < 4
    <3>1. Stage' = "clear" /\ game'.at[3] = n
      BY <2>2, <2>4 DEF Stage
    <3> QED BY <2>0, <2>2, <2>3, <3>1 DEF MailboxPlaces, Starting
  <2>5. CASE ~(k < 4)
    <3>1. Stage' = n
      BY <2>2, <2>5 DEF Stage
    <3>2. CASE n = "start" BY <2>0, <2>2, <2>3, <3>1, <3>2 DEF MailboxPlaces, Starting
    <3>3. CASE n = "started" BY <2>0, <2>2, <2>3, <3>1, <3>3 DEF MailboxPlaces, Starting
    <3>4. CASE n = "kill" BY <2>0, <2>2, <2>3, <3>1, <3>4 DEF MailboxPlaces, Starting
    <3> QED BY <3>2, <3>3, <3>4 DEF Nexts
  <2> QED BY <2>4, <2>5
<1>6. ASSUME Spawn PROVE MailboxPlaces'
  <2>1. Stage = "start" /\ ~game.abort
    BY <1>6 DEF Spawn, Stage
  <2>2. game'.at = <<"started">> /\ game'.abort = game.abort
    BY <1>6, <1>p DEF Spawn, Place
  <2>3. Stage' = "started"
    BY <2>2 DEF Stage
  <2> QED BY <1>6, <2>1, <2>2, <2>3 DEF Spawn, MailboxPlaces, Starting
<1>7. ASSUME CancelSession PROVE MailboxPlaces'
  <2>1. CASE game.at = <<"running">> /\ Place(<<"clear", 1, "kill">>)
    <3>1. Stage = "running" /\ game'.at = <<"clear", 1, "kill">>
      BY <2>1, <1>p DEF Place, Stage
    <3>2. Stage' = "clear" /\ game'.at[3] = "kill"
      BY <3>1 DEF Stage
    <3> QED BY <1>7, <3>1, <3>2 DEF CancelSession, MailboxPlaces, Starting
  <2>2. CASE game.at = <<"start">> /\ game' = [at |-> <<"clear", 1, game.at[1]>>, abort |-> TRUE]
    <3>1. Stage = "start" /\ game'.abort
      BY <2>2 DEF Stage
    <3>2. Stage' = "clear" /\ game'.at[3] = "start"
      BY <2>2, <3>1 DEF Stage
    <3> QED BY <1>7, <3>1, <3>2 DEF CancelSession, MailboxPlaces, Starting
  <2>3. CASE game.at = <<"started">> /\ game' = [at |-> <<"clear", 1, game.at[1]>>, abort |-> TRUE]
    <3>1. Stage = "started" /\ game'.abort
      BY <2>3 DEF Stage
    <3>2. Stage' = "clear" /\ game'.at[3] = "started"
      BY <2>3, <3>1 DEF Stage
    <3> QED BY <1>7, <3>1, <3>2 DEF CancelSession, MailboxPlaces, Starting
  <2> QED BY <1>7, <2>1, <2>2, <2>3 DEF CancelSession
<1>8. ASSUME Kill PROVE MailboxPlaces'
  <2>1. Stage \in {"kill", "start"}
    BY <1>8 DEF Kill, Stage
  <2>2. game'.at = <<"idle">> /\ ~game'.abort
    BY <1>8 DEF Kill
  <2>3. Stage' = "idle"
    BY <2>2 DEF Stage
  <2> QED BY <1>8, <2>1, <2>2, <2>3 DEF Kill, Ends, MailboxPlaces, Starting
<1>9. ASSUME StartCompletes PROVE MailboxPlaces'
  <2>1. Stage = "started"
    BY <1>9 DEF StartCompletes, Stage
  <2>2. game'.at = (IF game.abort THEN <<"kill">> ELSE <<"running">>) /\ game'.abort = game.abort
    BY <1>9, <1>p DEF StartCompletes, Place
  <2>3. CASE game.abort
    <3>1. Stage' = "kill"
      BY <2>2, <2>3 DEF Stage
    <3> QED BY <1>9, <2>1, <3>1 DEF StartCompletes, MailboxPlaces, Starting
  <2>4. CASE ~game.abort
    <3>1. Stage' = "running"
      BY <2>2, <2>4 DEF Stage
    <3> QED BY <1>9, <2>1, <2>2, <2>4, <3>1 DEF StartCompletes, MailboxPlaces, Starting
  <2> QED BY <2>3, <2>4
<1>10. ASSUME SessionOver PROVE MailboxPlaces'
  <2>1. Stage = "running"
    BY <1>10 DEF SessionOver, Stage
  <2>2. game'.at = <<"idle">> /\ game'.abort = game.abort
    BY <1>10, <1>p DEF SessionOver, Place
  <2>3. Stage' = "idle"
    BY <2>2 DEF Stage
  <2> QED BY <1>10, <2>1, <2>2, <2>3 DEF SessionOver, MailboxPlaces, Starting
<1>11. ASSUME ReadSerial PROVE MailboxPlaces'
  BY <1>11, <1>f DEF ReadSerial, Stage
<1>12. ASSUME ReadWord PROVE MailboxPlaces'
  <2>1. read # <<>>
    <3>1. Len(read) \in 1 .. 3 /\ read \in Seq(Word)
      BY <1>12 DEF ReadWord, MailboxTypes
    <3> QED BY <3>1
  <2> QED BY <1>12, <1>f, <2>1 DEF ReadWord, MailboxPlaces
<1>13. ASSUME Accept PROVE MailboxPlaces'
  <2>1. Len(read) = 4
    BY <1>13 DEF Accept
  <2>2. read # <<>>
    BY <2>1
  <2>3. Stage = "running"
    BY <2>2 DEF MailboxPlaces
  <2> QED BY <1>13, <2>3 DEF Accept, MailboxPlaces, Starting, Stage
<1> QED
  BY <1>1, <1>2, <1>3, <1>4, <1>5, <1>6, <1>7, <1>8, <1>9, <1>10, <1>11, <1>12, <1>13
  DEF MailboxNext

---------------------------------------------------------------------------
(* The serial and what was said. *)
LEMMA SaidStep == ASSUME MaxLines \in Nat, MailboxTypes, MailboxPlaces, Said, MailboxNext
                  PROVE  Said'
<1>t. /\ slot.serial \in Nat /\ Len(said) \in Nat /\ Len(said) <= MaxLines
      /\ said \in Seq(Announcement)
  BY DEF MailboxTypes, Slot
<1>o. Owed \in 0 .. 2
  BY DEF Owed
<1>b. slot.serial <= 2 * MaxLines
  BY <1>t, <1>o DEF Said
<1>f. ASSUME UNCHANGED <<slot, pub, helper, said>> PROVE Said'
  BY <1>f DEF Said, Owed
<1>1. ASSUME NEW a \in Announcement, HelperListens(a) PROVE Said'
  <2> USE <1>1 DEF HelperListens
  <2>1. pub = <<>> /\ pub' = <<[words |-> a, next |-> 1]>>
    OBVIOUS
  <2>2. Owed = 0 /\ Owed' = 2 /\ pub'[1].words = a
    BY <2>1 DEF Owed
  <2>3. Len(said') = Len(said) + 1 /\ said'[Len(said')] = a /\ said' # <<>>
    BY <1>t
  <2>4. helper # 0 /\ helper' = helper /\ slot' = slot
    OBVIOUS
  <2>5. slot.serial <= 2 * Len(said)
    BY <2>2, <2>4, <1>t DEF Said
  <2>6. slot'.serial + Owed' <= 2 * Len(said')
    BY <2>2, <2>3, <2>4, <2>5, <1>t
  <2> QED BY <2>2, <2>3, <2>4, <2>6 DEF Said
<1>2. ASSUME PublishHostListenerObservation PROVE Said'
  <2> USE <1>2 DEF PublishHostListenerObservation
  <2>1. pub = <<pub[1]>> /\ pub[1] \in Publication /\ pub # <<>>
    BY UnderWay
  <2>2. pub[1].next \in 1 .. 5 /\ slot \in Slot /\ helper # 0
    BY <2>1 DEF Publication, MailboxTypes, Said
  <2>3. slot.serial + Owed <= 2 * Len(said)
    BY <2>2 DEF Said
  <2>4. helper' = helper /\ said' = said
    OBVIOUS
  <2>5. CASE pub[1].next = 5
    <3>1. slot'.serial = slot.serial + 1 /\ pub' = <<>>
      BY <2>2, <2>5 DEF Published, Slot
    <3>2. Owed = 1 /\ Owed' = 0
      BY <2>1, <2>5, <3>1 DEF Owed
    <3> QED BY <2>2, <2>3, <2>4, <3>1, <3>2, <1>t DEF Said
  <2>6. CASE pub[1].next # 5
    <3>1. pub' = <<[pub[1] EXCEPT !.next = @ + 1]>>
      BY <2>2, <2>6 DEF Published
    <3>2. pub'[1].words = pub[1].words /\ pub'[1].next = pub[1].next + 1 /\ pub' # <<>>
      BY <2>1, <3>1 DEF Publication
    <3>3. Owed' = 1
      BY <2>2, <3>2 DEF Owed
    <3>4. CASE pub[1].next = 1
      <4>1. slot'.serial = slot.serial + 1 /\ Owed = 2
        BY <2>1, <2>2, <3>4 DEF Published, Slot, Owed
      <4>2. slot'.serial + Owed' <= 2 * Len(said')
        BY <2>3, <2>4, <3>3, <4>1, <1>t
      <4> QED BY <2>1, <2>2, <2>4, <3>2, <4>2 DEF Said
    <3>5. CASE pub[1].next # 1
      <4>1. Published[pub[1].next] \in {"family", "port", "pid"}
        BY <2>2, <2>6, <3>5 DEF Published
      <4>2. slot'.serial = slot.serial /\ Owed = 1
        BY <2>1, <2>2, <3>5, <4>1 DEF Slot, Owed
      <4>3. slot'.serial + Owed' <= 2 * Len(said')
        BY <2>3, <2>4, <3>3, <4>2, <1>t
      <4> QED BY <2>1, <2>2, <2>4, <3>2, <4>3 DEF Said
    <3> QED BY <3>4, <3>5
  <2> QED BY <2>5, <2>6
<1>3. ASSUME HelperEnds PROVE Said'
  BY <1>3, <1>b DEF HelperEnds, Ends, Said
<1>4. ASSUME StartSession PROVE Said'
  BY <1>4, <1>f DEF StartSession
<1>5. ASSUME ClearHostListenerObservation PROVE Said'
  <2> USE <1>5 DEF ClearHostListenerObservation
  <2>1. PICK k \in 1 .. 4, n \in Nexts : game.at = <<"clear", k, n>>
    BY PlaceWords DEF Stage, MailboxTypes
  <2>2. Words[k] \in {"serial", "family", "port", "pid"}
    BY DEF Words
  <2>3. slot' = [slot EXCEPT ![Words[k]] = Cleared[Words[k]]] /\ slot \in Slot /\ Cleared.serial = 0
    BY <2>1 DEF MailboxTypes, Cleared
  <2>4. slot'.serial = slot.serial \/ slot'.serial = 0
    BY <2>2, <2>3 DEF Slot
  <2>5. Owed' = Owed /\ helper' = helper /\ said' = said /\ pub' = pub
    BY DEF Owed
  <2>6. slot'.serial \in Nat /\ slot'.serial <= slot.serial
    BY <2>4, <1>t
  <2>7. helper # 0 => slot'.serial + Owed' <= 2 * Len(said')
    <3>1. helper # 0 => slot.serial + Owed <= 2 * Len(said)
      BY DEF Said
    <3>2. slot'.serial + Owed <= slot.serial + Owed
      BY ONLY <2>6, <1>t, <1>o
    <3>3. slot'.serial + Owed \in Int /\ slot.serial + Owed \in Int /\ 2 * Len(said) \in Int
      BY ONLY <2>6, <1>t, <1>o
    <3>4. helper # 0 => slot'.serial + Owed <= 2 * Len(said)
      BY ONLY <3>1, <3>2, <3>3
    <3> QED BY <2>5, <3>4, Zenon
  <2>8. slot'.serial <= 2 * MaxLines
    BY <2>6, <1>b, <1>t
  <2> QED BY <2>5, <2>7, <2>8 DEF Said
<1>6. ASSUME Spawn PROVE Said'
  <2>1. Stage = "start"
    BY <1>6 DEF Spawn, Stage
  <2>2. helper = 0
    BY <2>1 DEF MailboxPlaces, Starting
  <2>3. pub' = <<>> /\ said' = <<>> /\ slot'.serial = 0
    BY <1>6, <2>2 DEF Spawn, Said, Cleared
  <2>4. Owed' = 0
    BY <2>3 DEF Owed
  <2> QED BY <2>3, <2>4 DEF Said
<1>7. ASSUME CancelSession PROVE Said'
  BY <1>7, <1>f DEF CancelSession
<1>8. ASSUME Kill PROVE Said'
  BY <1>8, <1>b DEF Kill, Ends, Said
<1>9. ASSUME StartCompletes PROVE Said'
  BY <1>9, <1>f DEF StartCompletes
<1>10. ASSUME SessionOver PROVE Said'
  BY <1>10, <1>f DEF SessionOver
<1>11. ASSUME ReadSerial PROVE Said'
  BY <1>11, <1>f DEF ReadSerial
<1>12. ASSUME ReadWord PROVE Said'
  BY <1>12, <1>f DEF ReadWord
<1>13. ASSUME Accept PROVE Said'
  BY <1>13, <1>f DEF Accept
<1> QED
  BY <1>1, <1>2, <1>3, <1>4, <1>5, <1>6, <1>7, <1>8, <1>9, <1>10, <1>11, <1>12, <1>13
  DEF MailboxNext

---------------------------------------------------------------------------
(* The content of a mailbox nobody has cleared. *)
LEMMA ExactStep == ASSUME MailboxTypes, MailboxPlaces, Said, Kept => Exact, MailboxNext
                   PROVE  Kept' => Exact'
<1>t. slot \in Slot /\ slot.serial \in Nat /\ Len(said) \in Nat /\ said \in Seq(Announcement)
  BY DEF MailboxTypes, Slot
<1>p. game \in [at : AllPlaces, abort : BOOLEAN]
  BY DEF MailboxTypes
<1>f. ASSUME UNCHANGED <<slot, pub, said>>, Kept' => Kept PROVE Kept' => Exact'
  BY <1>f DEF Exact, Written, Owed, Content
<1>g. ASSUME UNCHANGED <<game, helper>> PROVE Kept' <=> Kept
  BY <1>g DEF Kept, Stage
<1>1. ASSUME NEW a \in Announcement, HelperListens(a), Kept' PROVE Exact'
  <2> USE <1>1 DEF HelperListens
  <2>1. Exact
    BY <1>g
  <2>2. pub = <<>> /\ pub' = <<[words |-> a, next |-> 1]>> /\ slot' = slot
    OBVIOUS
  <2>3. Owed = 0 /\ Owed' = 2
    BY <2>2 DEF Owed
  <2>4. Len(said') = Len(said) + 1
    BY <1>t
  <2>5. slot'.serial + Owed' = 2 * Len(said')
    BY <2>1, <2>2, <2>3, <2>4, <1>t DEF Exact
  <2>6. Len(said') > 1 => Content(slot') = said'[Len(said') - 1]
    <3>1. HAVE Len(said') > 1
    <3>2. said # <<>> /\ Len(said) \in 1 .. Len(said) /\ Len(said') - 1 = Len(said)
      BY <3>1, <2>4, <1>t
    <3>3. said'[Len(said)] = said[Len(said)]
      BY <3>2, <1>t
    <3> QED BY <2>1, <2>2, <3>2, <3>3 DEF Exact, Written
  <2>7. pub' # <<>> /\ pub'[1].next = 1
    BY <2>2
  <2> QED BY <2>5, <2>6, <2>7 DEF Exact, Written, Content
<1>2. ASSUME PublishHostListenerObservation, Kept' PROVE Exact'
  <2> USE <1>2 DEF PublishHostListenerObservation
  <2>1. Exact
    BY <1>g
  <2>2. pub = <<pub[1]>> /\ pub[1] \in Publication /\ pub # <<>>
    BY UnderWay
  <2>3. /\ pub[1].next \in 1 .. 5 /\ pub[1].words \in Announcement
        /\ pub[1].words = said[Len(said)]
    BY <2>2 DEF Publication, Said
  <2>4. said' = said
    OBVIOUS
  <2>a. Written
    BY <2>1 DEF Exact
  <2>5. CASE pub[1].next = 5
    <3>1. slot' = [slot EXCEPT !.serial = @ + 1] /\ pub' = <<>>
      <4>1. Published[5] = "serial" /\ Len(Published) = 5
        BY DEF Published
      <4> QED BY <2>5, <4>1
    <3>2. Owed = 1 /\ Owed' = 0 /\ slot'.serial = slot.serial + 1
      BY <2>2, <2>5, <3>1, <1>t DEF Owed, Slot
    <3>3. Content(slot') = Content(slot)
      BY <3>1, <1>t DEF Content, Slot
    <3>4. /\ slot.family = pub[1].words.family /\ slot.port = pub[1].words.port
          /\ slot.pid = pub[1].words.pid
      BY <2>a, <2>2, <2>5 DEF Written
    <3>5. Content(slot) = pub[1].words
      BY <3>4, <2>3 DEF Content, Announcement
    <3>6. slot'.serial + Owed' = 2 * Len(said')
      BY <2>1, <2>4, <3>2, <1>t DEF Exact
    <3>7. Content(slot') = said'[Len(said')]
      BY <2>3, <2>4, <3>3, <3>5
    <3> QED BY <3>1, <3>6, <3>7 DEF Exact, Written, Content
  <2>6. ASSUME pub[1].next # 5, NEW w, w = Published[pub[1].next],
               slot' = [slot EXCEPT ![w] = IF w = "serial" THEN @ + 1 ELSE pub[1].words[w]]
        PROVE  Exact'
    <3>1. pub' = <<[pub[1] EXCEPT !.next = @ + 1]>>
      BY <2>3, <2>6 DEF Published
    <3>2. pub'[1].words = pub[1].words /\ pub'[1].next = pub[1].next + 1 /\ pub' # <<>>
      BY <2>2, <3>1 DEF Publication
    <3>3. Owed' = 1
      BY <2>3, <3>2 DEF Owed
    <3>n. ~(pub'[1].next = 1)
      BY <2>3, <3>2
    <3>w. ASSUME pub'[1].next > 2 => slot'.family = pub[1].words.family,
                 pub'[1].next > 3 => slot'.port = pub[1].words.port,
                 pub'[1].next > 4 => slot'.pid = pub[1].words.pid
          PROVE  Written'
      BY <3>2, <3>n, <3>w DEF Written
    <3>4. CASE pub[1].next = 1
      <4>1. slot'.serial = slot.serial + 1 /\ Owed = 2
        BY <2>2, <2>6, <3>4, <1>t DEF Published, Slot, Owed
      <4>2. slot'.serial + Owed' = 2 * Len(said')
        BY <2>1, <2>4, <3>3, <4>1, <1>t DEF Exact
      <4>3. pub'[1].next = 2
        BY <3>2, <3>4
      <4> QED BY <3>2, <4>2, <4>3 DEF Exact, Written
    <3>5. CASE pub[1].next # 1
      <4>1. pub[1].next = 2 \/ pub[1].next = 3 \/ pub[1].next = 4
        BY <2>3, <2>6, <3>5
      <4>2. w \in {"family", "port", "pid"}
        BY <2>6, <4>1 DEF Published
      <4>3. slot'.serial = slot.serial /\ Owed = 1
        <5>1. w # "serial"
          BY <4>2
        <5>2. slot' = [slot EXCEPT ![w] = pub[1].words[w]]
          BY <2>6, <5>1
        <5> QED BY <2>2, <3>5, <5>1, <5>2, <1>t DEF Slot, Owed
      <4>4. slot'.serial + Owed' = 2 * Len(said')
        BY <2>1, <2>4, <3>3, <4>3, <1>t DEF Exact
      <4>5. CASE pub[1].next = 2
        <5>1. slot'.family = pub[1].words.family /\ pub'[1].next = 3
          BY <2>6, <3>2, <4>5, <1>t DEF Published, Slot
        <5> QED BY <3>2, <3>w, <4>4, <5>1 DEF Exact
      <4>6. CASE pub[1].next = 3
        <5>1. /\ slot'.port = pub[1].words.port /\ slot'.family = slot.family
              /\ pub'[1].next = 4
          BY <2>6, <3>2, <4>6, <1>t DEF Published, Slot
        <5>2. slot.family = pub[1].words.family
          BY <2>a, <2>2, <4>6 DEF Written
        <5> QED BY <3>2, <3>w, <4>4, <5>1, <5>2 DEF Exact
      <4>7. CASE pub[1].next = 4
        <5>1. /\ slot'.pid = pub[1].words.pid /\ slot'.family = slot.family
              /\ slot'.port = slot.port /\ pub'[1].next = 5
          BY <2>6, <3>2, <4>7, <1>t DEF Published, Slot
        <5>2. slot.family = pub[1].words.family /\ slot.port = pub[1].words.port
          BY <2>a, <2>2, <4>7 DEF Written
        <5> QED BY <3>2, <3>w, <4>4, <5>1, <5>2 DEF Exact
      <4> QED BY <4>1, <4>5, <4>6, <4>7
    <3> QED BY <3>4, <3>5
  <2> QED BY <2>5, <2>6
<1>3. ASSUME HelperEnds PROVE ~Kept'
  BY <1>3 DEF HelperEnds, Ends, Kept
<1>4. ASSUME StartSession PROVE ~Kept'
  <2>1. Stage' = "clear"
    BY <1>4, <1>p DEF StartSession, Place, Stage
  <2> QED BY <2>1 DEF Kept
<1>5. ASSUME ClearHostListenerObservation PROVE ~Kept'
  <2> USE <1>5 DEF ClearHostListenerObservation
  <2>0. Stage = "clear"
    BY DEF Stage
  <2>1. PICK k \in 1 .. 4, n \in Nexts : game.at = <<"clear", k, n>>
    BY <1>p, <2>0, PlaceWords
  <2>2. game'.abort = game.abort /\ game'.at = IF k < 4 THEN <<"clear", k + 1, n>> ELSE <<n>>
    BY <1>p, <2>1 DEF Place, Words
  <2>3. Stage' = "clear" \/ Stage' = n
    BY <2>2 DEF Stage
  <2>4. CASE n = "started"
    <3>1. game'.abort
      BY <2>0, <2>1, <2>2, <2>4 DEF MailboxPlaces
    <3> QED BY <2>3, <2>4, <3>1 DEF Kept
  <2>5. CASE n # "started"
    BY <2>3, <2>5 DEF Kept, Nexts
  <2> QED BY <2>4, <2>5
<1>6. ASSUME Spawn PROVE Exact'
  <2>1. Stage = "start"
    BY <1>6 DEF Spawn, Stage
  <2>2. helper = 0
    BY <2>1 DEF MailboxPlaces, Starting
  <2>3. pub' = <<>> /\ said' = <<>> /\ slot'.serial = 0
    BY <1>6, <2>2 DEF Spawn, Said, Cleared
  <2>4. Owed' = 0 /\ Len(said') = 0
    BY <2>3 DEF Owed
  <2> QED BY <2>3, <2>4 DEF Exact, Written, Content
<1>7. ASSUME CancelSession PROVE ~Kept'
  <2>1. Stage' = "clear"
    BY <1>7, <1>p DEF CancelSession, Place, Stage
  <2> QED BY <2>1 DEF Kept
<1>8. ASSUME Kill PROVE ~Kept'
  BY <1>8 DEF Kill, Ends, Kept
<1>9. ASSUME StartCompletes PROVE Kept' => Exact'
  <2>1. Stage = "started"
    BY <1>9 DEF StartCompletes, Stage
  <2>2. game'.at = (IF game.abort THEN <<"kill">> ELSE <<"running">>) /\ game'.abort = game.abort
    BY <1>9, <1>p DEF StartCompletes, Place
  <2>3. game.abort => Stage' = "kill"
    BY <2>2 DEF Stage
  <2>4. Kept' => Kept
    BY <1>9, <2>1, <2>3 DEF StartCompletes, Kept
  <2> QED BY <1>9, <1>f, <2>4 DEF StartCompletes
<1>10. ASSUME SessionOver PROVE ~Kept'
  <2>1. Stage' = "idle"
    BY <1>10, <1>p DEF SessionOver, Place, Stage
  <2> QED BY <2>1 DEF Kept
<1>11. ASSUME ReadSerial PROVE Kept' => Exact'
  BY <1>11, <1>f, <1>g DEF ReadSerial
<1>12. ASSUME ReadWord PROVE Kept' => Exact'
  BY <1>12, <1>f, <1>g DEF ReadWord
<1>13. ASSUME Accept PROVE Kept' => Exact'
  BY <1>13, <1>f, <1>g DEF Accept
<1> QED
  BY <1>1, <1>2, <1>3, <1>4, <1>5, <1>6, <1>7, <1>8, <1>9, <1>10, <1>11, <1>12, <1>13
  DEF MailboxNext

---------------------------------------------------------------------------
(* What a reader has read. *)
LEMMA ReadingStep == ASSUME MaxHelpers \in Nat, MailboxTypes, MailboxPlaces, Said, Kept => Exact, Reading, MailboxNext
                     PROVE  Reading'
<1>t. slot \in Slot /\ slot.serial \in Nat /\ Len(said) \in Nat /\ read \in Seq(Word)
  BY DEF MailboxTypes, Slot
<1>f. ASSUME UNCHANGED <<slot, read>> PROVE Reading'
  BY <1>f DEF Reading
<1>e. ASSUME read' = read, Stage # "running" PROVE Reading'
  BY <1>e DEF Reading, MailboxPlaces
<1>1. ASSUME NEW a \in Announcement, HelperListens(a) PROVE Reading'
  BY <1>1, <1>f DEF HelperListens
<1>2. ASSUME PublishHostListenerObservation, read' # <<>> PROVE Reading'
  <2> USE <1>2 DEF PublishHostListenerObservation
  <2>1. read # <<>> /\ read' = read
    OBVIOUS
  <2>2. pub = <<pub[1]>> /\ pub[1] \in Publication /\ pub # <<>>
    BY UnderWay
  <2>3. pub[1].next \in 1 .. 5 /\ helper # 0
    BY <2>2 DEF Publication, Said
  <2>4. Exact
    BY <2>1, <2>3 DEF MailboxPlaces, Kept
  <2>5. PICK s : s = read[1]
    OBVIOUS
  <2>6. s \in Nat /\ s > 0 /\ s % 2 = 0 /\ s <= slot.serial /\ Len(read) \in 1 .. 4
    BY <2>1, <2>5 DEF Reading
  <2>7. CASE pub[1].next \in {1, 5}
    <3>1. slot'.serial = slot.serial + 1
      <4>1. Published[pub[1].next] = "serial"
        BY <2>7 DEF Published
      <4> QED BY <4>1, <1>t DEF Slot
    <3>2. s <= slot'.serial /\ s # slot'.serial
      <4>1. PICK k \in Nat : k = slot.serial
        BY <1>t
      <4>2. s <= k + 1 /\ s # k + 1
        BY <2>6, <4>1
      <4> QED BY <3>1, <4>1, <4>2
    <3>3. read'[1] = s /\ Len(read') = Len(read)
      BY <2>1, <2>5
    <3> QED BY <2>6, <3>2, <3>3 DEF Reading
  <2>8. CASE pub[1].next \in {2, 3, 4}
    <3>1. PICK w \in {"family", "port", "pid"} : w = Published[pub[1].next]
      BY <2>8 DEF Published
    <3>2. slot' = [slot EXCEPT ![w] = pub[1].words[w]] /\ w # "serial"
      BY <3>1
    <3>3. slot'.serial = slot.serial
      BY <3>2, <1>t DEF Slot
    <3>4. Owed = 1
      BY <2>2, <2>8 DEF Owed
    <3>5. slot.serial + 1 = 2 * Len(said)
      BY <2>4, <3>4 DEF Exact
    <3>6. s # slot.serial
      <4>1. PICK k \in Nat, m \in Nat : k = slot.serial /\ m = Len(said)
        BY <1>t
      <4>2. k + 1 = 2 * m
        BY <3>5, <4>1
      <4>3. k % 2 = 1
        BY <4>2
      <4> QED BY <2>6, <4>1, <4>3
    <3> QED BY <2>1, <2>5, <2>6, <3>3, <3>6 DEF Reading
  <2> QED BY <2>3, <2>7, <2>8
<1>3. ASSUME HelperEnds PROVE Reading'
  BY <1>3, <1>f DEF HelperEnds
<1>4. ASSUME StartSession PROVE Reading'
  BY <1>4, <1>f DEF StartSession
<1>5. ASSUME ClearHostListenerObservation PROVE Reading'
  BY <1>5, <1>e DEF ClearHostListenerObservation, Stage
<1>6. ASSUME Spawn PROVE Reading'
  BY <1>6, <1>e DEF Spawn, Stage
<1>7. ASSUME CancelSession PROVE Reading'
  BY <1>7, <1>f DEF CancelSession
<1>8. ASSUME Kill PROVE Reading'
  BY <1>8, <1>f DEF Kill
<1>9. ASSUME StartCompletes PROVE Reading'
  BY <1>9, <1>f DEF StartCompletes
<1>10. ASSUME SessionOver PROVE Reading'
  BY <1>10, <1>f DEF SessionOver
<1>11. ASSUME ReadSerial PROVE Reading'
  <2>1. PICK s \in Nat : s = slot.serial
    BY <1>t
  <2>2. s > 0 /\ s % 2 = 0 /\ read' = <<s>> /\ slot' = slot
    BY <1>11, <2>1 DEF ReadSerial
  <2>3. Len(read') = 1 /\ read'[1] = s
    BY <2>2
  <2> QED BY <2>1, <2>2, <2>3 DEF Reading
<1>12. ASSUME ReadWord PROVE Reading'
  <2>1. PICK n : n = Len(read)
    OBVIOUS
  <2>2. n \in 1 .. 3 /\ slot' = slot /\ read' = Append(read, slot[Words[n + 1]])
    BY <1>12, <2>1 DEF ReadWord
  <2>3. n + 1 \in 1 .. 4
    BY <2>2
  <2>4. slot[Words[n + 1]] \in Word
    BY <2>3, <1>t, SlotWord
  <2>5. /\ Len(read') = n + 1
        /\ \A i \in 1 .. n : read'[i] = read[i]
        /\ read'[n + 1] = slot[Words[n + 1]]
    BY <2>1, <2>2, <2>4, <1>t
  <2>6. read # <<>>
    BY <2>1, <2>2
  <2>7. /\ read[1] \in Nat /\ read[1] > 0 /\ read[1] % 2 = 0 /\ read[1] <= slot.serial
        /\ read[1] = slot.serial => \A i \in 2 .. n : read[i] = slot[Words[i]]
    BY <2>1, <2>6 DEF Reading
  <2>8. read'[1] = read[1]
    BY <2>2, <2>5
  <2>9. ASSUME read'[1] = slot'.serial, NEW i \in 2 .. (n + 1)
        PROVE  read'[i] = slot'[Words[i]]
    <3>1. CASE i = n + 1
      BY <2>2, <2>5, <3>1
    <3>2. CASE i # n + 1
      <4>1. i \in 2 .. n /\ i \in 1 .. n
        BY <2>2, <3>2
      <4>2. read'[i] = read[i]
        BY <2>5, <4>1
      <4> QED BY <2>2, <2>7, <2>8, <2>9, <4>1, <4>2
    <3> QED BY <3>1, <3>2
  <2>10. Len(read') \in 1 .. 4
    BY <2>3, <2>5
  <2>11. slot'.serial = slot.serial
    BY <2>2
  <2> QED BY <2>5, <2>7, <2>8, <2>9, <2>10, <2>11 DEF Reading
<1>13. ASSUME Accept PROVE Reading'
  BY <1>13 DEF Accept, Reading
<1>14. ASSUME read' = <<>> PROVE Reading'
  BY <1>14 DEF Reading
<1> QED
  BY <1>1, <1>2, <1>3, <1>4, <1>5, <1>6, <1>7, <1>8, <1>9, <1>10, <1>11, <1>12, <1>13, <1>14
  DEF MailboxNext

---------------------------------------------------------------------------
(* An accepted observation. *)
LEMMA AcceptStep == ASSUME MailboxTypes, MailboxPlaces, Said, Kept => Exact, Reading, AcceptedWasSaid, Accept
                    PROVE  AcceptedWasSaid'
<1> USE DEF Accept
<1>1. SUFFICES ASSUME helper # 0, game.at = <<"running">>, got' # got
               PROVE  \E i \in DOMAIN said : Content(got') = said[i]
  BY DEF AcceptedWasSaid, Content
<1>t. slot \in Slot /\ slot.serial \in Nat /\ Len(said) \in Nat /\ read \in Seq(Word)
      /\ said \in Seq(Announcement)
  BY DEF MailboxTypes, Slot
<1>2. /\ Coherent /\ Len(read) = 4
      /\ got' = [serial |-> read[1], family |-> read[2], port |-> read[3], pid |-> read[4]]
  BY <1>1
<1>3. read # <<>> /\ read[1] = slot.serial /\ 2 \in 2 .. 4 /\ 3 \in 2 .. 4 /\ 4 \in 2 .. 4
  BY <1>2 DEF Coherent
<1>4. \A i \in 2 .. 4 : read[i] = slot[Words[i]]
  BY <1>2, <1>3 DEF Reading
<1>5. read[2] = slot.family /\ read[3] = slot.port /\ read[4] = slot.pid
  BY <1>3, <1>4 DEF Words
<1>6. Content(got') = Content(slot)
  BY <1>2, <1>5 DEF Content
<1>7. Exact
  BY <1>1 DEF Kept, Stage
<1>8. PICK k \in Nat, n \in Nat : k = slot.serial /\ n = Len(said)
  BY <1>t
<1>9. k > 0 /\ k % 2 = 0
  BY <1>3, <1>8 DEF Reading
<1>10. k + Owed = 2 * n
  BY <1>7, <1>8 DEF Exact
<1>11. \A i \in 1 .. n : i \in DOMAIN said
  BY <1>8, <1>t
<1>12. CASE pub = <<>>
  <2>1. Owed = 0
    BY <1>12 DEF Owed
  <2>2. n \in 1 .. n
    BY <1>9, <1>10, <2>1
  <2>3. said # <<>>
    BY <2>2, <1>8
  <2>4. Content(slot) = said[n]
    BY <1>7, <1>8, <1>12, <2>3 DEF Exact, Written
  <2> QED BY <1>6, <1>11, <2>2, <2>4
<1>13. CASE pub # <<>>
  <2>1. pub[1].next = 1
    <3>1. SUFFICES ASSUME pub[1].next # 1 PROVE FALSE
      OBVIOUS
    <3>2. Owed = 1
      BY <1>13, <3>1 DEF Owed
    <3>3. k + 1 = 2 * n
      BY <1>10, <3>2
    <3> QED BY <1>9, <3>3
  <2>2. Owed = 2
    BY <1>13, <2>1 DEF Owed
  <2>3. n > 1 /\ n - 1 \in 1 .. n
    BY <1>9, <1>10, <2>2
  <2>4. Content(slot) = said[n - 1]
    BY <1>7, <1>8, <1>13, <2>1, <2>3 DEF Exact, Written
  <2> QED BY <1>6, <1>11, <2>3, <2>4
<1> QED BY <1>12, <1>13

LEMMA AcceptedStep ==
  ASSUME MailboxTypes, MailboxPlaces, Said, Kept => Exact, Reading, AcceptedWasSaid, MailboxNext
  PROVE  AcceptedWasSaid'
<1>p. game \in [at : AllPlaces, abort : BOOLEAN]
  BY DEF MailboxTypes
<1>f. ASSUME UNCHANGED <<game, helper, got, said>> PROVE AcceptedWasSaid'
  BY <1>f DEF AcceptedWasSaid, Content
<1>g. ASSUME helper' = 0 \/ got' = Cleared PROVE AcceptedWasSaid'
  BY <1>g DEF AcceptedWasSaid
<1>n. ASSUME Stage' # "running" PROVE AcceptedWasSaid'
  BY <1>n DEF AcceptedWasSaid, Stage
<1>1. ASSUME NEW a \in Announcement, HelperListens(a) PROVE AcceptedWasSaid'
  <2> USE <1>1 DEF HelperListens
  <2>0. said \in Seq(Announcement)
    BY DEF MailboxTypes
  <2>1. ASSUME NEW i \in DOMAIN said PROVE i \in DOMAIN said' /\ said'[i] = said[i]
    BY <2>0
  <2> QED BY <2>1 DEF AcceptedWasSaid, Content
<1>2. ASSUME PublishHostListenerObservation PROVE AcceptedWasSaid'
  BY <1>2, <1>f DEF PublishHostListenerObservation
<1>3. ASSUME HelperEnds PROVE AcceptedWasSaid'
  BY <1>3, <1>g DEF HelperEnds, Ends
<1>4. ASSUME StartSession PROVE AcceptedWasSaid'
  BY <1>4, <1>g DEF StartSession
<1>5. ASSUME ClearHostListenerObservation PROVE AcceptedWasSaid'
  <2>0. Stage = "clear"
    BY <1>5 DEF ClearHostListenerObservation, Stage
  <2>1. PICK k \in 1 .. 4, n \in Nexts : game.at = <<"clear", k, n>>
    BY <1>p, <2>0, PlaceWords
  <2>2. game'.at = IF k < 4 THEN <<"clear", k + 1, n>> ELSE <<n>>
    BY <1>5, <1>p, <2>1 DEF ClearHostListenerObservation, Place, Words
  <2>3. Stage' = "clear" \/ Stage' = n
    BY <2>2 DEF Stage
  <2> QED BY <1>n, <2>3 DEF Nexts
<1>6. ASSUME Spawn PROVE AcceptedWasSaid'
  <2>1. Stage' = "started"
    BY <1>6, <1>p DEF Spawn, Place, Stage
  <2> QED BY <1>n, <2>1
<1>7. ASSUME CancelSession PROVE AcceptedWasSaid'
  <2>1. Stage' = "clear"
    BY <1>7, <1>p DEF CancelSession, Place, Stage
  <2> QED BY <1>n, <2>1
<1>8. ASSUME Kill PROVE AcceptedWasSaid'
  BY <1>8, <1>g DEF Kill, Ends
<1>9. ASSUME StartCompletes PROVE AcceptedWasSaid'
  <2>1. got' = Cleared
    BY <1>9 DEF StartCompletes, MailboxPlaces, Stage
  <2> QED BY <1>g, <2>1
<1>10. ASSUME SessionOver PROVE AcceptedWasSaid'
  BY <1>10, <1>g DEF SessionOver
<1>11. ASSUME ReadSerial PROVE AcceptedWasSaid'
  BY <1>11, <1>f DEF ReadSerial
<1>12. ASSUME ReadWord PROVE AcceptedWasSaid'
  BY <1>12, <1>f DEF ReadWord
<1>13. ASSUME Accept PROVE AcceptedWasSaid'
  BY <1>13, AcceptStep
<1> QED
  BY <1>1, <1>2, <1>3, <1>4, <1>5, <1>6, <1>7, <1>8, <1>9, <1>10, <1>11, <1>12, <1>13
  DEF MailboxNext

---------------------------------------------------------------------------
(* The invariant holds throughout. *)
THEOREM MailboxInductive == ASSUME MaxLines \in Nat, MaxHelpers \in Nat
                     PROVE  MailboxSpec => []MailboxInv
<1>1. MailboxInit => MailboxInv
  BY Begins
<1>2. MailboxInv /\ [MailboxNext]_mailboxVars => MailboxInv'
  <2>1. ASSUME MailboxInv, MailboxNext PROVE MailboxInv'
    <3> USE <2>1 DEF MailboxInv
    <3>1. MailboxTypes' BY TypesStep
    <3>2. MailboxPlaces' BY PlacesStep
    <3>3. Said' BY SaidStep
    <3>4. Kept' => Exact' BY ExactStep
    <3>5. Reading' BY ReadingStep
    <3>6. AcceptedWasSaid' BY AcceptedStep
    <3> QED BY <3>1, <3>2, <3>3, <3>4, <3>5, <3>6
  <2>2. ASSUME MailboxInv, UNCHANGED mailboxVars PROVE MailboxInv'
    <3> USE <2>2 DEF mailboxVars
    <3>1. MailboxTypes' BY DEF MailboxInv, MailboxTypes
    <3>2. MailboxPlaces' BY DEF MailboxInv, MailboxPlaces, Starting, Stage
    <3>3. Said' BY DEF MailboxInv, Said, Owed
    <3>4. Kept' => Exact' BY DEF MailboxInv, Kept, Stage, Exact, Written, Owed, Content
    <3>5. Reading' BY DEF MailboxInv, Reading
    <3>6. AcceptedWasSaid' BY DEF MailboxInv, AcceptedWasSaid, Content
    <3> QED BY <3>1, <3>2, <3>3, <3>4, <3>5, <3>6 DEF MailboxInv
  <2> QED BY <2>1, <2>2
<1> QED BY <1>1, <1>2, PTL DEF MailboxSpec

(* Whatever the game reads as a listener of the session's helper is one      *)
(* announcement of that helper, and what the helper has announced is         *)
(* readable to a running session: the clears of ClearHostListenerObservation *)
(* and the deaths of a helper in the middle of a publication never leave a   *)
(* torn or an unreadable mailbox to a session that goes on.                  *)
THEOREM MailboxSafety == ASSUME MaxLines \in Nat, MaxHelpers \in Nat
                         PROVE  MailboxSpec => []MailboxSafe
<1>1. ASSUME MailboxInv PROVE MailboxSafe
  <2> USE <1>1 DEF MailboxInv
  <2>t. slot \in Slot /\ slot.serial \in Nat /\ Len(said) \in Nat /\ Len(said) <= MaxLines
        /\ said \in Seq(Announcement)
    BY DEF MailboxTypes, Slot
  <2>1. MailboxTypeOK
    <3>1. Owed \in 0 .. 2
      BY DEF Owed
    <3>2. slot.serial <= 2 * MaxLines
      BY <2>t, <3>1 DEF Said
    <3>3. slot.serial \in 0 .. 2 * MaxLines
      BY <2>t, <3>2
    <3> QED BY <2>t, <3>3 DEF MailboxTypeOK, MailboxTypes, Slot
  <2>2. AnnouncedIsReadable
    <3>1. SUFFICES ASSUME game.at = <<"running">>, pub = <<>>, said # <<>>
                   PROVE  slot.serial > 0 /\ slot.serial % 2 = 0 /\ Content(slot) = said[Len(said)]
      BY DEF AnnouncedIsReadable
    <3>2. Exact
      BY <3>1 DEF Said, Kept, Stage
    <3>3. PICK k \in Nat, n \in Nat : k = slot.serial /\ n = Len(said)
      BY <2>t
    <3>4. n > 0
      BY <3>1, <3>3, <2>t
    <3>5. k = 2 * n
      BY <3>1, <3>2, <3>3 DEF Exact, Owed
    <3>6. k > 0 /\ k % 2 = 0
      BY <3>4, <3>5
    <3> QED BY <3>1, <3>2, <3>3, <3>6 DEF Exact, Written
  <2> QED BY <2>1, <2>2 DEF MailboxSafe
<1> QED BY <1>1, MailboxInductive, PTL

--------------------------------------------------------------------------------
(***************************************************************************)
(* Proofs about Prompts, for any number of delay questions.                *)
(*                                                                         *)
(* A delay question is in one place: a line not yet parsed, the line the   *)
(* capture thread is publishing, or a serial that is not served; and while *)
(* it is in one of them the helper does not ask again (DelayPlaces).  So   *)
(* the question is answered before the next one is published, and the four *)
(* serials of question and answer advance in turn (AnswersPaired): a       *)
(* queued answer belongs to the question that is open.  The overlay may    *)
(* queue one only while it has none queued for that question               *)
(* (OverlayPlaces), whatever the helper published between its reads.       *)
(*                                                                         *)
(* The timeout line is written once, with the wakes counted at that moment *)
(* (TimeoutPlaces): from there to the tick that releases it, what is kept  *)
(* of it is never less than the wake that follows the line.                *)
(***************************************************************************)

USE PromptsAssumption

LineKinds == {"delay", "already", "notyet", "timeout", "error"}
DelaySteps == {"delay", "range", "serial", "prompt"}
Spectating == {"already", "notyet"}
AfterDelay == {"delay", "timedout", "over"}

\* A question for the delay is printed and not yet published.
Printed(kinds) == \E i \in DOMAIN lines : lines[i].k \in kinds
Coming == Printed({"delay"}) \/ cap.what \in DelaySteps
OnlyOne(kinds) ==
  \A i, j \in DOMAIN lines : lines[i].k \in kinds /\ lines[j].k \in kinds => i = j

ConsoleType == [alive : BOOLEAN, stage : Stages, owes : BOOLEAN, asks : 0 .. MaxAsk,
                bound : BOOLEAN]
LineType == [k : LineKinds, snap : Serials]
CapType == [what : LineKinds \cup DelaySteps \cup {"held", "idle"}, n : Nat, required : Nat]
WakeType == [req : Nat, served : Nat]
DelayType == [serial : Nat, served : Nat, metrics : Nat, range : Nat]
InputType == [serial : Nat, served : Nat, val : Int]
TimeoutType == [serial : Nat, required : Nat, handled : Nat, trans : Nat]
SpectateType == [serial : Nat, served : Nat, kind : {"none"} \cup Spectating]
ReaderType ==
  [at : {"out", "loop", "spectate", "default", "answer", "native"}, prompt : Nat, input : Nat]
UiType ==
  [delay : {"off", "select", "wait"}, prompt : Nat, spectate : BOOLEAN, sent : BOOLEAN]
ApplyType == [prompt : Nat, val : Int, range : Nat]
InitType == [event : BOOLEAN, retired : BOOLEAN, applied : BOOLEAN,
             post : {"NotAttempted", "Succeeded", "Failed"}]
DeliveredType == [prompt : Nat, for : Nat, val : Int]
GhostType == [for : Nat, got : SUBSET DeliveredType, dup : BOOLEAN, wake : Nat]

\* The types.
PromptTypes ==
  /\ role \in Roles /\ phase \in Phases /\ menu \in BOOLEAN /\ err \in BOOLEAN
  /\ console \in ConsoleType /\ lines \in Seq(LineType) /\ cap \in CapType
  /\ wake \in WakeType /\ dp \in DelayType /\ di \in InputType /\ timeout \in TimeoutType
  /\ sp \in SpectateType /\ si \in InputType /\ rd \in ReaderType
  /\ ui \in UiType /\ app \in ApplyType /\ init \in InitType /\ ghost \in GhostType

\* A line is printed and its wake is not yet written.
BelOwed == IF console.owes THEN 1 ELSE 0
\* Every wake follows a line: one for each delay question asked, one for
\* the spectate question and one for the timeout.
WakesCounted ==
  /\ wake.served <= wake.req
  /\ console.stage \in {"menu", "waiting"} => wake.req + BelOwed <= MaxAsk - console.asks
  /\ console.stage \in {"delay", "spectate", "answered"} =>
       wake.req + BelOwed <= MaxAsk - console.asks + 1
  /\ wake.req + BelOwed <= MaxAsk - console.asks + 2

\* A delay question is in one place, and the helper waits for its answer.
DelayPlaces ==
  /\ ~menu => console.stage = "menu"
  /\ Coming \/ dp.served < dp.serial => console.stage \in AfterDelay
  /\ Coming => dp.serial = dp.served /\ dp.serial < MaxAsk - console.asks
  /\ dp.serial <= MaxAsk - console.asks
  /\ cap.what \in DelaySteps => ~Printed({"delay"})
  /\ OnlyOne({"delay"})
  /\ dp.metrics <= dp.serial + 1 /\ dp.range <= dp.serial + 1

\* The spectate question is in one place, and the reader has read its serial.
SpectatePlaces ==
  /\ Printed(Spectating) \/ cap.what \in Spectating => console.stage = "spectate" /\ sp.serial = 0
  /\ sp.served < sp.serial => console.stage = "spectate"
  /\ sp.served <= sp.serial
  /\ cap.what \in Spectating => ~Printed(Spectating)
  /\ OnlyOne(Spectating)
  /\ rd.at \in {"spectate", "default"} => rd.prompt = sp.serial /\ sp.served < sp.serial
  /\ rd.at = "spectate" => rd.input <= si.serial
  /\ si.served <= si.serial

\* What is kept of the timeout line is never less than the wake after it.
TimeoutPlaces ==
  /\ console.stage \notin {"timedout", "over"} =>
       ~Printed({"timeout"}) /\ cap.what \notin {"timeout", "held"} /\ timeout.serial = 0
  /\ \A i \in DOMAIN lines : lines[i].k = "timeout" => lines[i].snap + 1 = ghost.wake
  /\ cap.what = "timeout" => cap.n + 1 = ghost.wake
  /\ cap.what = "held" => ghost.wake <= cap.required
  /\ timeout.serial > 0 => ghost.wake <= timeout.required
  /\ timeout.handled <= timeout.serial /\ timeout.serial <= dp.serial

\* Questions and answers advance in turn.
AnswersPaired ==
  /\ di.served = dp.served /\ di.served <= di.serial
  /\ di.serial <= dp.serial /\ dp.serial <= dp.served + 1
  /\ rd.at = "answer" => /\ rd.prompt = dp.serial /\ rd.input = di.serial
                         /\ dp.served < dp.serial /\ di.served < di.serial
  /\ di.served < di.serial => ghost.for = dp.serial /\ di.val \in RangeOf(dp.serial)
  /\ console.alive => \A g \in ghost.got : g.prompt <= dp.served
  /\ di.served > 0 => ghost.got # {}

\* The overlay has queued no answer yet for the question it answers.
OverlayPlaces ==
  /\ app.prompt > 0 => /\ ui.delay = "select" /\ app.prompt = ui.prompt
                       /\ app.val \in RangeOf(app.prompt)
                       /\ app.prompt = dp.serial => di.serial < dp.serial
  /\ app.prompt = 0 => app = NoApply
  /\ phase \in Live /\ dp.serial > 0 /\ di.serial = dp.serial =>
       ui.delay = "wait" /\ ui.prompt = dp.serial

\* A dead helper prints nothing and reads nothing.
GoneIsQuiet == ~console.alive => lines = <<>> /\ cap = NoLine /\ rd = Out

\* The inductive invariant.
PromptsInv ==
  /\ PromptTypes /\ WakesCounted /\ DelayPlaces /\ SpectatePlaces /\ TimeoutPlaces
  /\ AnswersPaired /\ OverlayPlaces
  /\ GoneIsQuiet /\ AnswerMeetsItsPrompt /\ ReleasedByItsOwnWake /\ ConnectedMeansAnswered

\* A line is printed: some line of a kind is there if one was or it is of that kind.
LEMMA LineWritten ==
  ASSUME PromptTypes, NEW k \in LineKinds, Emit(k), NEW CONSTANT K
  PROVE  /\ Printed(K)' <=> Printed(K) \/ k \in K
         /\ OnlyOne(K) /\ (k \in K => ~Printed(K)) => OnlyOne(K)'
<1> DEFINE l == [k |-> k, snap |-> wake.req]
<1>1. /\ lines' = Append(lines, l) /\ lines \in Seq(LineType)
      /\ l.k = k
  BY DEF Emit, PromptTypes
<1>2. /\ Len(lines) \in Nat /\ DOMAIN lines = 1 .. Len(lines)
      /\ DOMAIN lines' = 1 .. Len(lines) + 1
      /\ \A i \in 1 .. Len(lines) : lines'[i] = lines[i]
      /\ lines'[Len(lines) + 1].k = k
  BY <1>1
<1> HIDE DEF l
<1>3. Printed(K)' <=> Printed(K) \/ k \in K
  BY <1>2 DEF Printed
<1>4. ASSUME OnlyOne(K), k \in K => ~Printed(K)
      PROVE  OnlyOne(K)'
  BY <1>2, <1>4 DEF Printed, OnlyOne
<1> QED BY <1>3, <1>4

\* The first line is taken: the only one of its kind is then gone.
LEMMA LineTaken ==
  ASSUME PromptTypes, lines # <<>>, lines' = Tail(lines), NEW CONSTANT K
  PROVE  /\ Printed(K)' => Printed(K)
         /\ Head(lines).k \in K => Printed(K)
         /\ OnlyOne(K) => OnlyOne(K)' /\ (Head(lines).k \in K => ~Printed(K)')
<1>1. /\ Len(lines) \in Nat \ {0} /\ DOMAIN lines = 1 .. Len(lines)
      /\ DOMAIN lines' = 1 .. Len(lines) - 1
      /\ \A i \in 1 .. Len(lines) - 1 : lines'[i] = lines[i + 1]
      /\ Head(lines) = lines[1]
  BY DEF PromptTypes
<1>2. Printed(K)' => Printed(K)
  BY <1>1 DEF Printed
<1>3. Head(lines).k \in K => Printed(K)
  BY <1>1 DEF Printed
<1>4. OnlyOne(K) => OnlyOne(K)'
  BY <1>1 DEF OnlyOne
<1>5. OnlyOne(K) /\ Head(lines).k \in K => ~Printed(K)'
  BY <1>1 DEF OnlyOne, Printed
<1> QED BY <1>2, <1>3, <1>4, <1>5

\* No lines, none of any kind.
LEMMA NothingPrinted ==
  ASSUME lines' = <<>>, NEW CONSTANT K
  PROVE  ~Printed(K)' /\ OnlyOne(K)'
BY DEF Printed, OnlyOne

\* Lines that stay keep what is printed.
LEMMA SameLines ==
  ASSUME UNCHANGED lines, NEW CONSTANT K
  PROVE  (Printed(K)' <=> Printed(K)) /\ (OnlyOne(K)' <=> OnlyOne(K))
BY DEF Printed, OnlyOne

\* The helper writes neither the question and answer pairs nor what the game keeps.
LEMMA HelperKeeps ==
  HelperStep => UNCHANGED <<role, phase, ui, app, menu, dp, di, timeout, sp, si, err>>
BY DEF HelperStep, PrintsDelayPrompt, PrintsSpectatePrompt, PrintsTimeout, PrintsError, Binds,
       AsksForInit, HelperDies, WritesWake, FlushesInput, block, gameSide

\* The capture thread touches neither the helper, its reader, nor the game.
LEMMA CaptureKeeps ==
  CaptureStep => UNCHANGED <<role, phase, ui, app, init, console, menu, wake, di, si, rd, ghost>>
BY DEF CaptureStep, TakeLine, PublishMetrics, PublishRange, PublishMetricsSerial,
       PublishDelayPromptSerial, PublishSpectateConfirmPrompt, PublishConsoleError, JudgeTimeout,
       PublishHeldTimeout, block, gameSide

\* The reader touches neither the game nor the lines.
LEMMA ReaderKeeps ==
  ReaderStep => UNCHANGED <<role, phase, ui, app, init, lines, cap, timeout, err>>
BY DEF ReaderStep, EntersReadConsole, ServeMenuChoice, DeliverWake, SeesSpectateAnswer,
       SpectateDeadline, ServeSpectateAnswer, SeesDelayAnswer, ServeDelayAnswer,
       ReadsRealConsole, LeavesRealConsole, block, gameSide

\* Apart from cancelling, the overlays only write answers and what they show.
LEMMA OverlayKeeps ==
  OverlayStep =>
    \/ CancelFromOverlay
    \/ UNCHANGED <<role, phase, console, lines, cap, menu, wake, dp, timeout, sp, err, rd, init>>
BY DEF OverlayStep, ActivateDelaySetupOverlay, UpdateDelaySetupMetrics, ConfirmDelay, ReadRange,
       QueueDelayInput, ActivateSpectateConfirmOverlay, DismissSpectateConfirmOverlay,
       AnswerSpectatePromptChoice, LeavesSession, block

\* The tick writes the phase, the handshake, the error and the handled timeout.
LEMMA TickKeeps ==
  TickStep => UNCHANGED <<role, console, lines, cap, menu, wake, dp, di, sp, si, rd, ui, app,
                          ghost>>
BY DEF TickStep, TickHelperDead, TickRequiresRetirement, TickProceeds

\* Every step keeps the count of wakes.
LEMMA WakesNext ==
  ASSUME PromptTypes, WakesCounted, DelayPlaces, SpectatePlaces, PromptsNext
  PROVE  WakesCounted'
<1>0. /\ wake.req \in Nat /\ wake.served \in Nat /\ console.asks \in 0 .. MaxAsk
      /\ console.owes \in BOOLEAN /\ BelOwed \in {0, 1} /\ console \in ConsoleType
  BY DEF PromptTypes, WakeType, ConsoleType, BelOwed
<1>u. CASE UNCHANGED <<wake, console>>
  BY <1>u DEF WakesCounted, BelOwed
<1>1. CASE PrintsDelayPrompt
  <2>1. /\ wake' = wake /\ console'.stage = "delay" /\ console'.asks = console.asks - 1
        /\ BelOwed' = 1 /\ BelOwed = 0 /\ console.asks > 0
        /\ console.stage \in {"waiting", "answered"}
    BY <1>1, <1>0 DEF PrintsDelayPrompt, block, BelOwed, ConsoleType
  <2> QED BY <1>0, <2>1 DEF WakesCounted
<1>2. CASE PrintsSpectatePrompt
  <2>1. /\ wake' = wake /\ console'.stage = "spectate" /\ console'.asks = console.asks
        /\ BelOwed' \in {0, 1} /\ BelOwed = 0 /\ console.stage = "waiting"
    BY <1>2, <1>0 DEF PrintsSpectatePrompt, block, BelOwed, ConsoleType
  <2> QED BY <1>0, <2>1 DEF WakesCounted
<1>3. CASE PrintsTimeout
  <2>1. /\ wake' = wake /\ console'.stage = "timedout" /\ console'.asks = console.asks
        /\ BelOwed' = 1 /\ BelOwed = 0 /\ console.stage = "delay"
    BY <1>3, <1>0 DEF PrintsTimeout, block, BelOwed, ConsoleType
  <2> QED BY <1>0, <2>1 DEF WakesCounted
<1>4. CASE PrintsError
  <2>1. /\ wake' = wake /\ console'.stage = "over" /\ console'.asks = console.asks
        /\ BelOwed' = BelOwed
    BY <1>4, <1>0 DEF PrintsError, block, BelOwed, ConsoleType
  <2> QED BY <1>0, <2>1 DEF WakesCounted
<1>5. CASE Binds \/ HelperDies
  <2>1. /\ wake' = wake /\ console'.stage = console.stage /\ console'.asks = console.asks
        /\ BelOwed' = BelOwed
    BY <1>5, <1>0 DEF Binds, HelperDies, block, BelOwed, ConsoleType
  <2> QED BY <1>0, <2>1 DEF WakesCounted
<1>6. CASE WritesWake
  <2>1. /\ wake'.req \in {wake.req, wake.req + 1} /\ wake'.served = wake.served
        /\ console'.stage = console.stage /\ console'.asks = console.asks
        /\ BelOwed' = 0 /\ BelOwed = 1
    BY <1>6, <1>0 DEF WritesWake, BelOwed, ConsoleType, PromptTypes, WakeType
  <2> QED BY <1>0, <2>1 DEF WakesCounted
<1>7. CASE FlushesInput
  <2>1. wake'.req = wake.req /\ wake'.served = wake.req /\ console' = console
    BY <1>7, <1>0 DEF FlushesInput, PromptTypes, WakeType
  <2> QED BY <1>0, <2>1 DEF WakesCounted, BelOwed
<1>8. CASE ServeMenuChoice
  <2>1. /\ wake' = wake /\ console'.stage = "waiting" /\ console'.asks = console.asks
        /\ BelOwed' = BelOwed /\ console.stage = "menu"
    BY <1>8, <1>0 DEF ServeMenuChoice, DelayPlaces, BelOwed, ConsoleType
  <2> QED BY <1>0, <2>1 DEF WakesCounted
<1>9. CASE DeliverWake
  <2>1. /\ wake'.req = wake.req /\ wake'.served = wake.req /\ console'.asks = console.asks
        /\ console'.stage \in {console.stage, "over"} /\ BelOwed' = BelOwed
    BY <1>9, <1>0 DEF DeliverWake, WakeAfterDelivery, BelOwed, ConsoleType, PromptTypes, WakeType
  <2> QED BY <1>0, <2>1 DEF WakesCounted
<1>10. CASE ServeSpectateAnswer
  <2>1. /\ wake' = wake /\ console'.stage \in {"over", "answered"} /\ console'.asks = console.asks
        /\ BelOwed' = BelOwed /\ console.stage = "spectate"
    BY <1>10, <1>0 DEF ServeSpectateAnswer, SpectatePlaces, BelOwed, ConsoleType
  <2> QED BY <1>0, <2>1 DEF WakesCounted
<1>11. CASE ServeDelayAnswer
  <2>1. /\ wake' = wake /\ console'.asks = console.asks /\ BelOwed' = BelOwed
        /\ console'.stage = IF console.stage = "delay" THEN "answered" ELSE console.stage
    BY <1>11, <1>0 DEF ServeDelayAnswer, BelOwed, ConsoleType
  <2> QED BY <1>0, <2>1 DEF WakesCounted
<1>12. CASE CancelFromOverlay
  <2>1. /\ wake'.req = 0 /\ wake'.served = 0 /\ console'.asks = console.asks /\ BelOwed' = BelOwed
        /\ console'.stage = console.stage
    BY <1>12, <1>0 DEF CancelFromOverlay, NoPair, BelOwed, ConsoleType
  <2> QED BY <1>0, <2>1 DEF WakesCounted
<1>13. CASE HelperStep
  BY <1>u, <1>1, <1>2, <1>3, <1>4, <1>5, <1>6, <1>7, <1>13 DEF HelperStep, AsksForInit, block
<1>14. CASE ReaderStep
  BY <1>u, <1>8, <1>9, <1>10, <1>11, <1>14
  DEF ReaderStep, EntersReadConsole, SeesSpectateAnswer, SpectateDeadline, SeesDelayAnswer,
      ReadsRealConsole, LeavesRealConsole, block
<1> QED BY <1>u, <1>12, <1>13, <1>14, CaptureKeeps, OverlayKeeps, TickKeeps DEF PromptsNext

\* A printed line is well typed, for the wakes are counted.
LEMMA EmitTypes == ASSUME NEW k \in LineKinds, PromptTypes, WakesCounted,
                   Emit(k) PROVE lines' \in Seq(LineType)
<1>1. wake.req + 0 <= MaxAsk + 2
  BY DEF PromptTypes, WakesCounted, BelOwed, ConsoleType, WakeType
<1>2. [k |-> k, snap |-> wake.req] \in LineType
  BY <1>1 DEF LineType, PromptTypes, WakeType, Serials
<1> QED BY <1>2 DEF Emit, PromptTypes

\* The helper's lines keep the types.
LEMMA QuestionTypes ==
  ASSUME PromptTypes, WakesCounted,
         PrintsDelayPrompt \/ PrintsSpectatePrompt \/ PrintsTimeout \/ PrintsError
  PROVE  PromptTypes'
<1>1. CASE PrintsDelayPrompt
  <2>1. lines' \in Seq(LineType)
    BY <1>1, EmitTypes DEF PrintsDelayPrompt, LineKinds
  <2>2. console.asks - 1 \in 0 .. MaxAsk /\ console \in ConsoleType
    BY <1>1 DEF PrintsDelayPrompt, ConsoleType, PromptTypes
  <2>3. console' = [console EXCEPT !.stage = "delay", !.asks = console.asks - 1, !.owes = TRUE]
    BY <1>1 DEF PrintsDelayPrompt
  <2>4. console' \in ConsoleType
    BY <2>2, <2>3, Zenon DEF ConsoleType, Stages
  <2> QED BY <1>1, <2>1, <2>4 DEF PrintsDelayPrompt, PromptTypes, block, gameSide
<1>2. CASE PrintsSpectatePrompt
  <2>1. lines' \in Seq(LineType)
    BY <1>2, EmitTypes DEF PrintsSpectatePrompt, LineKinds
  <2>o. Online \in BOOLEAN /\ console \in ConsoleType
    BY DEF Online, PromptTypes
  <2>2. console' \in ConsoleType
    BY <1>2, <2>o, Zenon DEF PrintsSpectatePrompt, ConsoleType, Stages
  <2> QED BY <1>2, <2>1, <2>2 DEF PrintsSpectatePrompt, PromptTypes, block, gameSide
<1>3. CASE PrintsTimeout
  <2>1. lines' \in Seq(LineType)
    BY <1>3, EmitTypes DEF PrintsTimeout, LineKinds
  <2>2. console' \in ConsoleType
    BY <1>3 DEF PrintsTimeout, ConsoleType, Stages, PromptTypes
  <2>3. ghost' \in GhostType
    <3>1. ghost \in GhostType /\ wake.req + 1 \in Nat
      BY DEF PromptTypes, WakeType
    <3>2. ghost' = [ghost EXCEPT !.wake = wake.req + 1]
      BY <1>3 DEF PrintsTimeout
    <3> QED BY <3>1, <3>2, Zenon DEF GhostType
  <2> QED BY <1>3, <2>1, <2>2, <2>3 DEF PrintsTimeout, PromptTypes, block, gameSide
<1>4. CASE PrintsError
  <2>1. lines' \in Seq(LineType)
    BY <1>4, EmitTypes DEF PrintsError, LineKinds
  <2>2. console' \in ConsoleType
    BY <1>4 DEF PrintsError, ConsoleType, Stages, PromptTypes
  <2> QED BY <1>4, <2>1, <2>2 DEF PrintsError, PromptTypes, block, gameSide
<1> QED BY <1>1, <1>2, <1>3, <1>4

\* The helper's other steps keep the types.
LEMMA HelperTypes ==
  ASSUME PromptTypes, Binds \/ AsksForInit \/ HelperDies \/ WritesWake \/ FlushesInput
  PROVE  PromptTypes'
<1>1. CASE Binds
  <2>1. console' \in ConsoleType
    BY <1>1 DEF Binds, ConsoleType, PromptTypes
  <2> QED BY <1>1, <2>1 DEF Binds, PromptTypes, block, gameSide
<1>2. CASE AsksForInit
  <2>1. init' \in InitType
    BY <1>2 DEF AsksForInit, InitType, PromptTypes
  <2> QED BY <1>2, <2>1 DEF AsksForInit, PromptTypes, block
<1>3. CASE HelperDies
  <2>1. console' \in ConsoleType
    BY <1>3 DEF HelperDies, ConsoleType, PromptTypes
  <2>2. lines' \in Seq(LineType) /\ cap' \in CapType /\ rd' \in ReaderType
    BY <1>3 DEF HelperDies, NoLine, CapType, Out, ReaderType
  <2> QED BY <1>3, <2>1, <2>2 DEF HelperDies, PromptTypes, block, gameSide
<1>4. CASE WritesWake
  <2>1. console' \in ConsoleType
    BY <1>4 DEF WritesWake, ConsoleType, PromptTypes
  <2>2. wake' \in WakeType
    BY <1>4 DEF WritesWake, WakeType, PromptTypes
  <2> QED BY <1>4, <2>1, <2>2 DEF WritesWake, PromptTypes, gameSide
<1>5. CASE FlushesInput
  <2>1. wake' \in WakeType
    BY <1>5 DEF FlushesInput, WakeType, PromptTypes
  <2> QED BY <1>5, <2>1 DEF FlushesInput, PromptTypes, gameSide
<1> QED BY <1>1, <1>2, <1>3, <1>4, <1>5

\* The capture thread keeps the types.
LEMMA CaptureTypes == ASSUME PromptTypes, CaptureStep PROVE PromptTypes'
<1>1. CASE TakeLine
  <2>1. lines' \in Seq(LineType) /\ Head(lines) \in LineType
    BY <1>1 DEF TakeLine, PromptTypes
  <2>2. [what |-> Head(lines).k, n |-> Head(lines).snap, required |-> 0] \in CapType
    BY <2>1 DEF LineType, CapType, Serials
  <2>3. cap' \in CapType
    <3>1. NoLine \in CapType BY DEF NoLine, CapType
    <3> QED BY <1>1, <2>2, <3>1 DEF TakeLine
  <2> QED BY <1>1, <2>1, <2>3 DEF TakeLine, PromptTypes, block, gameSide
<1>2. CASE PublishMetrics
  <2>1. dp' \in DelayType /\ cap' \in CapType
    <3>1. dp' \in DelayType BY <1>2 DEF PublishMetrics, PromptTypes, DelayType
    <3>2. cap' \in CapType BY <1>2 DEF PublishMetrics, PromptTypes, CapType, DelaySteps
    <3> QED BY <3>1, <3>2
  <2> QED BY <1>2, <2>1 DEF PublishMetrics, PromptTypes, gameSide
<1>3. CASE PublishRange
  <2>1. dp' \in DelayType /\ cap' \in CapType
    <3>1. dp \in DelayType /\ cap \in CapType /\ dp.serial + 1 \in Nat
      BY DEF PromptTypes, DelayType
    <3>2. dp' = [dp EXCEPT !.range = dp.serial + 1]
      BY <1>3 DEF PublishRange
    <3>3. dp' \in DelayType
      BY <3>1, <3>2, Zenon DEF DelayType
    <3>4. cap' \in CapType
      BY <1>3, <3>1 DEF PublishRange, CapType, DelaySteps
    <3> QED BY <3>3, <3>4
  <2> QED BY <1>3, <2>1 DEF PublishRange, PromptTypes, gameSide
<1>4. CASE PublishMetricsSerial
  <2>1. dp' \in DelayType /\ cap' \in CapType
    <3>1. dp \in DelayType /\ cap \in CapType /\ dp.serial + 1 \in Nat
      BY DEF PromptTypes, DelayType
    <3>2. dp' = [dp EXCEPT !.metrics = dp.serial + 1]
      BY <1>4 DEF PublishMetricsSerial
    <3>3. dp' \in DelayType
      BY <3>1, <3>2, Zenon DEF DelayType
    <3>4. cap' \in CapType
      BY <1>4, <3>1 DEF PublishMetricsSerial, CapType, DelaySteps
    <3> QED BY <3>3, <3>4
  <2> QED BY <1>4, <2>1 DEF PublishMetricsSerial, PromptTypes, gameSide
<1>5. CASE PublishDelayPromptSerial
  <2>1. dp' \in DelayType /\ cap' \in CapType
    <3>1. dp \in DelayType /\ dp.serial + 1 \in Nat
      BY DEF PromptTypes, DelayType
    <3>2. dp' = [dp EXCEPT !.serial = dp.serial + 1] /\ cap' = NoLine
      BY <1>5 DEF PublishDelayPromptSerial
    <3>3. dp' \in DelayType
      BY <3>1, <3>2, Zenon DEF DelayType
    <3>4. NoLine \in CapType
      BY DEF NoLine, CapType
    <3> QED BY <3>2, <3>3, <3>4
  <2>2. timeout' \in TimeoutType
    <3>1. timeout \in TimeoutType /\ cap.n + 1 \in Nat
      BY DEF PromptTypes, CapType
    <3>2. timeout' = [timeout EXCEPT !.trans = cap.n + 1]
      BY <1>5 DEF PublishDelayPromptSerial, SelectPromptTransitionWakeSerial
    <3> QED BY <3>1, <3>2, Zenon DEF TimeoutType
  <2> QED BY <1>5, <2>1, <2>2 DEF PublishDelayPromptSerial, PromptTypes, gameSide
<1>6. CASE PublishSpectateConfirmPrompt
  <2>1. sp.serial + 1 \in Nat /\ cap.what \in Spectating /\ sp \in SpectateType
    BY <1>6 DEF PublishSpectateConfirmPrompt, PromptTypes, SpectateType, Spectating
  <2>2. sp' = [sp EXCEPT !.serial = sp.serial + 1, !.kind = cap.what]
    BY <1>6 DEF PublishSpectateConfirmPrompt
  <2>3. sp' \in SpectateType
    BY <2>1, <2>2, Zenon DEF SpectateType
  <2>4. cap' \in CapType
    BY <1>6 DEF PublishSpectateConfirmPrompt, NoLine, CapType
  <2> QED BY <1>6, <2>3, <2>4 DEF PublishSpectateConfirmPrompt, PromptTypes, gameSide
<1>7. CASE PublishConsoleError
  <2>1. err' \in BOOLEAN /\ cap' \in CapType
    BY <1>7 DEF PublishConsoleError, NoLine, CapType
  <2> QED BY <1>7, <2>1 DEF PublishConsoleError, PromptTypes, gameSide
<1>8. CASE JudgeTimeout
  <2>1. SelectTimeoutRequiredWakeSerial(cap.n) \in Nat
    BY DEF SelectTimeoutRequiredWakeSerial, PromptTypes, CapType, TimeoutType
  <2>2. cap' \in CapType
    BY <1>8, <2>1 DEF JudgeTimeout, PromptTypes, CapType, LineKinds
  <2> QED BY <1>8, <2>2 DEF JudgeTimeout, PromptTypes, block, gameSide
<1>9. CASE PublishHeldTimeout
  <2>1. timeout' \in TimeoutType /\ cap' \in CapType
    BY <1>9 DEF PublishHeldTimeout, PromptTypes, TimeoutType, DelayType, NoLine, CapType
  <2> QED BY <1>9, <2>1 DEF PublishHeldTimeout, PromptTypes, gameSide
<1> QED BY <1>1, <1>2, <1>3, <1>4, <1>5, <1>6, <1>7, <1>8, <1>9 DEF CaptureStep

\* The reader keeps the types.
LEMMA ReaderTypes == ASSUME PromptTypes, ReaderStep PROVE PromptTypes'
<1>1. CASE EntersReadConsole \/ ReadsRealConsole \/ LeavesRealConsole
  <2>1. rd' \in ReaderType
    BY <1>1 DEF EntersReadConsole, ReadsRealConsole, LeavesRealConsole, Out, ReaderType
  <2> QED BY <1>1, <2>1 DEF EntersReadConsole, ReadsRealConsole, LeavesRealConsole, PromptTypes,
                            block, gameSide
<1>2. CASE SeesSpectateAnswer \/ SpectateDeadline \/ SeesDelayAnswer
  <2>1. rd' \in ReaderType
    <3>1. /\ sp.serial \in Nat /\ si.serial \in Nat /\ dp.serial \in Nat /\ di.serial \in Nat
          /\ 0 \in Nat
      BY DEF PromptTypes, SpectateType, InputType, DelayType
    <3>2. CASE SeesSpectateAnswer BY <3>1, <3>2 DEF SeesSpectateAnswer, ReaderType
    <3>3. CASE SpectateDeadline BY <3>1, <3>3 DEF SpectateDeadline, ReaderType
    <3>4. CASE SeesDelayAnswer BY <3>1, <3>4 DEF SeesDelayAnswer, ReaderType
    <3> QED BY <1>2, <3>2, <3>3, <3>4
  <2> QED BY <1>2, <2>1 DEF SeesSpectateAnswer, SpectateDeadline, SeesDelayAnswer, PromptTypes,
                            block, gameSide
<1>3. CASE ServeMenuChoice
  <2>1. rd' \in ReaderType /\ console' \in ConsoleType /\ menu' \in BOOLEAN
    BY <1>3 DEF ServeMenuChoice, Out, ReaderType, PromptTypes, ConsoleType, Stages
  <2> QED BY <1>3, <2>1 DEF ServeMenuChoice, PromptTypes, gameSide
<1>4. CASE DeliverWake
  <2>1. rd' \in ReaderType /\ console' \in ConsoleType
    BY <1>4 DEF DeliverWake, Out, ReaderType, PromptTypes, ConsoleType, Stages
  <2>2. wake' \in WakeType
    BY <1>4 DEF DeliverWake, WakeAfterDelivery, PromptTypes, WakeType
  <2> QED BY <1>4, <2>1, <2>2 DEF DeliverWake, PromptTypes, gameSide
<1>5. CASE ServeSpectateAnswer
  <2>1. rd' \in ReaderType /\ console' \in ConsoleType
    BY <1>5 DEF ServeSpectateAnswer, Out, ReaderType, PromptTypes, ConsoleType, Stages
  <2>2. si' \in InputType /\ sp' \in SpectateType
    BY <1>5 DEF ServeSpectateAnswer, ReaderType, InputType, SpectateType, PromptTypes
  <2> QED BY <1>5, <2>1, <2>2 DEF ServeSpectateAnswer, PromptTypes, gameSide
<1>6. CASE ServeDelayAnswer
  <2>1. rd' \in ReaderType /\ console' \in ConsoleType
    BY <1>6 DEF ServeDelayAnswer, Out, ReaderType, PromptTypes, ConsoleType, Stages
  <2>2. di' \in InputType /\ dp' \in DelayType
    BY <1>6 DEF ServeDelayAnswer, InputAfterServe, ReaderType, InputType, DelayType, PromptTypes
  <2>3. ghost' \in GhostType
    <3>1. [prompt |-> rd.prompt, for |-> ghost.for, val |-> di.val] \in DeliveredType
      BY DEF PromptTypes, InputType, ReaderType, GhostType, DeliveredType
    <3>2. ghost.got \cup {[prompt |-> rd.prompt, for |-> ghost.for, val |-> di.val]}
            \in SUBSET DeliveredType
      BY <3>1 DEF PromptTypes, GhostType
    <3>3. (ghost.dup \/ \E g \in ghost.got : g.prompt = rd.prompt) \in BOOLEAN
      OBVIOUS
    <3>4. ghost \in GhostType
      BY DEF PromptTypes
    <3> QED BY <1>6, <3>2, <3>3, <3>4, Zenon DEF ServeDelayAnswer, GhostType
  <2> QED BY <1>6, <2>1, <2>2, <2>3 DEF ServeDelayAnswer, PromptTypes, gameSide
<1> QED BY <1>1, <1>2, <1>3, <1>4, <1>5, <1>6 DEF ReaderStep

\* The overlays keep the types.
LEMMA OverlayTypes == ASSUME PromptTypes, OverlayStep PROVE PromptTypes'
<1>1. CASE ActivateDelaySetupOverlay \/ UpdateDelaySetupMetrics \/ ActivateSpectateConfirmOverlay
           \/ DismissSpectateConfirmOverlay
  <2>0. dp.serial \in Nat /\ ui \in UiType
    BY DEF PromptTypes, DelayType
  <2>1. ui' \in UiType
    <3>1. CASE ActivateDelaySetupOverlay
      <4>1. PICK n \in {0, dp.serial} : ui' = [ui EXCEPT !.delay = "select", !.prompt = n]
        BY <3>1, Zenon DEF ActivateDelaySetupOverlay
      <4>2. n \in Nat
        BY <2>0
      <4> QED BY <2>0, <4>1, <4>2, Zenon DEF UiType
    <3>2. CASE UpdateDelaySetupMetrics
      BY <2>0, <3>2 DEF UpdateDelaySetupMetrics, UiType
    <3>3. CASE ActivateSpectateConfirmOverlay \/ DismissSpectateConfirmOverlay
      BY <2>0, <3>3 DEF ActivateSpectateConfirmOverlay, DismissSpectateConfirmOverlay, UiType
    <3> QED BY <1>1, <3>1, <3>2, <3>3
  <2> QED BY <1>1, <2>1 DEF ActivateDelaySetupOverlay, UpdateDelaySetupMetrics,
        ActivateSpectateConfirmOverlay, DismissSpectateConfirmOverlay, PromptTypes, block
<1>2. ASSUME NEW v \in 1 .. MaxAsk + 1, ConfirmDelay(v) PROVE PromptTypes'
  <2>1. app' \in ApplyType
    BY <1>2 DEF ConfirmDelay, PromptTypes, UiType, ApplyType
  <2> QED BY <1>2, <2>1 DEF ConfirmDelay, PromptTypes, block
<1>3. CASE ReadRange
  <2>1. app' \in ApplyType
    BY <1>3 DEF ReadRange, PromptTypes, DelayType, ApplyType
  <2> QED BY <1>3, <2>1 DEF ReadRange, PromptTypes, block
<1>4. CASE QueueDelayInput
  <2>1. app' \in ApplyType
    BY <1>4 DEF QueueDelayInput, NoApply, ApplyType
  <2>0. di.serial + 1 \in Nat /\ app.val \in Int /\ di \in InputType
    BY DEF PromptTypes, InputType, ApplyType
  <2>2. di' \in InputType
    <3>1. di' = di \/ di' = [di EXCEPT !.serial = di.serial + 1, !.val = app.val]
      BY <1>4 DEF QueueDelayInput
    <3> QED BY <2>0, <3>1, Zenon DEF InputType
  <2>3. ui' \in UiType
    BY <1>4 DEF QueueDelayInput, PromptTypes, UiType
  <2>4. ghost' \in GhostType
    BY <1>4 DEF QueueDelayInput, PromptTypes, GhostType, ApplyType
  <2> QED BY <1>4, <2>1, <2>2, <2>3, <2>4 DEF QueueDelayInput, PromptTypes
<1>5. CASE AnswerSpectatePromptChoice
  <2>1. PICK c \in {1, 3} : si' = [si EXCEPT !.serial = si.serial + 1, !.val = c]
    BY <1>5 DEF AnswerSpectatePromptChoice, ChoicesOf
  <2>2. si' \in InputType
    <3>1. si.serial + 1 \in Nat /\ c \in Int /\ si \in InputType
      BY DEF PromptTypes, InputType
    <3> QED BY <2>1, <3>1, Zenon DEF InputType
  <2>3. ui' \in UiType
    BY <1>5 DEF AnswerSpectatePromptChoice, PromptTypes, UiType
  <2> QED BY <1>5, <2>2, <2>3 DEF AnswerSpectatePromptChoice, PromptTypes
<1>6. CASE CancelFromOverlay
  <2>1. console' \in ConsoleType
    BY <1>6 DEF CancelFromOverlay, PromptTypes, ConsoleType
  <2>4. lines' \in Seq(LineType) /\ cap' \in CapType /\ rd' \in ReaderType
    BY <1>6 DEF CancelFromOverlay, NoLine, CapType, Out, ReaderType
  <2>2. wake' \in WakeType /\ dp' \in DelayType /\ di' \in InputType /\ timeout' \in TimeoutType
        /\ sp' \in SpectateType /\ si' \in InputType
    BY <1>6 DEF CancelFromOverlay, NoPair, WakeType, NoDelayPrompt, DelayType, NoInput, InputType,
                NoTimeout, TimeoutType, NoSpectate, SpectateType
  <2>3. ui' \in UiType /\ init' \in InitType /\ phase' \in Phases /\ err' \in BOOLEAN
    BY <1>6 DEF CancelFromOverlay, PromptTypes, NoUi, UiType, InitType, Phases
  <2> QED BY <1>6, <2>1, <2>2, <2>3, <2>4 DEF CancelFromOverlay, PromptTypes
<1>7. CASE LeavesSession
  <2>1. ui' \in UiType /\ app' \in ApplyType
    BY <1>7 DEF LeavesSession, NoUi, UiType, NoApply, ApplyType
  <2> QED BY <1>7, <2>1 DEF LeavesSession, PromptTypes, block
<1> QED BY <1>1, <1>2, <1>3, <1>4, <1>5, <1>6, <1>7 DEF OverlayStep

\* The tick keeps the types.
LEMMA TickTypes == ASSUME PromptTypes, TickStep PROVE PromptTypes'
<1>1. CASE TickHelperDead
  <2>1. timeout' \in TimeoutType /\ err' \in BOOLEAN
    BY <1>1 DEF TickHelperDead, Release, ErrAfterRelease, TimeoutPending, TimeoutType, PromptTypes
  <2>2. init' \in InitType /\ phase' \in Phases
    BY <1>1 DEF TickHelperDead, InitType, PromptTypes, Phases, Live
  <2> QED BY <1>1, <2>1, <2>2 DEF TickHelperDead, PromptTypes
<1>2. CASE TickRequiresRetirement
  <2>1. timeout' \in TimeoutType /\ err' \in BOOLEAN
    BY <1>2 DEF TickRequiresRetirement, Release, ErrAfterRelease, TimeoutPending, TimeoutType,
         PromptTypes
  <2>2. init' \in InitType
    BY <1>2 DEF TickRequiresRetirement, InitType, PromptTypes
  <2> QED BY <1>2, <2>1, <2>2 DEF TickRequiresRetirement, PromptTypes
<1>3. ASSUME NEW f \in BOOLEAN, NEW p \in {"NotAttempted", "Succeeded", "Failed"},
             TickProceeds(f, p)
      PROVE  PromptTypes'
  <2> DEFINE after == IF f THEN init ELSE InitAfterHandshake
             ended == [after EXCEPT !.post = p]
  <2>1. timeout' \in TimeoutType /\ err' \in BOOLEAN
    BY <1>3 DEF TickProceeds, Release, ErrAfterRelease, TimeoutPending, TimeoutType, PromptTypes
  <2>2. after \in InitType
    BY DEF InitAfterHandshake, InitType, PromptTypes
  <2>3. ended \in InitType /\ [ended EXCEPT !.applied = FALSE] \in InitType
    BY <2>2 DEF InitType
  <2>4. init' \in {after, ended, [ended EXCEPT !.applied = FALSE],
                   [after EXCEPT !.applied = FALSE]}
    BY <1>3 DEF TickProceeds
  <2>5. [after EXCEPT !.applied = FALSE] \in InitType
    BY <2>2 DEF InitType
  <2>6. phase' \in Phases
    BY <1>3 DEF TickProceeds, PromptTypes, Phases, Live
  <2> QED BY <1>3, <2>1, <2>2, <2>3, <2>4, <2>5, <2>6 DEF TickProceeds, PromptTypes
<1> QED BY <1>1, <1>2, <1>3 DEF TickStep

\* Every step keeps the delay question in one place.
LEMMA DelayNext ==
  ASSUME PromptTypes, DelayPlaces, SpectatePlaces, AnswersPaired, PromptsNext
  PROVE  DelayPlaces'
<1>0. /\ dp.serial \in Nat /\ dp.served \in Nat /\ dp.metrics \in Nat /\ dp.range \in Nat
      /\ console.asks \in 0 .. MaxAsk /\ cap \in CapType /\ dp \in DelayType
      /\ console \in ConsoleType /\ di.serial \in Nat
  BY DEF PromptTypes, DelayType, ConsoleType, InputType
<1>d. /\ Printed({"delay"}) => Coming
      /\ cap.what \in DelaySteps => Coming
  BY DEF Coming
<1>u. ASSUME UNCHANGED <<menu, lines, cap, dp>>, console'.asks = console.asks,
             console'.stage = console.stage
      PROVE  DelayPlaces'
  BY <1>u DEF DelayPlaces, Coming, Printed, OnlyOne
<1>1. CASE PrintsDelayPrompt
  <2>1. /\ UNCHANGED <<menu, cap, dp>> /\ console'.stage = "delay" /\ menu
        /\ console'.asks = console.asks - 1 /\ console.asks > 0 /\ ~Coming /\ dp.serial = dp.served
    BY <1>1, <1>0 DEF PrintsDelayPrompt, block, ConsoleType, DelayPlaces, AfterDelay, AnswersPaired
  <2>2. Printed({"delay"})' /\ OnlyOne({"delay"})'
    BY <1>1, <2>1, <1>d, LineWritten DEF PrintsDelayPrompt, DelayPlaces, LineKinds
  <2> QED BY <2>1, <2>2, <1>0, <1>d DEF DelayPlaces, Coming, AfterDelay
<1>2. CASE PrintsSpectatePrompt \/ PrintsTimeout \/ PrintsError
  <2>1. /\ UNCHANGED <<menu, cap, dp>> /\ menu /\ console'.asks = console.asks
        /\ (console.stage = "delay" /\ console'.stage = "timedout") \/ console.stage \notin AfterDelay
    BY <1>2, <1>0 DEF PrintsSpectatePrompt, PrintsTimeout, PrintsError, block, ConsoleType,
                      DelayPlaces, AfterDelay
  <2>2. PICK k \in LineKinds \ {"delay"} : Emit(k)
    BY <1>2, Zenon DEF PrintsSpectatePrompt, PrintsTimeout, PrintsError, LineKinds
  <2>3. /\ Printed({"delay"})' <=> Printed({"delay"})
        /\ OnlyOne({"delay"})'
    BY <2>2, LineWritten DEF DelayPlaces
  <2> QED BY <2>1, <2>3, <1>0 DEF DelayPlaces, Coming, AfterDelay
<1>3. CASE HelperDies
  <2>1. /\ ~Printed({"delay"})' /\ OnlyOne({"delay"})'
    BY <1>3, NothingPrinted DEF HelperDies
  <2>2. /\ UNCHANGED <<menu, dp>> /\ console'.asks = console.asks
        /\ console'.stage = console.stage /\ cap'.what = "idle"
    BY <1>3, <1>0 DEF HelperDies, block, NoLine, ConsoleType
  <2> QED BY <2>1, <2>2, <1>0 DEF DelayPlaces, Coming, DelaySteps
<1>4. CASE TakeLine
  <2>1. /\ Printed({"delay"})' => Printed({"delay"}) /\ Head(lines).k # "delay"
        /\ Head(lines).k = "delay" => Printed({"delay"})
        /\ OnlyOne({"delay"})'
    BY <1>4, LineTaken DEF TakeLine, DelayPlaces
  <2>2. /\ UNCHANGED <<menu, dp, console>> /\ cap'.what \in {"idle", Head(lines).k}
        /\ Head(lines).k \in LineKinds
    <3>1. Head(lines) \in LineType
      BY <1>4 DEF TakeLine, PromptTypes
    <3> QED BY <1>4, <3>1 DEF TakeLine, block, NoLine, LineType
  <2>3. cap'.what \in DelaySteps => cap'.what = "delay" /\ Head(lines).k = "delay"
    BY <2>2 DEF DelaySteps, LineKinds
  <2> QED BY <2>1, <2>2, <2>3, <1>0 DEF DelayPlaces, Coming
<1>5. CASE PublishMetrics \/ PublishRange \/ PublishMetricsSerial
  <2>1. /\ UNCHANGED <<menu, lines, console>> /\ cap.what \in DelaySteps /\ cap'.what \in DelaySteps
        /\ dp'.serial = dp.serial /\ dp'.served = dp.served
        /\ dp'.metrics \in {0, dp.metrics, dp.serial + 1} /\ dp'.range \in {dp.range, dp.serial + 1}
    BY <1>5, <1>0 DEF PublishMetrics, PublishRange, PublishMetricsSerial, DelaySteps, CapType,
         DelayType
  <2>2. (Printed({"delay"})' <=> Printed({"delay"})) /\ (OnlyOne({"delay"})' <=> OnlyOne({"delay"}))
    BY <2>1, SameLines
  <2> QED BY <2>1, <2>2, <1>0 DEF DelayPlaces, Coming
<1>6. CASE PublishDelayPromptSerial
  <2>1. /\ UNCHANGED <<menu, lines, console>> /\ cap.what \in DelaySteps /\ cap'.what = "idle"
        /\ dp'.serial = dp.serial + 1 /\ dp'.served = dp.served
        /\ dp'.metrics = dp.metrics /\ dp'.range = dp.range
    BY <1>6, <1>0 DEF PublishDelayPromptSerial, DelaySteps, NoLine, CapType, DelayType
  <2>2. (Printed({"delay"})' <=> Printed({"delay"})) /\ (OnlyOne({"delay"})' <=> OnlyOne({"delay"}))
    BY <2>1, SameLines
  <2> QED BY <2>1, <2>2, <1>0 DEF DelayPlaces, Coming, DelaySteps
<1>7. CASE PublishSpectateConfirmPrompt \/ PublishConsoleError \/ JudgeTimeout \/ PublishHeldTimeout
  <2>1. /\ UNCHANGED <<menu, lines, console, dp>> /\ cap.what \notin DelaySteps
        /\ cap'.what \notin DelaySteps
    <3>1. CASE JudgeTimeout
      BY <3>1, <1>0 DEF JudgeTimeout, DelaySteps, CapType, block
    <3>2. CASE PublishSpectateConfirmPrompt \/ PublishConsoleError \/ PublishHeldTimeout
      BY <3>2 DEF PublishSpectateConfirmPrompt, PublishConsoleError, PublishHeldTimeout,
           DelaySteps, NoLine
    <3> QED BY <1>7, <3>1, <3>2
  <2>2. (Printed({"delay"})' <=> Printed({"delay"})) /\ (OnlyOne({"delay"})' <=> OnlyOne({"delay"}))
    BY <2>1, SameLines
  <2> QED BY <2>1, <2>2, <1>0 DEF DelayPlaces, Coming
<1>8. CASE ServeMenuChoice \/ DeliverWake \/ ServeSpectateAnswer \/ ServeDelayAnswer
  <2>1. /\ UNCHANGED <<lines, cap>> /\ dp'.serial = dp.serial /\ dp'.metrics = dp.metrics
        /\ dp'.range = dp.range /\ console'.asks = console.asks
        /\ menu' \in {menu, TRUE}
    BY <1>8, <1>0 DEF ServeMenuChoice, DeliverWake, ServeSpectateAnswer, ServeDelayAnswer,
                      DelayType, ConsoleType
  <2>2. (Printed({"delay"})' <=> Printed({"delay"})) /\ (OnlyOne({"delay"})' <=> OnlyOne({"delay"}))
    BY <2>1, SameLines
  <2>3. ASSUME dp' = dp, ~menu' => console'.stage = "menu",
               console.stage \in AfterDelay => console'.stage \in AfterDelay
        PROVE  DelayPlaces'
    BY <2>1, <2>2, <2>3, <1>0 DEF DelayPlaces, Coming
  <2>4. CASE ServeMenuChoice
    BY <2>3, <2>4, <1>0 DEF ServeMenuChoice, DelayPlaces, AfterDelay
  <2>5. CASE DeliverWake
    BY <2>3, <2>5, <1>0 DEF DeliverWake, DelayPlaces, AfterDelay, ConsoleType
  <2>6. CASE ServeSpectateAnswer
    BY <2>3, <2>6, <1>0 DEF ServeSpectateAnswer, DelayPlaces, SpectatePlaces, AfterDelay
  <2>7. CASE ServeDelayAnswer
    <3>1. /\ dp'.served = dp.serial /\ dp.served < dp.serial /\ menu' = menu
          /\ console'.stage = IF console.stage = "delay" THEN "answered" ELSE console.stage
      BY <2>7, <1>0 DEF ServeDelayAnswer, AnswersPaired, DelayType, ConsoleType
    <3>2. ~Coming /\ ~Coming'
      BY <2>1, <2>2, <3>1, <1>0 DEF DelayPlaces, Coming
    <3>3. menu
      BY <3>1, <1>0 DEF DelayPlaces, AfterDelay
    <3> QED BY <2>1, <2>2, <3>1, <3>2, <3>3, <1>0 DEF DelayPlaces, Coming
  <2> QED BY <1>8, <2>4, <2>5, <2>6, <2>7
<1>9. CASE CancelFromOverlay
  <2>1. ~Printed({"delay"})' /\ OnlyOne({"delay"})'
    BY <1>9, NothingPrinted DEF CancelFromOverlay
  <2>2. /\ UNCHANGED menu /\ console'.asks = console.asks /\ console'.stage = console.stage
        /\ cap'.what = "idle" /\ dp' = NoDelayPrompt
    BY <1>9, <1>0 DEF CancelFromOverlay, NoLine, ConsoleType
  <2> QED BY <2>1, <2>2, <1>0 DEF DelayPlaces, Coming, DelaySteps, NoDelayPrompt
<1>10. CASE HelperStep
  <2>1. CASE Binds \/ AsksForInit \/ WritesWake \/ FlushesInput
    BY <1>u, <2>1, <1>0 DEF Binds, AsksForInit, WritesWake, FlushesInput, block, ConsoleType
  <2> QED BY <1>1, <1>2, <1>3, <1>10, <2>1 DEF HelperStep
<1>11. CASE CaptureStep
  BY <1>4, <1>5, <1>6, <1>7, <1>11 DEF CaptureStep
<1>12. CASE ReaderStep
  <2>1. CASE \/ EntersReadConsole \/ SeesSpectateAnswer \/ SpectateDeadline \/ SeesDelayAnswer
             \/ ReadsRealConsole \/ LeavesRealConsole
    BY <1>u, <2>1 DEF EntersReadConsole, SeesSpectateAnswer, SpectateDeadline, SeesDelayAnswer,
                      ReadsRealConsole, LeavesRealConsole, block
  <2> QED BY <1>8, <1>12, <2>1 DEF ReaderStep
<1>13. CASE OverlayStep
  BY <1>u, <1>9, <1>13, OverlayKeeps
<1>14. CASE TickStep
  BY <1>u, <1>14, TickKeeps
<1> QED BY <1>10, <1>11, <1>12, <1>13, <1>14 DEF PromptsNext

\* Every step keeps the spectate question in one place.
LEMMA SpectateNext ==
  ASSUME PromptTypes, DelayPlaces, SpectatePlaces, PromptsNext
  PROVE  SpectatePlaces'
<1>0. /\ sp.serial \in Nat /\ sp.served \in Nat /\ si.serial \in Nat /\ si.served \in Nat
      /\ rd.prompt \in Nat /\ rd.input \in Nat /\ rd \in ReaderType
      /\ cap \in CapType /\ sp \in SpectateType /\ si \in InputType /\ console \in ConsoleType
  BY DEF PromptTypes, SpectateType, InputType, ReaderType
<1>l. ASSUME UNCHANGED <<lines>>
      PROVE  /\ Printed(Spectating)' <=> Printed(Spectating)
             /\ OnlyOne(Spectating)' <=> OnlyOne(Spectating)
  BY <1>l, SameLines DEF Spectating
<1>u. ASSUME UNCHANGED <<lines, sp, si>>,
             cap' = cap \/ (cap.what \notin Spectating /\ cap'.what \notin Spectating),
             console'.stage = console.stage \/ console.stage # "spectate",
             rd' = rd \/ rd'.at \notin {"spectate", "default"}
      PROVE  SpectatePlaces'
  <2>1. /\ (Printed(Spectating)' <=> Printed(Spectating))
        /\ (OnlyOne(Spectating)' <=> OnlyOne(Spectating))
    BY <1>u, <1>l
  <2> QED BY <1>u, <2>1, <1>0 DEF SpectatePlaces
<1>1. CASE PrintsSpectatePrompt
  <2>1. /\ UNCHANGED <<cap, sp, si, rd>> /\ console'.stage = "spectate" /\ sp.serial = 0
        /\ ~Printed(Spectating) /\ cap.what \notin Spectating /\ console.stage = "waiting"
    BY <1>1, <1>0 DEF PrintsSpectatePrompt, block, ConsoleType, Printed, Spectating, NoLine
  <2>2. PICK k \in Spectating : Emit(k)
    BY <1>1, Zenon DEF PrintsSpectatePrompt, Spectating
  <2>3. OnlyOne(Spectating)'
    BY <2>1, <2>2, LineWritten DEF SpectatePlaces, LineKinds, Spectating
  <2> QED BY <2>1, <2>3, <1>0 DEF SpectatePlaces
<1>2. CASE PrintsDelayPrompt \/ PrintsTimeout \/ PrintsError
  <2>1. /\ UNCHANGED <<cap, sp, si, rd>> /\ console.stage # "spectate"
    BY <1>2, <1>0 DEF PrintsDelayPrompt, PrintsTimeout, PrintsError, block
  <2>2. PICK k \in LineKinds \ Spectating : Emit(k)
    BY <1>2, Zenon DEF PrintsDelayPrompt, PrintsTimeout, PrintsError, LineKinds, Spectating
  <2>3. (Printed(Spectating)' <=> Printed(Spectating)) /\ OnlyOne(Spectating)'
    BY <2>2, LineWritten DEF SpectatePlaces, Spectating
  <2> QED BY <2>1, <2>3, <1>0 DEF SpectatePlaces
<1>3. CASE HelperDies
  <2>1. ~Printed(Spectating)' /\ OnlyOne(Spectating)'
    BY <1>3, NothingPrinted DEF HelperDies, Spectating
  <2>2. /\ UNCHANGED <<sp, si>> /\ console'.stage = console.stage /\ cap'.what = "idle"
        /\ rd'.at = "out"
    BY <1>3, <1>0 DEF HelperDies, block, NoLine, Out, ConsoleType
  <2> QED BY <2>1, <2>2, <1>0 DEF SpectatePlaces, Spectating
<1>4. CASE TakeLine
  <2>1. /\ Printed(Spectating)' => Printed(Spectating) /\ Head(lines).k \notin Spectating
        /\ Head(lines).k \in Spectating => Printed(Spectating)
        /\ OnlyOne(Spectating)'
    BY <1>4, LineTaken DEF TakeLine, SpectatePlaces, Spectating
  <2>2. /\ UNCHANGED <<sp, si, rd, console>> /\ cap'.what \in {"idle", Head(lines).k}
    BY <1>4 DEF TakeLine, block, NoLine
  <2> QED BY <2>1, <2>2, <1>0 DEF SpectatePlaces, Spectating
<1>5. CASE PublishSpectateConfirmPrompt
  <2>1. /\ UNCHANGED <<lines, si, rd, console>> /\ cap.what \in Spectating /\ cap'.what = "idle"
        /\ sp'.serial = sp.serial + 1 /\ sp'.served = sp.served
    BY <1>5, <1>0 DEF PublishSpectateConfirmPrompt, NoLine, SpectateType, Spectating
  <2>2. /\ (Printed(Spectating)' <=> Printed(Spectating))
        /\ (OnlyOne(Spectating)' <=> OnlyOne(Spectating))
    BY <2>1, <1>l
  <2> QED BY <2>1, <2>2, <1>0 DEF SpectatePlaces, Spectating
<1>6. CASE CaptureStep
  <2>1. CASE PublishMetrics \/ PublishRange \/ PublishMetricsSerial \/ PublishDelayPromptSerial
    <3>1. /\ UNCHANGED <<lines, sp, si, rd, console>>
          /\ cap.what \notin Spectating /\ cap'.what \notin Spectating
      BY <2>1, <1>0 DEF PublishMetrics, PublishRange, PublishMetricsSerial,
                        PublishDelayPromptSerial, CapType, NoLine, Spectating
    <3> QED BY <3>1, <1>u
  <2>2. CASE PublishConsoleError \/ JudgeTimeout \/ PublishHeldTimeout
    <3>1. /\ UNCHANGED <<lines, sp, si, rd, console>>
          /\ cap.what \notin Spectating /\ cap'.what \notin Spectating
      <4>1. CASE JudgeTimeout
        BY <4>1, <1>0 DEF JudgeTimeout, CapType, block, Spectating
      <4>2. CASE PublishConsoleError \/ PublishHeldTimeout
        BY <4>2 DEF PublishConsoleError, PublishHeldTimeout, NoLine, Spectating
      <4> QED BY <2>2, <4>1, <4>2
    <3> QED BY <3>1, <1>u
  <2> QED BY <1>4, <1>5, <1>6, <2>1, <2>2 DEF CaptureStep
<1>7. CASE SeesSpectateAnswer \/ SpectateDeadline
  <2>1. /\ UNCHANGED <<lines, cap, sp, si, console>> /\ rd'.prompt = sp.serial
        /\ rd'.at \in {"spectate", "default"}
        /\ rd'.at = "spectate" => rd'.input = si.serial
        /\ sp.serial # sp.served
    BY <1>7 DEF SeesSpectateAnswer, SpectateDeadline, SpectateOpen, block
  <2>2. /\ (Printed(Spectating)' <=> Printed(Spectating))
        /\ (OnlyOne(Spectating)' <=> OnlyOne(Spectating))
    BY <2>1, <1>l
  <2> QED BY <2>1, <2>2, <1>0 DEF SpectatePlaces
<1>8. CASE ServeSpectateAnswer
  <2>1. /\ UNCHANGED <<lines, cap>> /\ rd'.at = "out" /\ rd.at \in {"spectate", "default"}
        /\ sp'.serial = sp.serial /\ sp'.served = rd.prompt
        /\ si'.serial = si.serial
        /\ si'.served = IF rd.at = "spectate" THEN rd.input ELSE si.served
    BY <1>8, <1>0 DEF ServeSpectateAnswer, Out, SpectateType, InputType
  <2>2. /\ (Printed(Spectating)' <=> Printed(Spectating))
        /\ (OnlyOne(Spectating)' <=> OnlyOne(Spectating))
    BY <2>1, <1>l
  <2> QED BY <2>1, <2>2, <1>0 DEF SpectatePlaces
<1>9. CASE ReaderStep
  <2>1. CASE \/ EntersReadConsole \/ SeesDelayAnswer \/ ReadsRealConsole \/ LeavesRealConsole
    BY <1>u, <2>1 DEF EntersReadConsole, SeesDelayAnswer, ReadsRealConsole, LeavesRealConsole,
                      block, Out
  <2>2. CASE ServeMenuChoice \/ DeliverWake \/ ServeDelayAnswer
    <3>1. /\ UNCHANGED <<lines, cap, sp, si>> /\ rd'.at = "out"
          /\ console'.stage = console.stage \/ console.stage # "spectate"
      BY <2>2, <1>0 DEF ServeMenuChoice, DeliverWake, ServeDelayAnswer, DelayPlaces, Out
    <3> QED BY <3>1, <1>u
  <2> QED BY <1>7, <1>8, <1>9, <2>1, <2>2 DEF ReaderStep
<1>10. CASE CancelFromOverlay
  <2>1. ~Printed(Spectating)' /\ OnlyOne(Spectating)'
    BY <1>10, NothingPrinted DEF CancelFromOverlay, Spectating
  <2>2. /\ sp' = NoSpectate /\ si' = NoInput /\ cap'.what = "idle" /\ rd'.at = "out"
    BY <1>10 DEF CancelFromOverlay, NoLine, Out
  <2> QED BY <2>1, <2>2 DEF SpectatePlaces, Spectating, NoSpectate, NoInput
<1>11. CASE AnswerSpectatePromptChoice
  <2>1. /\ UNCHANGED <<lines, cap, sp, rd, console>>
        /\ si'.serial = si.serial + 1 /\ si'.served = si.served
    BY <1>11, <1>0 DEF AnswerSpectatePromptChoice, InputType
  <2>2. /\ (Printed(Spectating)' <=> Printed(Spectating))
        /\ (OnlyOne(Spectating)' <=> OnlyOne(Spectating))
    BY <2>1, <1>l
  <2> QED BY <2>1, <2>2, <1>0 DEF SpectatePlaces
<1>12. CASE HelperStep
  <2>1. CASE Binds \/ AsksForInit \/ WritesWake \/ FlushesInput
    BY <1>u, <2>1, <1>0 DEF Binds, AsksForInit, WritesWake, FlushesInput, block, ConsoleType
  <2> QED BY <1>1, <1>2, <1>3, <1>12, <2>1 DEF HelperStep
<1>13. CASE OverlayStep
  <2>1. CASE UNCHANGED si
    BY <1>u, <1>10, <1>13, <2>1, OverlayKeeps
  <2>2. CASE si' # si
    <3>1. CancelFromOverlay \/ AnswerSpectatePromptChoice
      BY <1>13, <2>2 DEF OverlayStep, ActivateDelaySetupOverlay, UpdateDelaySetupMetrics,
           ConfirmDelay, ReadRange, QueueDelayInput, ActivateSpectateConfirmOverlay,
           DismissSpectateConfirmOverlay, LeavesSession, block
    <3> QED BY <1>10, <1>11, <3>1
  <2> QED BY <2>1, <2>2
<1>14. CASE TickStep
  BY <1>u, <1>14, TickKeeps
<1> QED BY <1>6, <1>9, <1>12, <1>13, <1>14 DEF PromptsNext

\* A line that is there after printing was there or is the printed one.
LEMMA WrittenLines ==
  ASSUME PromptTypes, NEW k \in LineKinds, Emit(k), NEW i \in DOMAIN lines'
  PROVE  (i \in DOMAIN lines /\ lines'[i] = lines[i]) \/ lines'[i] = [k |-> k, snap |-> wake.req]
BY DEF Emit, PromptTypes

\* The lines after the first one move up.
LEMMA TakenLines ==
  ASSUME PromptTypes, lines # <<>>, lines' = Tail(lines)
  PROVE  /\ \A i \in DOMAIN lines' : i + 1 \in DOMAIN lines /\ lines'[i] = lines[i + 1]
         /\ 1 \in DOMAIN lines /\ Head(lines) = lines[1]
BY DEF PromptTypes

\* Every step keeps the timeout line's wake, and only that wake releases it.
LEMMA TimeoutNext ==
  ASSUME PromptTypes, WakesCounted, DelayPlaces, SpectatePlaces, TimeoutPlaces,
         ReleasedByItsOwnWake,
         PromptsNext
  PROVE  TimeoutPlaces' /\ ReleasedByItsOwnWake'
<1> DEFINE Good == TimeoutPlaces /\ ReleasedByItsOwnWake
<1>0. /\ wake.req \in Nat /\ wake.served \in Nat /\ dp.serial \in Nat /\ ghost.wake \in Nat
      /\ timeout.serial \in Nat /\ timeout.required \in Nat /\ timeout.handled \in Nat
      /\ cap.n \in Nat /\ cap.required \in Nat
      /\ cap \in CapType /\ timeout \in TimeoutType /\ console \in ConsoleType
      /\ ghost \in GhostType /\ dp \in DelayType /\ wake \in WakeType
  BY DEF PromptTypes, WakeType, DelayType, GhostType, TimeoutType, CapType
<1>l. ASSUME UNCHANGED lines
      PROVE  Printed({"timeout"})' <=> Printed({"timeout"})
  BY <1>l, SameLines
<1>p. ASSUME NEW i \in DOMAIN lines, lines[i].k = "timeout"
      PROVE  Printed({"timeout"})
  BY <1>p DEF Printed
<1>n. ASSUME lines' = <<>>, cap'.what = "idle"
      PROVE  /\ ~Printed({"timeout"})' /\ cap'.what \notin {"timeout", "held"}
             /\ \A i \in DOMAIN lines' : lines'[i].k = "timeout" => lines'[i].snap + 1 = ghost'.wake
  BY <1>n, NothingPrinted
<1>u. ASSUME UNCHANGED <<lines, timeout>>,
             cap' = cap \/ (cap'.what \notin {"timeout", "held"}),
             console'.stage = console.stage \/ console'.stage \in {"timedout", "over"}
               \/ console.stage \notin {"timedout", "over"},
             console'.alive => console.alive, ghost'.wake = ghost.wake,
             dp.serial <= dp'.serial, wake.served <= wake'.served,
             wake'.served \in Nat, dp'.serial \in Nat
      PROVE  Good'
  <2>1. Printed({"timeout"})' <=> Printed({"timeout"})
    BY <1>u, <1>l
  <2>2. TimeoutPlaces'
    BY <1>u, <2>1, <1>0 DEF TimeoutPlaces
  <2>3. ReleasedByItsOwnWake'
    BY <1>u, <1>0 DEF ReleasedByItsOwnWake
  <2> QED BY <2>2, <2>3
<1>1. CASE PrintsTimeout
  <2>1. /\ UNCHANGED <<cap, timeout, dp, wake>> /\ console.stage = "delay"
        /\ console'.stage = "timedout" /\ ghost'.wake = wake.req + 1 /\ Emit("timeout")
    BY <1>1, <1>0 DEF PrintsTimeout, block, ConsoleType, GhostType
  <2>2. /\ ~Printed({"timeout"}) /\ cap.what \notin {"timeout", "held"} /\ timeout.serial = 0
        /\ timeout.handled = 0
    BY <2>1, <1>0 DEF TimeoutPlaces
  <2>3. \A i \in DOMAIN lines' : lines'[i].k = "timeout" => lines'[i].snap + 1 = ghost'.wake
    BY <2>1, <2>2, <1>p, WrittenLines DEF LineKinds
  <2> QED BY <2>1, <2>2, <2>3, <1>0 DEF TimeoutPlaces, ReleasedByItsOwnWake
<1>2. CASE PrintsDelayPrompt \/ PrintsSpectatePrompt \/ PrintsError
  <2>1. /\ UNCHANGED <<cap, timeout, dp, wake, ghost>> /\ console'.alive = console.alive
        /\ console.stage \in {"waiting", "answered"}
    BY <1>2, <1>0 DEF PrintsDelayPrompt, PrintsSpectatePrompt, PrintsError, block, ConsoleType
  <2>2. PICK k \in LineKinds \ {"timeout"} : Emit(k)
    BY <1>2, Zenon DEF PrintsDelayPrompt, PrintsSpectatePrompt, PrintsError, LineKinds
  <2>3. Printed({"timeout"})' <=> Printed({"timeout"})
    BY <2>2, LineWritten
  <2>4. \A i \in DOMAIN lines' : lines'[i].k = "timeout" => lines'[i].snap + 1 = ghost'.wake
    BY <2>1, <2>2, WrittenLines DEF TimeoutPlaces
  <2> QED BY <2>1, <2>3, <2>4, <1>0 DEF TimeoutPlaces, ReleasedByItsOwnWake
<1>3. CASE HelperDies \/ CancelFromOverlay
  <2>1. /\ lines' = <<>> /\ cap'.what = "idle" /\ ~console'.alive
        /\ \/ timeout' = timeout /\ dp' = dp /\ ghost' = ghost /\ console'.stage = console.stage
           \/ timeout' = NoTimeout /\ dp' = NoDelayPrompt
    <3>1. lines' = <<>> /\ cap' = NoLine /\ console' = [console EXCEPT !.alive = FALSE]
      BY <1>3 DEF HelperDies, CancelFromOverlay
    <3>2. console'.stage = console.stage /\ ~console'.alive
      BY <3>1, <1>0 DEF ConsoleType
    <3>3. \/ timeout' = timeout /\ dp' = dp /\ ghost' = ghost
          \/ timeout' = NoTimeout /\ dp' = NoDelayPrompt
      BY <1>3 DEF HelperDies, CancelFromOverlay, block
    <3> QED BY <3>1, <3>2, <3>3 DEF NoLine
  <2> QED BY <2>1, <1>n, <1>0 DEF TimeoutPlaces, ReleasedByItsOwnWake, NoTimeout, NoDelayPrompt
<1>4. CASE TakeLine
  <2>1. /\ UNCHANGED <<timeout, dp, wake, ghost, console>>
        /\ cap'.what \in {"idle", Head(lines).k}
        /\ cap'.what = "timeout" => cap'.n = Head(lines).snap
    BY <1>4 DEF TakeLine, block, NoLine
  <2>2. /\ Printed({"timeout"})' => Printed({"timeout"})
        /\ Head(lines).k = "timeout" => Printed({"timeout"})
    BY <1>4, LineTaken DEF TakeLine
  <2>3. /\ Head(lines).k = "timeout" => Head(lines).snap + 1 = ghost.wake
        /\ \A i \in DOMAIN lines' : lines'[i].k = "timeout" => lines'[i].snap + 1 = ghost.wake
    BY <1>4, TakenLines DEF TakeLine, TimeoutPlaces
  <2>4. cap'.what # "held"
    <3>1. Head(lines) \in LineType
      BY <1>4 DEF TakeLine, PromptTypes
    <3>2. Head(lines).k \in LineKinds
      BY <3>1 DEF LineType
    <3> QED BY <2>1, <3>2 DEF LineKinds
  <2>5. TimeoutPlaces'
    BY <2>1, <2>2, <2>3, <2>4, <1>0 DEF TimeoutPlaces
  <2> QED BY <2>1, <2>5 DEF ReleasedByItsOwnWake
<1>5. CASE PublishMetrics \/ PublishRange \/ PublishMetricsSerial
  <2>1. /\ UNCHANGED <<lines, timeout, wake, ghost, console>> /\ dp'.serial = dp.serial
        /\ cap'.what \notin {"timeout", "held"}
    BY <1>5, <1>0 DEF PublishMetrics, PublishRange, PublishMetricsSerial, CapType, DelayType
  <2> QED BY <2>1, <1>u, <1>0
<1>6. CASE PublishDelayPromptSerial
  <2>1. /\ UNCHANGED <<lines, wake, ghost, console>> /\ dp'.serial = dp.serial + 1
        /\ timeout'.serial = timeout.serial /\ timeout'.required = timeout.required
        /\ timeout'.handled = timeout.handled /\ cap'.what = "idle"
    BY <1>6, <1>0 DEF PublishDelayPromptSerial, NoLine, DelayType, TimeoutType
  <2>2. Printed({"timeout"})' <=> Printed({"timeout"})
    BY <2>1, <1>l
  <2> QED BY <2>1, <2>2, <1>0 DEF TimeoutPlaces, ReleasedByItsOwnWake
<1>7. CASE PublishSpectateConfirmPrompt \/ PublishConsoleError
  <2>1. /\ UNCHANGED <<lines, timeout, wake, ghost, console, dp>> /\ cap'.what = "idle"
    BY <1>7 DEF PublishSpectateConfirmPrompt, PublishConsoleError, NoLine
  <2> QED BY <2>1, <1>u, <1>0
<1>8. CASE JudgeTimeout
  <2>1. /\ UNCHANGED <<lines, timeout, wake, ghost, console, dp>> /\ cap.what = "timeout"
        /\ \/ cap'.what = "held" /\ cap'.required = SelectTimeoutRequiredWakeSerial(cap.n)
           \/ cap'.what = "error"
    BY <1>8, <1>0 DEF JudgeTimeout, block, CapType
  <2>2. cap.n + 1 <= SelectTimeoutRequiredWakeSerial(cap.n)
    BY <1>0 DEF SelectTimeoutRequiredWakeSerial, TimeoutType
  <2>3. Printed({"timeout"})' <=> Printed({"timeout"})
    BY <2>1, <1>l
  <2>4. SelectTimeoutRequiredWakeSerial(cap.n) \in Nat
    BY <1>0 DEF SelectTimeoutRequiredWakeSerial, TimeoutType
  <2> QED BY <2>1, <2>2, <2>3, <2>4, <1>0 DEF TimeoutPlaces, ReleasedByItsOwnWake
<1>9. CASE PublishHeldTimeout
  <2>1. /\ UNCHANGED <<lines, wake, ghost, console, dp>> /\ cap.what = "held" /\ cap'.what = "idle"
        /\ timeout'.serial = dp.serial /\ timeout'.required = cap.required
        /\ timeout'.handled = timeout.handled
    BY <1>9, <1>0 DEF PublishHeldTimeout, NoLine, TimeoutType
  <2>2. Printed({"timeout"})' <=> Printed({"timeout"})
    BY <2>1, <1>l
  <2> QED BY <2>1, <2>2, <1>0 DEF TimeoutPlaces, ReleasedByItsOwnWake
<1>10. CASE TickStep
  <2>1. /\ UNCHANGED <<console, lines, cap, wake, dp, ghost>>
        /\ ~TimeoutPending \/ TimeoutCleanupReady
        /\ timeout' = [timeout EXCEPT !.handled = timeout.serial]
    BY <1>10 DEF TickStep, TickHelperDead, TickRequiresRetirement, TickProceeds, Release,
                 TimeoutCleanupReady
  <2>2. /\ timeout'.serial = timeout.serial /\ timeout'.required = timeout.required
        /\ timeout'.handled = timeout.serial
    BY <2>1, <1>0 DEF TimeoutType
  <2>3. Printed({"timeout"})' <=> Printed({"timeout"})
    BY <2>1, <1>l
  <2>4. TimeoutPlaces'
    BY <2>1, <2>2, <2>3, <1>0 DEF TimeoutPlaces
  <2>5. ReleasedByItsOwnWake'
    <3>1. CASE ~TimeoutPending
      BY <2>1, <2>2, <3>1, <1>0 DEF TimeoutPending, TimeoutPlaces, ReleasedByItsOwnWake
    <3>2. CASE TimeoutPending /\ TimeoutCleanupReady
      BY <2>1, <2>2, <3>2, <1>0 DEF TimeoutPending, TimeoutCleanupReady, TimeoutPlaces,
                                    ReleasedByItsOwnWake
    <3> QED BY <2>1, <3>1, <3>2
  <2> QED BY <2>4, <2>5
<1>11. CASE HelperStep
  <2>1. CASE Binds \/ AsksForInit \/ WritesWake
    <3>1. /\ UNCHANGED <<lines, timeout, cap, ghost, dp>> /\ console'.stage = console.stage
          /\ console'.alive = console.alive /\ wake'.served = wake.served
      BY <2>1, <1>0 DEF Binds, AsksForInit, WritesWake, block, ConsoleType, WakeType
    <3> QED BY <3>1, <1>u, <1>0
  <2>2. CASE FlushesInput
    <3>1. /\ UNCHANGED <<lines, timeout, cap, ghost, dp, console>> /\ wake'.served = wake.req
      BY <2>2, <1>0 DEF FlushesInput, WakeType
    <3> QED BY <3>1, <1>u, <1>0 DEF WakesCounted
  <2> QED BY <1>1, <1>2, <1>3, <1>11, <2>1, <2>2 DEF HelperStep
<1>12. CASE CaptureStep
  BY <1>4, <1>5, <1>6, <1>7, <1>8, <1>9, <1>12 DEF CaptureStep
<1>13. CASE ReaderStep
  <2>1. CASE \/ EntersReadConsole \/ SeesSpectateAnswer \/ SpectateDeadline \/ SeesDelayAnswer
             \/ ReadsRealConsole \/ LeavesRealConsole
    BY <1>u, <2>1, <1>0 DEF EntersReadConsole, SeesSpectateAnswer, SpectateDeadline,
         SeesDelayAnswer,
         ReadsRealConsole, LeavesRealConsole, block
  <2>2. CASE ServeMenuChoice \/ ServeSpectateAnswer
    <3>1. /\ UNCHANGED <<lines, timeout, cap, wake, ghost, dp>> /\ console'.alive = console.alive
          /\ console.stage \notin {"timedout", "over"}
      BY <2>2, <1>0 DEF ServeMenuChoice, ServeSpectateAnswer, DelayPlaces, SpectatePlaces,
           ConsoleType
    <3> QED BY <3>1, <1>u, <1>0
  <2>3. CASE DeliverWake
    <3>1. /\ UNCHANGED <<lines, timeout, cap, ghost, dp>> /\ console'.alive = console.alive
          /\ console'.stage \in {console.stage, "over"} /\ wake'.served = wake.req
      BY <2>3, <1>0 DEF DeliverWake, WakeAfterDelivery, ConsoleType, WakeType
    <3> QED BY <3>1, <1>u, <1>0 DEF WakesCounted
  <2>4. CASE ServeDelayAnswer
    <3>1. /\ UNCHANGED <<lines, timeout, cap, wake>> /\ console'.alive = console.alive
          /\ console'.stage = console.stage \/ console.stage = "delay"
          /\ ghost'.wake = ghost.wake /\ dp'.serial = dp.serial
      BY <2>4, <1>0 DEF ServeDelayAnswer, ConsoleType, GhostType, DelayType
    <3> QED BY <3>1, <1>u, <1>0
  <2> QED BY <1>13, <2>1, <2>2, <2>3, <2>4 DEF ReaderStep
<1>14. CASE OverlayStep
  <2>1. CASE ~CancelFromOverlay
    <3>1. UNCHANGED <<lines, timeout, cap, wake, dp, console>>
      BY <1>14, <2>1, OverlayKeeps
    <3>2. ghost' = ghost \/ ghost' = [ghost EXCEPT !.for = app.prompt]
      BY <1>14, <2>1 DEF OverlayStep, ActivateDelaySetupOverlay, UpdateDelaySetupMetrics,
           ConfirmDelay, ReadRange, QueueDelayInput, ActivateSpectateConfirmOverlay,
           DismissSpectateConfirmOverlay, AnswerSpectatePromptChoice, LeavesSession
    <3>3. ghost'.wake = ghost.wake
      BY <3>2, <1>0 DEF GhostType
    <3> QED BY <3>1, <3>3, <1>u, <1>0
  <2> QED BY <1>3, <2>1
<1> QED BY <1>10, <1>11, <1>12, <1>13, <1>14 DEF PromptsNext

\* Every step keeps questions and answers paired.
LEMMA AnswersNext ==
  ASSUME PromptTypes, DelayPlaces, AnswersPaired, OverlayPlaces, GoneIsQuiet,
         AnswerMeetsItsPrompt, PromptsNext
  PROVE  AnswersPaired' /\ AnswerMeetsItsPrompt'
<1> DEFINE Good == AnswersPaired /\ AnswerMeetsItsPrompt
<1>0. /\ dp.serial \in Nat /\ dp.served \in Nat /\ di.serial \in Nat /\ di.served \in Nat
      /\ di.val \in Int /\ app.prompt \in Nat /\ app.val \in Int /\ rd.prompt \in Nat
      /\ dp \in DelayType /\ di \in InputType /\ rd \in ReaderType /\ ghost \in GhostType
      /\ console \in ConsoleType
  BY DEF PromptTypes, DelayType, InputType, ApplyType, ReaderType
<1>u. ASSUME UNCHANGED di, dp'.serial = dp.serial, dp'.served = dp.served,
             ghost'.for = ghost.for, ghost'.got = ghost.got, ghost'.dup = ghost.dup,
             console'.alive => console.alive, rd' = rd \/ rd'.at # "answer"
      PROVE  Good'
  BY <1>u, <1>0 DEF AnswersPaired, AnswerMeetsItsPrompt
<1>1. CASE HelperStep
  <2>1. UNCHANGED <<di, dp>>
    BY <1>1, HelperKeeps
  <2>2. /\ ghost'.for = ghost.for /\ ghost'.got = ghost.got /\ ghost'.dup = ghost.dup
    <3>1. ghost' = ghost \/ ghost' = [ghost EXCEPT !.wake = wake.req + 1]
      BY <1>1 DEF HelperStep, PrintsDelayPrompt, PrintsSpectatePrompt, PrintsTimeout, PrintsError,
                  Binds, AsksForInit, HelperDies, WritesWake, FlushesInput
    <3> QED BY <3>1, <1>0 DEF GhostType
  <2>3. console'.alive => console.alive
    BY <1>1, <1>0 DEF HelperStep, PrintsDelayPrompt, PrintsSpectatePrompt, PrintsTimeout,
         PrintsError,
                Binds, AsksForInit, HelperDies, WritesWake, FlushesInput
  <2>4. rd' = rd \/ rd'.at # "answer"
    BY <1>1 DEF HelperStep, PrintsDelayPrompt, PrintsSpectatePrompt, PrintsTimeout, PrintsError,
                Binds, AsksForInit, HelperDies, WritesWake, FlushesInput, Out
  <2> QED BY <2>1, <2>2, <2>3, <2>4, <1>u
<1>2. CASE CaptureStep
  <2>1. UNCHANGED <<di, ghost, console, rd>>
    BY <1>2, CaptureKeeps
  <2>2. CASE PublishDelayPromptSerial
    <3>1. dp'.serial = dp.serial + 1 /\ dp'.served = dp.served /\ dp.serial = dp.served
      BY <2>2, <1>0 DEF PublishDelayPromptSerial, DelayType, DelayPlaces, Coming, DelaySteps
    <3> QED BY <3>1, <2>1, <1>0 DEF AnswersPaired, AnswerMeetsItsPrompt
  <2>3. CASE ~PublishDelayPromptSerial
    <3>1. dp' \in {dp, [dp EXCEPT !.metrics = 0], [dp EXCEPT !.range = dp.serial + 1],
                   [dp EXCEPT !.metrics = dp.serial + 1]}
      BY <1>2, <2>3 DEF CaptureStep, TakeLine, PublishMetrics, PublishRange, PublishMetricsSerial,
           PublishSpectateConfirmPrompt, PublishConsoleError, JudgeTimeout, PublishHeldTimeout,
           block
    <3>2. dp'.serial = dp.serial /\ dp'.served = dp.served
      BY <3>1, <1>0 DEF DelayType
    <3> QED BY <2>1, <3>2, <1>u
  <2> QED BY <2>2, <2>3
<1>3. CASE ServeDelayAnswer
  <2> DEFINE g == [prompt |-> rd.prompt, for |-> ghost.for, val |-> di.val]
  <2>1. /\ rd.at = "answer" /\ rd'.at = "out" /\ console'.alive = console.alive
        /\ di'.serial = di.serial /\ di'.served = rd.input
        /\ dp'.serial = dp.serial /\ dp'.served = rd.prompt
        /\ ghost'.for = ghost.for /\ ghost'.got = ghost.got \cup {g}
        /\ ghost'.dup <=> ghost.dup \/ \E h \in ghost.got : h.prompt = rd.prompt
    BY <1>3, <1>0 DEF ServeDelayAnswer, InputAfterServe, Out, InputType, DelayType, GhostType,
                      ConsoleType
  <2>2. /\ rd.prompt = dp.serial /\ rd.input = di.serial /\ ghost.for = dp.serial
        /\ dp.served < dp.serial /\ di.val \in RangeOf(dp.serial) /\ di.served < di.serial
    BY <2>1 DEF AnswersPaired
  <2>3. console.alive
    BY <2>1 DEF GoneIsQuiet, Out
  <2>4. \A h \in ghost.got : h.prompt \in Nat /\ h.prompt < dp.serial
    BY <2>2, <2>3, <1>0 DEF AnswersPaired, GhostType, DeliveredType
  <2>5. g.prompt = dp.serial /\ g.for = dp.serial /\ g.val \in RangeOf(g.prompt)
    BY <2>2
  <2> HIDE DEF g
  <2>6. AnswersPaired'
    BY <2>1, <2>2, <2>4, <2>5, <1>0 DEF AnswersPaired
  <2>7. AnswerMeetsItsPrompt'
    BY <2>1, <2>2, <2>4, <2>5, <1>0 DEF AnswerMeetsItsPrompt
  <2> QED BY <2>6, <2>7
<1>4. CASE SeesDelayAnswer
  <2>1. /\ UNCHANGED <<dp, di, ghost, console>> /\ rd'.prompt = dp.serial /\ rd'.input = di.serial
        /\ dp.serial # dp.served /\ di.serial > di.served
    BY <1>4 DEF SeesDelayAnswer, DelayOpen, block
  <2> QED BY <2>1, <1>0 DEF AnswersPaired, AnswerMeetsItsPrompt
<1>5. CASE ReaderStep
  <2>1. CASE ~ServeDelayAnswer /\ ~SeesDelayAnswer
    <3>1. UNCHANGED <<dp, di, ghost>> /\ rd'.at # "answer"
      BY <1>5, <2>1 DEF ReaderStep, EntersReadConsole, ServeMenuChoice, DeliverWake,
           SeesSpectateAnswer, SpectateDeadline, ServeSpectateAnswer, ReadsRealConsole,
           LeavesRealConsole, block, Out
    <3>2. console'.alive = console.alive
      BY <1>5, <2>1, <1>0 DEF ReaderStep, EntersReadConsole, ServeMenuChoice, DeliverWake,
           SeesSpectateAnswer, SpectateDeadline, ServeSpectateAnswer, ReadsRealConsole,
           LeavesRealConsole, block, ConsoleType
    <3> QED BY <3>1, <3>2, <1>u
  <2> QED BY <1>3, <1>4, <2>1
<1>6. CASE QueueDelayInput
  <2>1. /\ UNCHANGED <<dp, rd, console>>
        /\ \/ UNCHANGED <<di, ghost>>
           \/ /\ Accepted /\ app.range > 0
              /\ di' = [di EXCEPT !.serial = di.serial + 1, !.val = app.val]
              /\ ghost' = [ghost EXCEPT !.for = app.prompt]
    BY <1>6 DEF QueueDelayInput
  <2>2. CASE UNCHANGED <<di, ghost>>
    BY <2>1, <2>2, <1>u
  <2>3. CASE /\ Accepted /\ app.range > 0
             /\ di' = [di EXCEPT !.serial = di.serial + 1, !.val = app.val]
             /\ ghost' = [ghost EXCEPT !.for = app.prompt]
    <3>1. /\ di'.serial = di.serial + 1 /\ di'.served = di.served /\ di'.val = app.val
          /\ ghost'.for = app.prompt /\ ghost'.got = ghost.got /\ ghost'.dup = ghost.dup
      BY <2>3, <1>0 DEF InputType, GhostType
    <3>2. app.prompt > 0 /\ dp.serial = app.prompt
      BY <2>3, <1>0 DEF Accepted, HasRange
    <3>3. app.val \in RangeOf(dp.serial) /\ di.serial < dp.serial
      BY <3>2, <1>0 DEF OverlayPlaces
    <3>4. di.serial = di.served
      BY <3>3, <1>0 DEF AnswersPaired
    <3> QED BY <2>1, <3>1, <3>2, <3>3, <3>4, <1>0 DEF AnswersPaired, AnswerMeetsItsPrompt
  <2> QED BY <2>1, <2>2, <2>3
<1>7. CASE CancelFromOverlay
  <2>1. /\ dp' = NoDelayPrompt /\ di' = NoInput /\ rd'.at = "out" /\ ~console'.alive
        /\ ghost' = ghost
    BY <1>7, <1>0 DEF CancelFromOverlay, Out, ConsoleType
  <2> QED BY <2>1 DEF AnswersPaired, AnswerMeetsItsPrompt, NoDelayPrompt, NoInput
<1>8. CASE OverlayStep
  <2>1. CASE ~QueueDelayInput /\ ~CancelFromOverlay
    <3>1. UNCHANGED <<dp, rd, console>>
      BY <1>8, <2>1, OverlayKeeps
    <3>2. UNCHANGED <<di, ghost>>
      BY <1>8, <2>1 DEF OverlayStep, ActivateDelaySetupOverlay, UpdateDelaySetupMetrics,
           ConfirmDelay, ReadRange, ActivateSpectateConfirmOverlay, DismissSpectateConfirmOverlay,
           AnswerSpectatePromptChoice, LeavesSession, block
    <3> QED BY <3>1, <3>2, <1>u
  <2> QED BY <1>6, <1>7, <2>1
<1>9. CASE TickStep
  BY <1>u, <1>9, TickKeeps
<1> QED BY <1>1, <1>2, <1>5, <1>8, <1>9 DEF PromptsNext

\* A session that is over does not come back.
LEMMA PhaseLives == ASSUME PromptsNext, phase' \in Live PROVE phase \in Live
<1>1. CASE TickStep
  BY <1>1 DEF TickStep, TickHelperDead, TickRequiresRetirement, TickProceeds
<1>2. CASE CancelFromOverlay
  BY <1>2 DEF CancelFromOverlay, Live
<1> QED BY <1>1, <1>2, HelperKeeps, CaptureKeeps, ReaderKeeps, OverlayKeeps DEF PromptsNext

\* Every step keeps the overlay to one answer for a question.
LEMMA OverlayNext ==
  ASSUME PromptTypes, AnswersPaired, OverlayPlaces, PromptsNext
  PROVE  OverlayPlaces'
<1>0. /\ dp.serial \in Nat /\ di.serial \in Nat /\ dp.served \in Nat /\ di.served \in Nat
      /\ app.prompt \in Nat /\ ui.prompt \in Nat
      /\ app \in ApplyType /\ ui \in UiType /\ di \in InputType /\ dp \in DelayType
  BY DEF PromptTypes, DelayType, InputType, ApplyType, UiType
<1>p. phase' \in Live => phase \in Live
  BY PhaseLives
<1>u. ASSUME UNCHANGED app, ui'.delay = ui.delay, ui'.prompt = ui.prompt,
             di'.serial = di.serial, dp'.serial = dp.serial
      PROVE  OverlayPlaces'
  BY <1>u, <1>p, <1>0 DEF OverlayPlaces
<1>1. CASE PublishDelayPromptSerial
  <2>1. UNCHANGED <<app, ui, di>> /\ dp'.serial = dp.serial + 1
    BY <1>1, <1>0 DEF PublishDelayPromptSerial, gameSide, DelayType
  <2> QED BY <2>1, <1>0 DEF OverlayPlaces, AnswersPaired
<1>2. CASE CaptureStep /\ ~PublishDelayPromptSerial
  <2>1. UNCHANGED <<app, ui, di>>
    BY <1>2, CaptureKeeps
  <2>2. dp' \in {dp, [dp EXCEPT !.metrics = 0], [dp EXCEPT !.range = dp.serial + 1],
                 [dp EXCEPT !.metrics = dp.serial + 1]}
    BY <1>2 DEF CaptureStep, TakeLine, PublishMetrics, PublishRange, PublishMetricsSerial,
         PublishSpectateConfirmPrompt, PublishConsoleError, JudgeTimeout, PublishHeldTimeout, block
  <2>3. dp'.serial = dp.serial
    BY <2>2, <1>0 DEF DelayType
  <2> QED BY <2>1, <2>3, <1>u
<1>3. CASE ReaderStep
  <2>1. UNCHANGED <<app, ui>>
    BY <1>3, ReaderKeeps
  <2>2. di'.serial = di.serial /\ dp'.serial = dp.serial
    BY <1>3, <1>0 DEF ReaderStep, EntersReadConsole, ServeMenuChoice, DeliverWake,
         SeesSpectateAnswer, SpectateDeadline, ServeSpectateAnswer, SeesDelayAnswer,
         ServeDelayAnswer, InputAfterServe, ReadsRealConsole, LeavesRealConsole, block,
         InputType, DelayType
  <2> QED BY <2>1, <2>2, <1>u
<1>4. CASE ActivateDelaySetupOverlay
  <2>1. /\ UNCHANGED <<app, di, dp, phase>> /\ app = NoApply
        /\ ui.delay = "off" \/ (ui.delay = "wait" /\ IsRetry)
    BY <1>4 DEF ActivateDelaySetupOverlay, block
  <2>2. ~(phase \in Live /\ dp.serial > 0 /\ di.serial = dp.serial)
    BY <2>1, <1>0 DEF OverlayPlaces, IsRetry
  <2> QED BY <2>1, <2>2, <1>0 DEF OverlayPlaces, NoApply
<1>5. CASE UpdateDelaySetupMetrics
  <2>1. UNCHANGED <<app, di, dp, phase>> /\ app = NoApply /\ ui.delay = "select"
    BY <1>5 DEF UpdateDelaySetupMetrics, block
  <2> QED BY <2>1, <1>0 DEF OverlayPlaces, NoApply
<1>6. ASSUME NEW v \in 1 .. MaxAsk + 1, ConfirmDelay(v) PROVE OverlayPlaces'
  <2>1. /\ UNCHANGED <<ui, di, dp, phase>> /\ phase \in Live /\ ui.delay = "select"
        /\ ui.prompt > 0 /\ v \in RangeOf(ui.prompt) /\ dp.serial = ui.prompt
        /\ app'.prompt = ui.prompt /\ app'.val = v
    BY <1>6 DEF ConfirmDelay, PromptStillOpen, block
  <2> QED BY <2>1, <1>0 DEF OverlayPlaces, AnswersPaired
<1>7. CASE ReadRange
  <2>1. /\ UNCHANGED <<ui, di, dp, phase>> /\ app'.prompt = app.prompt /\ app'.val = app.val
        /\ app.prompt > 0
    BY <1>7, <1>0 DEF ReadRange, block, ApplyType
  <2> QED BY <2>1, <1>0 DEF OverlayPlaces
<1>8. CASE QueueDelayInput
  <2>1. /\ UNCHANGED <<dp, phase>> /\ app' = NoApply
        /\ \/ UNCHANGED <<di, ui>>
           \/ Accepted /\ app.range > 0 /\ ui' = [ui EXCEPT !.delay = "wait"]
    BY <1>8 DEF QueueDelayInput
  <2>2. CASE UNCHANGED <<di, ui>>
    BY <2>1, <2>2, <1>0 DEF OverlayPlaces, NoApply
  <2>3. CASE Accepted /\ app.range > 0 /\ ui' = [ui EXCEPT !.delay = "wait"]
    <3>1. app.prompt > 0 /\ dp.serial = app.prompt
      BY <2>3, <1>0 DEF Accepted, HasRange
    <3>2. ui'.delay = "wait" /\ ui'.prompt = dp.serial
      BY <2>3, <3>1, <1>0 DEF OverlayPlaces, UiType
    <3> QED BY <2>1, <3>2, <1>0 DEF OverlayPlaces, NoApply
  <2> QED BY <2>1, <2>2, <2>3
<1>9. CASE ActivateSpectateConfirmOverlay \/ DismissSpectateConfirmOverlay
           \/ AnswerSpectatePromptChoice
  <2>1. /\ UNCHANGED <<app, di, dp>> /\ ui'.delay = ui.delay /\ ui'.prompt = ui.prompt
    BY <1>9, <1>0 DEF ActivateSpectateConfirmOverlay, DismissSpectateConfirmOverlay,
                      AnswerSpectatePromptChoice, block, UiType
  <2> QED BY <2>1, <1>u
<1>10. CASE CancelFromOverlay
  <2>1. app' = NoApply /\ phase' \notin Live
    BY <1>10 DEF CancelFromOverlay, Live
  <2> QED BY <2>1 DEF OverlayPlaces, NoApply
<1>11. CASE LeavesSession
  <2>1. app' = NoApply /\ phase' \notin Live
    BY <1>11 DEF LeavesSession
  <2> QED BY <2>1 DEF OverlayPlaces, NoApply
<1>12. CASE OverlayStep
  BY <1>4, <1>5, <1>6, <1>7, <1>8, <1>9, <1>10, <1>11, <1>12 DEF OverlayStep
<1>13. CASE HelperStep
  BY <1>13, <1>u, HelperKeeps
<1>14. CASE TickStep
  BY <1>14, <1>u, TickKeeps
<1> QED BY <1>1, <1>2, <1>3, <1>12, <1>13, <1>14 DEF PromptsNext

\* A dead helper neither prints nor reads.
LEMMA QuietNext == ASSUME PromptTypes, GoneIsQuiet, PromptsNext PROVE GoneIsQuiet'
<1>0. console \in ConsoleType
  BY DEF PromptTypes
<1>1. CASE HelperStep
  BY <1>1, <1>0 DEF HelperStep, PrintsDelayPrompt, PrintsSpectatePrompt, PrintsTimeout, PrintsError,
       Binds, AsksForInit, HelperDies, WritesWake, FlushesInput, GoneIsQuiet, ConsoleType
<1>2. CASE CaptureStep
  <2>1. console.alive
    BY <1>2 DEF CaptureStep, TakeLine, PublishMetrics, PublishRange, PublishMetricsSerial,
         PublishDelayPromptSerial, PublishSpectateConfirmPrompt, PublishConsoleError, JudgeTimeout,
         PublishHeldTimeout, GoneIsQuiet, NoLine
  <2> QED BY <1>2, <2>1, CaptureKeeps DEF GoneIsQuiet
<1>3. CASE ReaderStep
  <2>1. console.alive
    BY <1>3 DEF ReaderStep, EntersReadConsole, ServeMenuChoice, DeliverWake, SeesSpectateAnswer,
         SpectateDeadline, ServeSpectateAnswer, SeesDelayAnswer, ServeDelayAnswer, NoWake,
         ReadsRealConsole, LeavesRealConsole, GoneIsQuiet, Out
  <2>2. console'.alive = console.alive
    BY <1>3, <1>0 DEF ReaderStep, EntersReadConsole, ServeMenuChoice, DeliverWake,
         SeesSpectateAnswer, SpectateDeadline, ServeSpectateAnswer, SeesDelayAnswer,
         ServeDelayAnswer, ReadsRealConsole, LeavesRealConsole, ConsoleType
  <2> QED BY <2>1, <2>2 DEF GoneIsQuiet
<1>4. CASE OverlayStep
  <2>1. CASE CancelFromOverlay
    BY <2>1 DEF CancelFromOverlay, GoneIsQuiet
  <2> QED BY <1>4, <2>1, OverlayKeeps DEF GoneIsQuiet
<1>5. CASE TickStep
  BY <1>5, TickKeeps DEF GoneIsQuiet
<1> QED BY <1>1, <1>2, <1>3, <1>4, <1>5 DEF PromptsNext

\* A player becomes connected only after an answer was delivered.
LEMMA ConnectedNext ==
  ASSUME PromptTypes, AnswersPaired, ConnectedMeansAnswered, PromptsNext
  PROVE  ConnectedMeansAnswered'
<1>0. ghost \in GhostType /\ di.serial \in Nat /\ di.served \in Nat
  BY DEF PromptTypes, InputType
<1>1. CASE TickStep
  <2>1. UNCHANGED <<role, ghost, di>>
    BY <1>1, TickKeeps
  <2>2. ASSUME phase' = "Connected", role # "spectate"
        PROVE  phase = "Connected" \/ (di.serial > 0 /\ di.serial <= di.served)
    <3>1. CASE TickHelperDead
      BY <2>2, <3>1 DEF TickHelperDead, RuntimeReady
    <3>2. CASE TickRequiresRetirement
      BY <2>2, <3>2 DEF TickRequiresRetirement
    <3>3. ASSUME NEW f \in BOOLEAN, NEW p \in {"NotAttempted", "Succeeded", "Failed"},
                 TickProceeds(f, p)
          PROVE  phase = "Connected" \/ (di.serial > 0 /\ di.serial <= di.served)
      BY <2>2, <3>3 DEF TickProceeds, RuntimeReady
    <3> QED BY <1>1, <3>1, <3>2, <3>3 DEF TickStep
  <2> QED BY <2>1, <2>2, <1>0 DEF ConnectedMeansAnswered, AnswersPaired
<1>2. CASE ServeDelayAnswer
  <2>1. UNCHANGED <<role, phase>> /\ ghost'.got # {}
    BY <1>2, <1>0 DEF ServeDelayAnswer, gameSide, GhostType
  <2> QED BY <2>1 DEF ConnectedMeansAnswered
<1>3. CASE ~TickStep /\ ~ServeDelayAnswer
  <2>1. ghost'.got = ghost.got
    <3>1. CASE HelperStep
      <4>1. ghost' = ghost \/ ghost' = [ghost EXCEPT !.wake = wake.req + 1]
        BY <3>1 DEF HelperStep, PrintsDelayPrompt, PrintsSpectatePrompt, PrintsTimeout, PrintsError,
                    Binds, AsksForInit, HelperDies, WritesWake, FlushesInput
      <4> QED BY <4>1, <1>0 DEF GhostType
    <3>2. CASE OverlayStep
      <4>1. ghost' = ghost \/ ghost' = [ghost EXCEPT !.for = app.prompt]
        BY <3>2 DEF OverlayStep, ActivateDelaySetupOverlay, UpdateDelaySetupMetrics,
             ConfirmDelay, ReadRange, QueueDelayInput, ActivateSpectateConfirmOverlay,
             DismissSpectateConfirmOverlay, AnswerSpectatePromptChoice, LeavesSession,
             CancelFromOverlay
      <4> QED BY <4>1, <1>0 DEF GhostType
    <3>3. CASE ReaderStep
      BY <1>3, <3>3 DEF ReaderStep, EntersReadConsole, ServeMenuChoice, DeliverWake,
           SeesSpectateAnswer, SpectateDeadline, ServeSpectateAnswer, SeesDelayAnswer,
           ReadsRealConsole, LeavesRealConsole
    <3> QED BY <1>3, <3>1, <3>2, <3>3, CaptureKeeps DEF PromptsNext
  <2>2. role' = role /\ (phase' = phase \/ phase' = "Idle")
    <3>1. CASE CancelFromOverlay
      BY <3>1 DEF CancelFromOverlay
    <3> QED BY <1>3, <3>1, HelperKeeps, CaptureKeeps, ReaderKeeps, OverlayKeeps DEF PromptsNext
  <2> QED BY <2>1, <2>2 DEF ConnectedMeansAnswered
<1> QED BY <1>1, <1>2, <1>3

\* The invariant holds initially.
LEMMA PromptsInitially == PromptsInit => PromptsInv
<1> SUFFICES ASSUME PromptsInit PROVE PromptsInv
  OBVIOUS
<1> USE DEF PromptsInit
<1>1. PromptTypes
  <2>1. console \in ConsoleType /\ lines \in Seq(LineType) /\ cap \in CapType /\ rd \in ReaderType
    BY DEF ConsoleType, Stages, NoLine, CapType, Out, ReaderType
  <2>2. /\ wake \in WakeType /\ dp \in DelayType /\ di \in InputType /\ timeout \in TimeoutType
        /\ sp \in SpectateType /\ si \in InputType
    BY DEF NoPair, WakeType, NoDelayPrompt, DelayType, NoInput, InputType, NoTimeout, TimeoutType,
           NoSpectate, SpectateType
  <2>3. /\ ui \in UiType /\ app \in ApplyType /\ init \in InitType /\ ghost \in GhostType
        /\ phase \in Phases
    BY DEF NoUi, UiType, NoApply, ApplyType, InitType, GhostType, Phases, Live
  <2> QED BY <2>1, <2>2, <2>3 DEF PromptTypes
<1>2. WakesCounted /\ GoneIsQuiet
  BY DEF WakesCounted, BelOwed, NoPair, GoneIsQuiet
<1>3. DelayPlaces /\ SpectatePlaces /\ TimeoutPlaces
  BY DEF DelayPlaces, SpectatePlaces, TimeoutPlaces, Printed, Coming, OnlyOne, NoLine, DelaySteps,
         Spectating, NoDelayPrompt, NoSpectate, NoInput, NoTimeout, Out
<1>4. AnswersPaired /\ OverlayPlaces
  BY DEF AnswersPaired, OverlayPlaces, NoInput, NoDelayPrompt, NoApply, Out
<1>5. AnswerMeetsItsPrompt /\ ReleasedByItsOwnWake /\ ConnectedMeansAnswered
  BY DEF AnswerMeetsItsPrompt, ReleasedByItsOwnWake, ConnectedMeansAnswered, NoTimeout
<1> QED BY <1>1, <1>2, <1>3, <1>4, <1>5 DEF PromptsInv

\* The invariant is inductive.
LEMMA PromptsStep == PromptsInv /\ [PromptsNext]_promptVars => PromptsInv'
<1>1. ASSUME PromptsInv, PromptsNext PROVE PromptsInv'
  <2> USE <1>1 DEF PromptsInv
  <2>1. PromptTypes'
    BY QuestionTypes, HelperTypes, CaptureTypes, ReaderTypes, OverlayTypes, TickTypes
    DEF PromptsNext, HelperStep
  <2>2. WakesCounted' /\ DelayPlaces' /\ SpectatePlaces'
    BY WakesNext, DelayNext, SpectateNext
  <2>3. TimeoutPlaces' /\ ReleasedByItsOwnWake'
    BY TimeoutNext
  <2>4. AnswersPaired' /\ AnswerMeetsItsPrompt'
    BY AnswersNext
  <2>5. OverlayPlaces' /\ GoneIsQuiet' /\ ConnectedMeansAnswered'
    BY OverlayNext, QuietNext, ConnectedNext
  <2> QED BY <2>1, <2>2, <2>3, <2>4, <2>5
<1>2. ASSUME PromptsInv, UNCHANGED promptVars PROVE PromptsInv'
  BY <1>2 DEF promptVars, PromptsInv, PromptTypes, WakesCounted, BelOwed, DelayPlaces, Coming,
       Printed, OnlyOne,
       SpectatePlaces, TimeoutPlaces, AnswersPaired, OverlayPlaces, GoneIsQuiet,
       AnswerMeetsItsPrompt,
       ReleasedByItsOwnWake, ConnectedMeansAnswered
<1> QED BY <1>1, <1>2

\* The invariant implies what the runs check.
LEMMA PromptsInvIsSafe == PromptsInv => PromptsSafe
<1> SUFFICES ASSUME PromptsInv PROVE PromptsSafe
  OBVIOUS
<1> USE DEF PromptsInv
<1>0. /\ wake.req \in Nat /\ wake.served \in Nat /\ console.asks \in 0 .. MaxAsk
      /\ dp.serial \in Nat /\ dp.served \in Nat /\ dp.metrics \in Nat /\ dp.range \in Nat
      /\ di.serial \in Nat /\ di.served \in Nat
      /\ wake \in WakeType /\ dp \in DelayType /\ BelOwed \in {0, 1}
  BY DEF PromptTypes, WakeType, DelayType, ConsoleType, InputType, BelOwed
<1>1. wake.req \in Serials /\ wake.served \in Serials /\ wake.served <= wake.req
  BY <1>0 DEF WakesCounted, Serials
<1>2. /\ dp.serial \in Serials /\ dp.served \in Serials /\ dp.metrics \in Serials
      /\ dp.range \in Serials
  BY <1>0 DEF DelayPlaces, AnswersPaired, Serials
<1>3. wake \in [req : Serials, served : Serials]
  BY <1>0, <1>1 DEF WakeType
<1>4. dp \in [serial : Serials, served : Serials, metrics : Serials, range : Serials]
  BY <1>0, <1>2 DEF DelayType
<1>5. /\ dp.served <= dp.serial /\ dp.metrics <= dp.serial + 1
      /\ di.served <= di.serial /\ di.serial <= dp.serial
  BY <1>0 DEF DelayPlaces, AnswersPaired
<1>6. /\ timeout.handled <= timeout.serial /\ timeout.serial <= dp.serial
      /\ sp.served <= sp.serial /\ si.served <= si.serial
  BY DEF TimeoutPlaces, SpectatePlaces
<1>7. lines \in Seq([k : {"delay", "already", "notyet", "timeout", "error"}, snap : Serials])
  BY DEF PromptTypes, LineType, LineKinds
<1>8. /\ role \in Roles /\ phase \in Phases /\ menu \in BOOLEAN /\ err \in BOOLEAN
      /\ console \in [alive : BOOLEAN, stage : Stages, owes : BOOLEAN, asks : 0 .. MaxAsk,
                      bound : BOOLEAN]
  BY DEF PromptTypes, ConsoleType
<1>9. PromptsTypeOK
  BY <1>1, <1>3, <1>4, <1>5, <1>6, <1>7, <1>8 DEF PromptsTypeOK
<1> QED BY <1>9 DEF PromptsSafe

\* PromptsSafe, for any number of delay questions and any roles: an answer
\* reaches the question it was given for, once, a timeout is released by its own
\* wake, and a connected player has answered.
THEOREM PromptsSafety == PromptsSpec => []PromptsSafe
<1>1. PromptsSpec => []PromptsInv
  BY PromptsInitially, PromptsStep, PTL DEF PromptsSpec
<1> QED BY <1>1, PromptsInvIsSafe, PTL

================================================================================
