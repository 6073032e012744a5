------------------------- MODULE OverlayRingProofs -------------------------
(***************************************************************************)
(* The overlay ring implements FrameQueue for every number of slots and    *)
(* every index width that is a multiple of it.                             *)
(*                                                                         *)
(* The argument: masking turns the wrapping indexes into slot numbers that *)
(* advance by one (MaskInc), so the waiting slots are the Waiting ones     *)
(* from tail on (SlotsBetween). RingInv says that they are whole, that     *)
(* the writer fills the slot just behind them and that the reader copies   *)
(* the first of them; neither can touch what the other uses.               *)
(***************************************************************************)
EXTENDS OverlayRing, TLAPS

(* Division with remainder is unique. *)
LEMMA ModUnique ==
    ASSUME NEW a \in Nat, NEW n \in Nat \ {0}, NEW q \in Int, NEW r \in 0 .. n - 1,
           a = n * q + r
    PROVE  a % n = r
<1> DEFINE d == a \div n
           e == a % n
<1>1. d \in Int /\ e \in 0 .. n - 1 /\ a = n * d + e
  OBVIOUS
<1> HIDE DEF d, e
<1>2. n * (q - d) = e - r
  BY <1>1
<1>3. q - d = 0
  BY <1>1, <1>2
<1> QED
  BY <1>1, <1>2, <1>3 DEF e

(* What Mask returns for a stored index. *)
LEMMA MaskType ==
    ASSUME NEW x \in 0 .. Width - 1
    PROVE  Mask(x) \in SlotIds
BY SlotsAssumption, LapsAssumption DEF Mask, SlotIds, Width

(* The slot that follows slot s. *)
Following(s) == IF s = Slots - 1 THEN 0 ELSE s + 1

(* Advancing a stored index advances its slot by one, wrap-around of the
   index included: Width is a multiple of Slots. *)
LEMMA MaskInc ==
    ASSUME NEW x \in 0 .. Width - 1
    PROVE  /\ Inc(x) \in 0 .. Width - 1
           /\ Mask(Inc(x)) = Following(Mask(x))
           /\ Mask(x + 1) = Following(Mask(x))
<1> DEFINE q == x \div Slots
           r == x % Slots
<1>1. r \in 0 .. Slots - 1 /\ x = Slots * q + r /\ q \in Int
  BY SlotsAssumption, LapsAssumption DEF Width
<1>2. Width \in Nat \ {0} /\ x \in Nat
  BY SlotsAssumption, LapsAssumption DEF Width
<1>3. (x + 1) % Slots = Following(r)
  <2> HIDE DEF q, r
  <2>1. CASE r = Slots - 1
    <3>1. x + 1 = Slots * (q + 1) + 0 /\ 0 \in 0 .. Slots - 1
      BY <1>1, <2>1, SlotsAssumption
    <3> QED
      BY <3>1, <1>1, <1>2, <2>1, ModUnique, SlotsAssumption DEF Following
  <2>2. CASE r # Slots - 1
    <3>1. x + 1 = Slots * q + (r + 1) /\ r + 1 \in 0 .. Slots - 1
      BY <1>1, <2>2, SlotsAssumption
    <3> QED
      BY <3>1, <1>1, <1>2, <2>2, ModUnique, SlotsAssumption DEF Following
  <2> QED
    BY <2>1, <2>2
<1>4. CASE x + 1 = Width
  <2>1. Inc(x) = 0
    BY <1>2, <1>4 DEF Inc
  <2>2. 0 % Slots = 0
    BY SlotsAssumption
  <2>3. x = Slots * (Laps - 1) + (Slots - 1)
    BY <1>4, SlotsAssumption, LapsAssumption DEF Width
  <2>4. r = Slots - 1
    BY <2>3, <1>2, ModUnique, SlotsAssumption, LapsAssumption
  <2> QED
    BY <1>2, <1>3, <2>1, <2>2, <2>4 DEF Mask, Following
<1>5. CASE x + 1 # Width
  <2>1. Inc(x) = x + 1
    BY <1>2, <1>5 DEF Inc
  <2> QED
    BY <1>2, <1>3, <1>5, <2>1 DEF Mask
<1> QED
  BY <1>4, <1>5

-----------------------------------------------------------------------------
(* Slots from t up to h. *)

(* Bounds of Distance; it is 0 exactly when the slots are equal and Slots - 1
   exactly when h is the last slot before t. *)
LEMMA DistanceBounds ==
    ASSUME NEW h \in SlotIds, NEW t \in SlotIds
    PROVE  /\ Distance(t, h) \in 0 .. Slots - 1
           /\ Distance(t, h) = 0 <=> t = h
           /\ Distance(t, h) = Slots - 1 <=> Following(h) = t
BY SlotsAssumption DEF SlotIds, Distance, Following

(* Moving h or t one slot on changes the distance by one. *)
LEMMA DistanceMoves ==
    ASSUME NEW h \in SlotIds, NEW t \in SlotIds
    PROVE  /\ Following(h) # t => Distance(t, Following(h)) = Distance(t, h) + 1
           /\ t # h => Distance(Following(t), h) = Distance(t, h) - 1
BY SlotsAssumption DEF SlotIds, Distance, Following

(* The slots in between are not h, the next one is. *)
LEMMA SlotsBetween ==
    ASSUME NEW h \in SlotIds, NEW t \in SlotIds
    PROVE  /\ \A k \in 0 .. Distance(t, h) - 1 : After(t, k) \in SlotIds /\ After(t, k) # h
           /\ After(t, Distance(t, h)) = h
           /\ After(t, 0) = t
           /\ \A k \in 1 .. Slots - 1 : After(Following(t), k - 1) = After(t, k)
BY SlotsAssumption DEF SlotIds, Distance, Following, After

-----------------------------------------------------------------------------
(* The ring's memory is empty to begin with. *)
LEMMA InitInv == Init => RingInv
<1> SUFFICES ASSUME Init PROVE RingInv
  OBVIOUS
<1>1. 0 \in 0 .. Width - 1
  BY SlotsAssumption, LapsAssumption DEF Width
<1>2. accepted \in BOOLEAN
  BY DEF Init
<1>3. TypeOK
  BY <1>1, <1>2 DEF Init, TypeOK
<1>4. Waiting = 0
  BY <1>1, MaskType DEF Init, Waiting, Distance, SlotIds
<1>5. WaitingWhole
  BY <1>4 DEF WaitingWhole
<1> QED
  BY <1>3, <1>5 DEF Init, RingInv, WriterInv, ReaderInv

(* Every result flag is a Boolean. *)
LEMMA AcceptedStep == accepted \in BOOLEAN /\ [Next]_vars => accepted' \in BOOLEAN
BY Zenon DEF Next, vars, Push, Pop, PushFull, PushBegin, PushBytes, PushLen, PushIndex,
   PopEmpty, PopBegin, PopLen, PopBytes, PopIndex, WriterDies, ReaderDies

(* What is waiting does not depend on anything but the two indexes. *)
LEMMA WaitingSame == UNCHANGED <<head, tail>> => Waiting' = Waiting
BY DEF Waiting

(* The ring invariant is inductive. *)
LEMMA StepInv == RingInv /\ [Next]_vars => RingInv'
<1> SUFFICES ASSUME RingInv, [Next]_vars PROVE RingInv'
  OBVIOUS
<1> DEFINE h == Mask(head)
           t == Mask(tail)
<1>a. accepted' \in BOOLEAN
  BY AcceptedStep DEF RingInv, TypeOK
<1>h. h \in SlotIds /\ t \in SlotIds
  BY MaskType DEF RingInv, TypeOK
<1>w. Waiting = Distance(t, h) /\ Waiting \in 0 .. Slots - 1
  BY <1>h, DistanceBounds DEF Waiting
<1>b. /\ \A k \in 0 .. Waiting - 1 : After(t, k) \in SlotIds /\ After(t, k) # h
      /\ After(t, Waiting) = h
      /\ After(t, 0) = t
      /\ \A k \in 1 .. Slots - 1 : After(Following(t), k - 1) = After(t, k)
  BY <1>h, <1>w, SlotsBetween
<1>1. CASE PushFull
  <2>1. TypeOK'
    BY <1>1, <1>a DEF RingInv, TypeOK, PushFull, writer, reader
  <2>2. Waiting' = Waiting
    BY <1>1, WaitingSame DEF PushFull
  <2> QED
    BY <1>1, <2>1, <2>2 DEF RingInv, PushFull, writer, reader, WaitingWhole, WriterInv, ReaderInv
<1>2. ASSUME NEW f \in Frames, PushBegin(f) PROVE RingInv'
  <2>1. TypeOK'
    BY <1>2, <1>a DEF RingInv, TypeOK, PushBegin, reader
  <2>2. Waiting' = Waiting
    BY <1>2, WaitingSame DEF PushBegin
  <2>3. Waiting < Slots - 1
    <3>1. Following(h) # t
      BY <1>2, MaskInc DEF PushBegin, Full, RingInv, TypeOK
    <3> QED
      BY <1>h, <1>w, <3>1, DistanceBounds, SlotsAssumption
  <2>4. WriterInv'
    BY <1>2, <2>2, <2>3 DEF PushBegin, WriterInv
  <2> QED
    BY <1>2, <2>1, <2>2, <2>4
       DEF RingInv, PushBegin, reader, WaitingWhole, ReaderInv
<1>3. CASE PushBytes
  <2>1. TypeOK'
    BY <1>3, <1>a DEF RingInv, TypeOK, PushBytes, reader
  <2>2. Waiting' = Waiting
    BY <1>3, WaitingSame DEF PushBytes
  <2>3. data' = [data EXCEPT ![h] = wframe] /\ wframe \in Frames
    BY <1>3 DEF PushBytes, RingInv, WriterInv
  <2>4. \A k \in 0 .. Waiting - 1 : data'[After(t, k)] = data[After(t, k)]
    BY <1>b, <1>h, <2>3 DEF RingInv, TypeOK
  <2>5. data'[h] = wframe
    BY <1>h, <2>3 DEF RingInv, TypeOK
  <2>6. WaitingWhole'
    BY <1>3, <1>w, <2>2, <2>4 DEF RingInv, WaitingWhole, PushBytes
  <2>7. ReaderInv'
    BY <1>3, <1>w, <1>b, <2>2, <2>4 DEF RingInv, ReaderInv, PushBytes, reader
  <2> QED
    BY <1>3, <2>1, <2>2, <2>5, <2>6, <2>7 DEF RingInv, PushBytes, WriterInv
<1>4. CASE PushLen
  <2>1. TypeOK'
    BY <1>4, <1>a DEF RingInv, TypeOK, PushLen, reader
  <2>2. Waiting' = Waiting
    BY <1>4, WaitingSame DEF PushLen
  <2>3. len' = [len EXCEPT ![h] = wframe] /\ wframe \in Frames
    BY <1>4 DEF PushLen, RingInv, WriterInv
  <2>4. \A k \in 0 .. Waiting - 1 : len'[After(t, k)] = len[After(t, k)]
    BY <1>b, <1>h, <2>3 DEF RingInv, TypeOK
  <2>5. len'[h] = wframe
    BY <1>h, <2>3 DEF RingInv, TypeOK
  <2>6. WaitingWhole'
    BY <1>4, <1>w, <2>2, <2>4 DEF RingInv, WaitingWhole, PushLen
  <2>7. ReaderInv'
    BY <1>4, <1>w, <1>b, <2>2, <2>4 DEF RingInv, ReaderInv, PushLen, reader
  <2> QED
    BY <1>4, <2>1, <2>2, <2>5, <2>6, <2>7 DEF RingInv, PushLen, WriterInv
<1>5. CASE PushIndex
  <2>1. /\ head' = Inc(head) /\ Waiting < Slots - 1
        /\ data[h] = wframe /\ len[h] = wframe /\ wframe \in Frames
    BY <1>5 DEF PushIndex, RingInv, WriterInv
  <2>2. head' \in 0 .. Width - 1 /\ Mask(head') = Following(h)
    BY <2>1, MaskInc DEF RingInv, TypeOK
  <2>3. 0 \in 0 .. Width - 1
    BY SlotsAssumption, LapsAssumption DEF Width
  <2>4. TypeOK'
    BY <1>5, <1>a, <2>2, <2>3 DEF RingInv, TypeOK, PushIndex, reader
  <2>5. Mask(tail)' = t /\ Waiting' = Waiting + 1
    BY <1>5, <1>h, <1>w, <2>1, <2>2, DistanceBounds, DistanceMoves DEF PushIndex, Waiting
  <2>6. WaitingWhole'
    BY <1>5, <1>w, <1>b, <2>1, <2>5 DEF RingInv, WaitingWhole, PushIndex
  <2>7. ReaderInv'
    BY <1>5, <1>w, <2>5 DEF RingInv, ReaderInv, PushIndex, reader
  <2> QED
    BY <1>5, <2>4, <2>6, <2>7 DEF RingInv, PushIndex, WriterInv
<1>6. CASE PopEmpty
  <2>1. TypeOK'
    BY <1>6, <1>a DEF RingInv, TypeOK, PopEmpty, writer, reader
  <2>2. Waiting' = Waiting
    BY <1>6, WaitingSame DEF PopEmpty
  <2> QED
    BY <1>6, <2>1, <2>2 DEF RingInv, PopEmpty, writer, reader, WaitingWhole, WriterInv, ReaderInv
<1>7. CASE PopBegin
  <2>1. TypeOK'
    BY <1>7, <1>a DEF RingInv, TypeOK, PopBegin, writer
  <2>2. Waiting' = Waiting
    BY <1>7, WaitingSame DEF PopBegin
  <2>3. Waiting # 0
    BY <1>7, <1>h, <1>w, DistanceBounds DEF PopBegin, Empty
  <2> QED
    BY <1>7, <1>w, <2>1, <2>2, <2>3
       DEF RingInv, PopBegin, writer, WaitingWhole, WriterInv, ReaderInv
<1>8. CASE PopLen
  <2>1. TypeOK'
    BY <1>8, <1>a, <1>h DEF RingInv, TypeOK, PopLen, writer, ReaderInv
  <2>2. Waiting' = Waiting
    BY <1>8, WaitingSame DEF PopLen
  <2> QED
    BY <1>8, <2>1, <2>2 DEF RingInv, PopLen, writer, WaitingWhole, WriterInv, ReaderInv
<1>9. CASE PopBytes
  <2>1. TypeOK'
    BY <1>9, <1>a, <1>h DEF RingInv, TypeOK, PopBytes, writer, ReaderInv
  <2>2. Waiting' = Waiting
    BY <1>9, WaitingSame DEF PopBytes
  <2> QED
    BY <1>9, <2>1, <2>2 DEF RingInv, PopBytes, writer, WaitingWhole, WriterInv, ReaderInv
<1>10. CASE PopIndex
  <2>1. tail' = Inc(tail) /\ Waiting > 0
    BY <1>10 DEF PopIndex, RingInv, ReaderInv
  <2>2. tail' \in 0 .. Width - 1 /\ Mask(tail') = Following(t)
    BY <2>1, MaskInc DEF RingInv, TypeOK
  <2>3. 0 \in 0 .. Width - 1
    BY SlotsAssumption, LapsAssumption DEF Width
  <2>4. TypeOK'
    BY <1>10, <1>a, <2>2, <2>3 DEF RingInv, TypeOK, PopIndex, writer
  <2>5. Mask(head)' = h /\ Waiting' = Waiting - 1
    BY <1>10, <1>h, <1>w, <2>1, <2>2, DistanceBounds, DistanceMoves DEF PopIndex, Waiting
  <2>6. WaitingWhole'
    <3> SUFFICES ASSUME NEW k \in 0 .. Waiting' - 1
                 PROVE  LET s == After(Mask(tail'), k) IN data[s] \in Frames /\ len[s] = data[s]
      BY <1>10 DEF WaitingWhole, PopIndex
    <3>1. k + 1 \in 1 .. Slots - 1 /\ k + 1 \in 0 .. Waiting - 1
      BY <1>w, <2>5, SlotsAssumption
    <3>2. After(Following(t), k) = After(t, k + 1)
      BY <1>b, <3>1
    <3> QED
      BY <2>2, <3>1, <3>2 DEF RingInv, WaitingWhole
  <2>7. WriterInv'
    BY <1>10, <1>w, <2>5, SlotsAssumption DEF RingInv, WriterInv, PopIndex, writer
  <2> QED
    BY <1>10, <2>4, <2>6, <2>7 DEF RingInv, PopIndex, ReaderInv
<1>11. CASE WriterDies
  <2>1. 0 \in 0 .. Width - 1
    BY SlotsAssumption, LapsAssumption DEF Width
  <2>2. TypeOK'
    BY <1>11, <1>a, <2>1 DEF RingInv, TypeOK, WriterDies, reader
  <2>3. Waiting' = Waiting
    BY <1>11, WaitingSame DEF WriterDies
  <2> QED
    BY <1>11, <2>2, <2>3 DEF RingInv, WriterDies, reader, WaitingWhole, WriterInv, ReaderInv
<1>12. CASE ReaderDies
  <2>1. 0 \in 0 .. Width - 1
    BY SlotsAssumption, LapsAssumption DEF Width
  <2>2. TypeOK'
    BY <1>12, <1>a, <2>1 DEF RingInv, TypeOK, ReaderDies, writer
  <2>3. Waiting' = Waiting
    BY <1>12, WaitingSame DEF ReaderDies
  <2> QED
    BY <1>12, <2>2, <2>3 DEF RingInv, ReaderDies, writer, WaitingWhole, WriterInv, ReaderInv
<1>13. CASE UNCHANGED vars
  <2>1. TypeOK'
    BY <1>13, <1>a DEF RingInv, TypeOK, vars
  <2>2. Waiting' = Waiting
    BY <1>13, WaitingSame DEF vars
  <2> QED
    BY <1>13, <2>1, <2>2 DEF RingInv, vars, WaitingWhole, WriterInv, ReaderInv
<1> QED
  BY <1>1, <1>2, <1>3, <1>4, <1>5, <1>6, <1>7, <1>8, <1>9, <1>10, <1>11, <1>12, <1>13
     DEF Next, Push, Pop
-----------------------------------------------------------------------------
(* The waiting frames form a sequence of Waiting frames. *)
LEMMA ContentsSeq ==
    ASSUME RingInv
    PROVE  /\ Waiting \in 0 .. Slots - 1
           /\ Contents \in Seq(Frames)
           /\ Len(Contents) = Waiting
           /\ \A k \in 1 .. Waiting : Contents[k] = data[After(Mask(tail), k - 1)]
<1>1. Mask(head) \in SlotIds /\ Mask(tail) \in SlotIds
  BY MaskType DEF RingInv, TypeOK
<1>2. Waiting \in 0 .. Slots - 1
  BY <1>1, DistanceBounds DEF Waiting
<1>3. \A k \in 1 .. Waiting : data[After(Mask(tail), k - 1)] \in Frames
  BY <1>2, SlotsAssumption DEF RingInv, WaitingWhole
<1> QED
  BY <1>2, <1>3, SlotsAssumption DEF Contents

(* The same for the next state. *)
LEMMA ContentsSeqNext ==
    ASSUME RingInv'
    PROVE  /\ Waiting' \in 0 .. Slots - 1
           /\ Contents' \in Seq(Frames)
           /\ Len(Contents') = Waiting'
           /\ \A k \in 1 .. Waiting' : Contents'[k] = data'[After(Mask(tail'), k - 1)]
<1>1. Mask(head') \in SlotIds /\ Mask(tail') \in SlotIds
  BY MaskType DEF RingInv, TypeOK
<1>2. Waiting' \in 0 .. Slots - 1
  BY <1>1, DistanceBounds DEF Waiting
<1>3. PICK w \in 0 .. Slots - 1 : w = Waiting'
  BY <1>2
<1>4. \A k \in 0 .. w - 1 : data'[After(Mask(tail'), k)] \in Frames
  BY <1>3 DEF RingInv, WaitingWhole
<1>5. \A k \in 1 .. w : data'[After(Mask(tail'), k - 1)] \in Frames
  BY <1>4, SlotsAssumption
<1>6. Contents' = [k \in 1 .. w |-> data'[After(Mask(tail'), k - 1)]]
  BY <1>3 DEF Contents
<1> QED
  BY <1>3, <1>5, <1>6, SlotsAssumption

(* The empty ring is the empty queue. *)
LEMMA InitRefines == Init => Queue!QInit
<1> SUFFICES ASSUME Init PROVE Queue!QInit
  OBVIOUS
<1>1. RingInv
  BY InitInv
<1>2. Waiting = 0
  BY <1>1, MaskType DEF Init, Waiting, Distance, SlotIds, RingInv, TypeOK
<1>3. Contents = << >>
  BY <1>1, <1>2, ContentsSeq
<1> QED
  BY <1>3 DEF Init, Queue!QInit

(* Every step of the ring is a step of the queue or leaves it alone. *)
LEMMA StepRefines == RingInv /\ RingInv' /\ [Next]_vars => [Queue!QNext]_Queue!qvars
<1> SUFFICES ASSUME RingInv, RingInv', [Next]_vars PROVE [Queue!QNext]_Queue!qvars
  OBVIOUS
<1> DEFINE h == Mask(head)
           t == Mask(tail)
<1>h. h \in SlotIds /\ t \in SlotIds
  BY MaskType DEF RingInv, TypeOK
<1>w. Waiting = Distance(t, h) /\ Waiting \in 0 .. Slots - 1
  BY <1>h, DistanceBounds DEF Waiting
<1>b. /\ \A k \in 0 .. Waiting - 1 : After(t, k) \in SlotIds /\ After(t, k) # h
      /\ After(t, Waiting) = h
      /\ After(t, 0) = t
      /\ \A k \in 1 .. Slots - 1 : After(Following(t), k - 1) = After(t, k)
  BY <1>h, <1>w, SlotsBetween
<1>c. ASSUME UNCHANGED <<head, tail>>,
             \A k \in 0 .. Waiting - 1 : data'[After(t, k)] = data[After(t, k)]
      PROVE  Contents' = Contents
  <2>1. Waiting' = Waiting /\ Mask(tail') = t
    BY <1>c, WaitingSame
  <2>2. \A k \in 1 .. Waiting : Contents'[k] = Contents[k]
    BY <1>w, <1>c, <2>1, ContentsSeq, ContentsSeqNext, SlotsAssumption
  <2> QED
    BY <2>1, <2>2, ContentsSeq, ContentsSeqNext
<1>1. CASE PushFull
  <2>1. Waiting = Slots - 1
    BY <1>1, <1>h, <1>w, MaskInc, DistanceBounds DEF PushFull, Full, RingInv, TypeOK
  <2>2. Contents' = Contents
    BY <1>1, <1>c DEF PushFull
  <2> QED
    BY <1>1, <2>1, <2>2, ContentsSeq DEF PushFull, Queue!QNext, Queue!Refuse
<1>2. ASSUME NEW f \in Frames, PushBegin(f) PROVE UNCHANGED Queue!qvars
  BY <1>2, <1>c DEF PushBegin, Queue!qvars
<1>3. CASE PushBytes
  <2>1. data' = [data EXCEPT ![h] = wframe]
    BY <1>3 DEF PushBytes, RingInv, WriterInv
  <2>2. \A k \in 0 .. Waiting - 1 : data'[After(t, k)] = data[After(t, k)]
    BY <1>b, <1>h, <2>1 DEF RingInv, TypeOK
  <2> QED
    BY <1>3, <1>c, <2>2 DEF PushBytes, Queue!qvars
<1>4. CASE PushLen
  BY <1>4, <1>c DEF PushLen, Queue!qvars
<1>5. CASE PushIndex
  <2>1. /\ head' = Inc(head) /\ Waiting < Slots - 1
        /\ data[h] = wframe /\ wframe \in Frames
    BY <1>5 DEF PushIndex, RingInv, WriterInv
  <2>2. Mask(head') = Following(h)
    BY <2>1, MaskInc DEF RingInv, TypeOK
  <2>3. Mask(tail') = t /\ Waiting' = Waiting + 1
    BY <1>5, <1>h, <1>w, <2>1, <2>2, DistanceBounds, DistanceMoves DEF PushIndex, Waiting
  <2>4. \A k \in 1 .. Waiting : Contents'[k] = Contents[k]
    BY <1>5, <1>w, <2>3, ContentsSeq, ContentsSeqNext, SlotsAssumption DEF PushIndex
  <2>5. Contents'[Waiting + 1] = wframe
    BY <1>5, <1>w, <1>b, <2>1, <2>3, ContentsSeqNext, SlotsAssumption DEF PushIndex
  <2>6. Contents' = Append(Contents, wframe)
    BY <1>w, <2>1, <2>3, <2>4, <2>5, ContentsSeq, ContentsSeqNext
  <2>7. Queue!Enqueue(wframe)
    BY <1>5, <2>1, <2>6, ContentsSeq DEF PushIndex, Queue!Enqueue
  <2> QED
    BY <2>1, <2>7 DEF Queue!QNext
<1>6. CASE PopEmpty
  <2>1. Waiting = 0
    BY <1>6, <1>h, <1>w, DistanceBounds DEF PopEmpty, Empty
  <2>2. Contents' = Contents /\ Contents = << >>
    BY <1>6, <1>c, <2>1, ContentsSeq DEF PopEmpty
  <2> QED
    BY <1>6, <2>2 DEF PopEmpty, Queue!QNext, Queue!FoundEmpty
<1>7. CASE PopBegin
  BY <1>7, <1>c DEF PopBegin, Queue!qvars
<1>8. CASE PopLen
  BY <1>8, <1>c DEF PopLen, Queue!qvars
<1>9. CASE PopBytes
  BY <1>9, <1>c DEF PopBytes, Queue!qvars
<1>10. CASE PopIndex
  <2>1. /\ tail' = Inc(tail) /\ Waiting > 0
        /\ rdata = IF Unreadable(len[t]) THEN NoFrame ELSE data[t]
    BY <1>10 DEF PopIndex, RingInv, ReaderInv
  <2>2. Mask(tail') = Following(t)
    BY <2>1, MaskInc DEF RingInv, TypeOK
  <2>3. Waiting' = Waiting - 1
    BY <1>10, <1>h, <1>w, <2>1, <2>2, DistanceBounds, DistanceMoves DEF PopIndex, Waiting
  <2>4. Contents # << >> /\ Head(Contents) = data[t]
    BY <1>b, <1>w, <2>1, ContentsSeq, SlotsAssumption
  <2>5. \A k \in 1 .. Waiting - 1 : Contents'[k] = Contents[k + 1]
    <3> SUFFICES ASSUME NEW k \in 1 .. Waiting - 1 PROVE Contents'[k] = Contents[k + 1]
      OBVIOUS
    <3>1. k \in 1 .. Slots - 1 /\ k \in 1 .. Waiting' /\ k + 1 \in 1 .. Waiting
      BY <1>w, <2>3, SlotsAssumption
    <3>2. After(Following(t), k - 1) = After(t, k)
      BY <1>b, <3>1
    <3>3. Contents'[k] = data[After(t, k)]
      BY <1>10, <2>2, <3>1, <3>2, ContentsSeqNext DEF PopIndex
    <3>4. Contents[k + 1] = data[After(t, (k + 1) - 1)]
      BY <3>1, ContentsSeq
    <3> QED
      BY <3>3, <3>4
  <2>6. Contents' = Tail(Contents)
    BY <1>w, <2>1, <2>3, <2>4, <2>5, ContentsSeq, ContentsSeqNext
  <2>7. data[t] \in Frames /\ len[t] = data[t]
    BY <1>b, <1>w, <2>1 DEF RingInv, WaitingWhole
  <2>8. rdata = IF data[t] \in Oversized THEN NoFrame ELSE data[t]
    BY <2>1, <2>7, FramesAssumption DEF Unreadable
  <2>9. Queue!Dequeue
    BY <1>10, <2>4, <2>6, <2>8 DEF PopIndex, Queue!Dequeue
  <2> QED
    BY <2>9 DEF Queue!QNext
<1>11. CASE WriterDies
  BY <1>11, <1>c DEF WriterDies, Queue!qvars
<1>12. CASE ReaderDies
  BY <1>12, <1>c DEF ReaderDies, Queue!qvars
<1>13. CASE UNCHANGED vars
  BY <1>13, <1>c DEF vars, Queue!qvars
<1> QED
  BY <1>1, <1>2, <1>3, <1>4, <1>5, <1>6, <1>7, <1>8, <1>9, <1>10, <1>11, <1>12, <1>13
     DEF Next, Push, Pop

-----------------------------------------------------------------------------
(* The ring invariant holds of every reachable state. *)
THEOREM Inductive == Spec => []RingInv
BY InitInv, StepInv, PTL DEF Spec

(* The ring's memory and both processes' locals keep their types, index
   wrap-around and process deaths included. *)
THEOREM TypeCorrect == Spec => []TypeOK
<1>1. RingInv => TypeOK
  BY DEF RingInv
<1> QED
  BY <1>1, Inductive, PTL

(* Pop never finds a slot whose bytes and length come from different frames
   (Push publishes the slot before the index, overlay_ipc.cpp). *)
THEOREM NoTornFrame == Spec => []WaitingWhole
<1>1. RingInv => WaitingWhole
  BY DEF RingInv
<1> QED
  BY <1>1, Inductive, PTL

(* Push and Pop implement a bounded queue: whole frames, in order, each once,
   refused exactly when Slots - 1 wait. *)
THEOREM Refinement == Spec => RefinesQueue
BY Inductive, InitRefines, StepRefines, PTL DEF Spec, RefinesQueue, Queue!QSpec

(* What the run overlay checks of the ring's memory as one invariant. *)
THEOREM RingSafety == Spec => []RingSafe
<1>1. RingInv => RingSafe
  BY DEF RingInv, RingSafe
<1> QED
  BY <1>1, Inductive, PTL
=============================================================================
