--------------------------- MODULE HostProtocolProofs ---------------------------
(***************************************************************************)
(* Proofs about HostProtocol, for any values of the INI, any number of     *)
(* sessions, of failed file operations and of deaths of the game.          *)
(*                                                                         *)
(* PreferenceSafe is not inductive: what may be lost depends on which file *)
(* operation comes next.  The invariant therefore says, for each operation *)
(* at the head of the list, what the one before it has established, and    *)
(* Linked says which operation may follow which in the list.               *)
(***************************************************************************)
EXTENDS HostProtocol, SequenceTheorems, TLAPS

USE DEF IPv4, IPv6, Absent

---------------------------------------------------------------------------
(* The list of operations. *)

AfterRestore == {"reject", "restore", "kill", "end"}
AfterRecover == {"snapshot", "load", "save", "end"}

MayFollow(a, b) ==
  \/ a \in {"restore", "clear"} /\ b \in AfterRestore
  \/ a \in {"recover", "unmarkRec"} /\ b \in AfterRecover
  \/ a = "putBack" /\ b = "unmark"
  \/ a = "unmark" /\ b = "clear"
  \/ a = "reject" /\ b = "recover"
  \/ a = "putOrig" /\ b = "unmarkRec"
  \/ a = "snapshot" /\ b = "mark"
  \/ a = "mark" /\ b = "writeTemp"
  \/ a = "writeTemp" /\ b = "begin"
  \/ a = "kill" /\ b \in {"exit", "end"}
  \/ a \in {"begin", "exit", "load", "save"} /\ b = "end"

Steps == {"restore", "clear", "recover", "unmarkRec", "putBack", "unmark", "reject", "putOrig",
          "snapshot", "mark", "writeTemp", "kill", "begin", "exit", "load", "save"}

FirstOf(q) == IF q = <<>> THEN "end" ELSE Head(q)
NextOf(q, i) == IF i < Len(q) THEN q[i + 1] ELSE "end"

Linked(q) == q \in Seq(Steps) /\ \A i \in 1..Len(q) : MayFollow(q[i], NextOf(q, i))

\* What is left of a linked list is linked.
LEMMA LinkedSkip ==
  ASSUME NEW q, Linked(q), NEW n \in 1..Len(q)
  PROVE  /\ Linked(SubSeq(q, n + 1, Len(q)))
         /\ FirstOf(SubSeq(q, n + 1, Len(q))) = NextOf(q, n)
<1> DEFINE t == SubSeq(q, n + 1, Len(q))
<1>1. q \in Seq(Steps) /\ Len(q) \in Nat /\ \A i \in 1..Len(q) : q[i] \in Steps
  BY LenProperties, ElementOfSeq DEF Linked
<1>2. /\ t \in Seq(Steps) /\ Len(t) = Len(q) - n
      /\ \A i \in 1..Len(t) : t[i] = q[n + i]
  <2>1. \A i \in (n + 1)..Len(q) : q[i] \in Steps
    BY <1>1
  <2>2. /\ t \in Seq(Steps)
        /\ Len(t) = IF n + 1 <= Len(q) THEN Len(q) - (n + 1) + 1 ELSE 0
        /\ \A i \in 1..(Len(q) - (n + 1) + 1) : t[i] = q[(n + 1) + i - 1]
    BY <2>1, <1>1, SubSeqProperties
  <2> HIDE DEF t
  <2> QED
    BY <2>2, <1>1
<1> HIDE DEF t
<1>3. ASSUME NEW i \in 1..Len(t) PROVE MayFollow(t[i], NextOf(t, i))
  <2>1. n + i \in 1..Len(q) /\ t[i] = q[n + i]
    BY <1>1, <1>2
  <2>2. NextOf(t, i) = NextOf(q, n + i)
    BY <1>1, <1>2 DEF NextOf
  <2> QED
    BY <2>1, <2>2 DEF Linked
<1>4. FirstOf(t) = NextOf(q, n)
  <2>1. CASE t = <<>>
    <3>1. Len(t) = 0
      BY <2>1
    <3> QED
      BY <2>1, <3>1, <1>1, <1>2 DEF FirstOf, NextOf
  <2>2. CASE t # <<>>
    <3>1. Len(t) \in Nat \ {0}
      BY <2>2, <1>2, EmptySeq
    <3>2. Head(t) = t[1]
      OBVIOUS
    <3> QED
      BY <2>2, <3>1, <3>2, <1>1, <1>2 DEF FirstOf, NextOf
  <2> QED
    BY <2>1, <2>2
<1> QED
  BY <1>2, <1>3, <1>4 DEF Linked, t

\* The rest of a linked list is linked and follows its head.
LEMMA LinkedTail ==
  ASSUME NEW q, Linked(q), q # <<>>
  PROVE  /\ Linked(Tail(q)) /\ MayFollow(Head(q), FirstOf(Tail(q)))
         /\ Head(q) = q[1] /\ 1 \in 1..Len(q)
<1>1. q \in Seq(Steps) /\ Len(q) \in Nat \ {0} /\ Head(q) = q[1]
  BY EmptySeq DEF Linked
<1>2. Tail(q) = SubSeq(q, 1 + 1, Len(q))
  BY <1>1, TailIsSubSeq
<1>3. 1 \in 1..Len(q)
  BY <1>1
<1>4. Linked(Tail(q)) /\ FirstOf(Tail(q)) = NextOf(q, 1)
  BY <1>2, <1>3, LinkedSkip
<1>5. MayFollow(q[1], NextOf(q, 1))
  BY <1>3 DEF Linked
<1> QED
  BY <1>1, <1>3, <1>4, <1>5

\* Operations put before a linked list they lead to.
LEMMA LinkedConcat ==
  ASSUME NEW t, Linked(t), NEW s \in Seq(Steps), s # <<>>,
         \A i \in 1..(Len(s) - 1) : MayFollow(s[i], s[i + 1]),
         MayFollow(s[Len(s)], FirstOf(t))
  PROVE  Linked(s \o t) /\ FirstOf(s \o t) = s[1] /\ s \o t # <<>>
<1> DEFINE q == s \o t
           n == Len(s)
<1>1. t \in Seq(Steps) /\ Len(t) \in Nat /\ n \in Nat \ {0}
  BY LenProperties, EmptySeq DEF Linked
<1>2. /\ q \in Seq(Steps) /\ Len(q) = n + Len(t)
      /\ \A i \in 1..n : q[i] = s[i]
      /\ \A i \in 1..Len(t) : q[n + i] = t[i]
  <2>1. /\ q \in Seq(Steps) /\ Len(q) = n + Len(t)
        /\ \A i \in 1..(n + Len(t)) : q[i] = IF i <= n THEN s[i] ELSE t[i - n]
    BY <1>1, ConcatProperties
  <2> HIDE DEF q, n
  <2>2. ASSUME NEW i \in 1..n PROVE q[i] = s[i]
    BY <1>1, <2>1
  <2>3. ASSUME NEW i \in 1..Len(t) PROVE q[n + i] = t[i]
    <3>1. n + i \in 1..(n + Len(t)) /\ ~(n + i <= n) /\ (n + i) - n = i
      BY <1>1
    <3> QED
      BY <2>1, <3>1
  <2> QED
    BY <2>1, <2>2, <2>3
<1> HIDE DEF q, n
<1>3. q # <<>> /\ FirstOf(q) = s[1]
  <2>1. q # <<>>
    BY <1>1, <1>2
  <2> QED
    BY <2>1, <1>1, <1>2 DEF FirstOf
<1>4. ASSUME NEW i \in 1..Len(q) PROVE MayFollow(q[i], NextOf(q, i))
  <2>1. CASE i < n
    <3>1. q[i] = s[i] /\ NextOf(q, i) = s[i + 1]
      BY <2>1, <1>1, <1>2 DEF NextOf
    <3> QED
      BY <3>1, <2>1, <1>1 DEF n
  <2>2. CASE i = n
    <3>1. NextOf(q, n) = FirstOf(t)
      <4>1. CASE t = <<>>
        BY <4>1, <1>1, <1>2 DEF NextOf, FirstOf
      <4>2. CASE t # <<>>
        <5>1. Len(t) \in Nat \ {0}
          BY <4>2, <1>1, EmptySeq
        <5>2. Head(t) = t[1]
          OBVIOUS
        <5> QED
          BY <4>2, <5>1, <5>2, <1>1, <1>2 DEF NextOf, FirstOf
      <4> QED
        BY <4>1, <4>2
    <3> QED
      BY <2>2, <3>1, <1>1, <1>2 DEF n
  <2>3. CASE i > n
    <3> DEFINE j == i - n
    <3>1. j \in 1..Len(t) /\ i = n + j
      BY <2>3, <1>1, <1>2
    <3> HIDE DEF j
    <3>2. q[i] = t[j]
      BY <3>1, <1>2
    <3>3. NextOf(q, i) = NextOf(t, j)
      <4>1. CASE j < Len(t)
        <5>1. j + 1 \in 1..Len(t) /\ i + 1 = n + (j + 1) /\ i < Len(q)
          BY <4>1, <3>1, <1>1, <1>2
        <5>2. q[i + 1] = t[j + 1]
          BY <5>1, <1>2
        <5> QED
          BY <4>1, <5>1, <5>2 DEF NextOf
      <4>2. CASE j = Len(t)
        BY <4>2, <3>1, <1>1, <1>2 DEF NextOf
      <4> QED
        BY <4>1, <4>2, <3>1, <1>1
    <3> QED
      BY <3>1, <3>2, <3>3 DEF Linked
  <2> QED
    BY <2>1, <2>2, <2>3, <1>1
<1> QED
  BY <1>2, <1>3, <1>4 DEF Linked, q

---------------------------------------------------------------------------
(* The inductive invariant. *)

Same(v) == FamilyOf(v) = FamilyOf(pref)

\* What the operations done so far have established for the next one.
StepInv ==
  LET next == FirstOf(ops) IN
  /\ next \in {"putBack", "unmark", "clear"} => Active
  /\ next \in {"recover", "putOrig", "unmarkRec", "snapshot", "mark", "writeTemp", "begin", "save"}
       => ~Active
  /\ next = "putBack" => Same(ov.prev)
  /\ next \in {"unmark", "unmarkRec"} => Same(ini)
  /\ next = "putOrig" => marker # NoMarker /\ Same(marker.orig)
  /\ next \in {"snapshot", "mark", "save"} => marker = NoMarker
  /\ next = "load" => Active \/ marker = NoMarker
  /\ next = "mark" => pend.prev = ini
  /\ next \in {"writeTemp", "begin"} => marker = MarkerFor(pend) /\ Same(pend.prev)

\* What the marker on disk means, and that an active override is the one it
\* describes.
MarkerInv ==
  /\ MarkerGuardsPreference
  /\ marker # NoMarker /\ ini = marker.exp => Same(marker.orig)
  /\ Active /\ FirstOf(ops) # "clear" => marker = [orig |-> ov.prev, exp |-> ov.written]
  /\ OverrideKeepsPreference

AckInv ==
  /\ AckIsOwnListener
  /\ slot.serial > 0 => <<slot.family, slot.port>> \in said
  /\ start \in {"prepared", "written"} => ov.state # "Stabilizing"

Slots == [serial : Nat, family : Families \cup {Absent}, port : Nat, pid : Nat]
Overrides == [state : {"Inactive", "AwaitingListener", "Stabilizing"}, prev : Values,
              written : Families, cand : Slots, mature : BOOLEAN]
Stages == {"none", "preparing", "prepared", "written", "running", "ended"}
Pendings == [prev : Values, written : Families]
Editors == [open : BOOLEAN, keep : Values]

RecordTypes ==
  /\ ov \in Overrides
  /\ pend \in Pendings
  /\ slot \in Slots
  /\ editor \in Editors
  /\ helper \in Nat

IInv == ProtocolTypeOK /\ RecordTypes /\ Linked(ops) /\ StepInv /\ MarkerInv /\ AckInv

---------------------------------------------------------------------------
(* How the list changes. *)

\* The head of the list is what At says.
LEMMA AtFirst == ASSUME NEW e \in Steps PROVE At(e) <=> FirstOf(ops) = e
BY DEF At, FirstOf, Steps

\* The plans the operations begin with.
LEMMA Plans ==
  /\ Linked(<<>>) /\ FirstOf(<<>>) = "end"
  /\ Linked(PrepareSteps) /\ FirstOf(PrepareSteps) = "restore"
  /\ Linked(<<"restore">>) /\ FirstOf(<<"restore">>) = "restore"
  /\ Linked(<<"restore", "restore">>) /\ FirstOf(<<"restore", "restore">>) = "restore"
  /\ Linked(<<"restore", "kill">>) /\ FirstOf(<<"restore", "kill">>) = "restore"
  /\ Linked(<<"restore", "kill", "exit">>) /\ FirstOf(<<"restore", "kill", "exit">>) = "restore"
  /\ Linked(<<"recover">>) /\ FirstOf(<<"recover">>) = "recover"
  /\ \A e \in {"load", "save"} : /\ Linked(<<e>>) /\ FirstOf(<<e>>) = e
                                 /\ Linked(<<"recover", e>>) /\ FirstOf(<<"recover", e>>) = "recover"
BY DEF Linked, FirstOf, NextOf, MayFollow, Steps, AfterRestore, AfterRecover, PrepareSteps

\* An operation is done, and the next of the list comes.
LEMMA ThenNext ==
  ASSUME Linked(ops), NEW e \in Steps, At(e), Then(<<>>)
  PROVE  Linked(ops') /\ MayFollow(e, FirstOf(ops'))
<1>1. ops # <<>> /\ Head(ops) = e
  BY DEF At
<1>2. Linked(Tail(ops)) /\ MayFollow(e, FirstOf(Tail(ops)))
  BY <1>1, LinkedTail
<1>3. ops' = Tail(ops)
  BY <1>2, ConcatEmptySeq DEF Then, Linked
<1> QED
  BY <1>2, <1>3

\* Restore and recovery put their operations before what follows.
LEMMA ThenRestore ==
  ASSUME Linked(ops), At("restore"), Then(RestoreSteps)
  PROVE  Linked(ops') /\ FirstOf(ops') = IF ini # ov.written THEN "unmark" ELSE "putBack"
<1>1. Linked(Tail(ops)) /\ MayFollow("restore", FirstOf(Tail(ops)))
  BY LinkedTail DEF At
<1>2. MayFollow("clear", FirstOf(Tail(ops)))
  BY <1>1 DEF MayFollow
<1>3. CASE ini # ov.written
  <2> DEFINE s == <<"unmark", "clear">>
  <2>1. s \in Seq(Steps) /\ s # <<>> /\ Len(s) = 2 /\ s[1] = "unmark" /\ s[2] = "clear"
    BY DEF Steps
  <2>2. RestoreSteps = s
    BY <1>3 DEF RestoreSteps
  <2> HIDE DEF s
  <2>3. \A i \in 1..(Len(s) - 1) : MayFollow(s[i], s[i + 1])
    BY <2>1 DEF MayFollow
  <2>4. MayFollow(s[Len(s)], FirstOf(Tail(ops)))
    BY <2>1, <1>2
  <2>5. Linked(s \o Tail(ops)) /\ FirstOf(s \o Tail(ops)) = s[1]
    BY <2>1, <2>3, <2>4, <1>1, LinkedConcat
  <2> QED
    BY <2>1, <2>2, <2>5, <1>3 DEF Then
<1>4. CASE ini = ov.written
  <2> DEFINE s == <<"putBack", "unmark", "clear">>
  <2>1. /\ s \in Seq(Steps) /\ s # <<>> /\ Len(s) = 3
        /\ s[1] = "putBack" /\ s[2] = "unmark" /\ s[3] = "clear"
    BY DEF Steps
  <2>2. RestoreSteps = s
    BY <1>4 DEF RestoreSteps
  <2> HIDE DEF s
  <2>3. \A i \in 1..(Len(s) - 1) : MayFollow(s[i], s[i + 1])
    BY <2>1 DEF MayFollow
  <2>4. MayFollow(s[Len(s)], FirstOf(Tail(ops)))
    BY <2>1, <1>2
  <2>5. Linked(s \o Tail(ops)) /\ FirstOf(s \o Tail(ops)) = s[1]
    BY <2>1, <2>3, <2>4, <1>1, LinkedConcat
  <2> QED
    BY <2>1, <2>2, <2>5, <1>4 DEF Then
<1> QED
  BY <1>3, <1>4

LEMMA ThenRecover ==
  ASSUME Linked(ops), At("recover"), Then(RecoverSteps)
  PROVE  Linked(ops') /\ FirstOf(ops') = IF ini = marker.exp THEN "putOrig" ELSE "unmarkRec"
<1>1. Linked(Tail(ops)) /\ MayFollow("recover", FirstOf(Tail(ops)))
  BY LinkedTail DEF At
<1>2. MayFollow("unmarkRec", FirstOf(Tail(ops)))
  BY <1>1 DEF MayFollow
<1>3. CASE ini # marker.exp
  <2> DEFINE s == <<"unmarkRec">>
  <2>1. s \in Seq(Steps) /\ s # <<>> /\ Len(s) = 1 /\ s[1] = "unmarkRec"
    BY DEF Steps
  <2>2. RecoverSteps = s
    BY <1>3 DEF RecoverSteps
  <2> HIDE DEF s
  <2>3. \A i \in 1..(Len(s) - 1) : MayFollow(s[i], s[i + 1])
    BY <2>1
  <2>4. MayFollow(s[Len(s)], FirstOf(Tail(ops)))
    BY <2>1, <1>2
  <2>5. Linked(s \o Tail(ops)) /\ FirstOf(s \o Tail(ops)) = s[1]
    BY <2>1, <2>3, <2>4, <1>1, LinkedConcat
  <2> QED
    BY <2>1, <2>2, <2>5, <1>3 DEF Then
<1>4. CASE ini = marker.exp
  <2> DEFINE s == <<"putOrig", "unmarkRec">>
  <2>1. s \in Seq(Steps) /\ s # <<>> /\ Len(s) = 2 /\ s[1] = "putOrig" /\ s[2] = "unmarkRec"
    BY DEF Steps
  <2>2. RecoverSteps = s
    BY <1>4 DEF RecoverSteps
  <2> HIDE DEF s
  <2>3. \A i \in 1..(Len(s) - 1) : MayFollow(s[i], s[i + 1])
    BY <2>1 DEF MayFollow
  <2>4. MayFollow(s[Len(s)], FirstOf(Tail(ops)))
    BY <2>1, <1>2
  <2>5. Linked(s \o Tail(ops)) /\ FirstOf(s \o Tail(ops)) = s[1]
    BY <2>1, <2>3, <2>4, <1>1, LinkedConcat
  <2> QED
    BY <2>1, <2>2, <2>5, <1>4 DEF Then
<1> QED
  BY <1>3, <1>4

\* A restore that fails leaves its remaining operations out.
LEMMA SkipRest ==
  ASSUME Linked(ops), (At("putBack") /\ Skip(3)) \/ (At("unmark") /\ Skip(2))
  PROVE  Linked(ops') /\ FirstOf(ops') \in AfterRestore
<1>1. ops # <<>> /\ 1 \in 1..Len(ops) /\ Head(ops) = ops[1] /\ Len(ops) \in Nat
  BY LinkedTail, LenProperties DEF At, Linked
<1>2. ASSUME NEW i \in 1..Len(ops), ops[i] \in {"putBack", "unmark"}
      PROVE  /\ i + 1 \in 1..Len(ops)
             /\ ops[i + 1] = IF ops[i] = "putBack" THEN "unmark" ELSE "clear"
  <2>1. MayFollow(ops[i], NextOf(ops, i))
    BY DEF Linked
  <2>2. NextOf(ops, i) = IF ops[i] = "putBack" THEN "unmark" ELSE "clear"
    BY <2>1, <1>2 DEF MayFollow
  <2> QED
    BY <2>2, <1>1 DEF NextOf
<1>3. ASSUME NEW n \in 1..Len(ops), ops[n] = "clear", Skip(n)
      PROVE  Linked(ops') /\ FirstOf(ops') \in AfterRestore
  <2>1. Linked(ops') /\ FirstOf(ops') = NextOf(ops, n)
    BY <1>3, LinkedSkip DEF Skip
  <2>2. MayFollow("clear", NextOf(ops, n))
    BY <1>3 DEF Linked
  <2> QED
    BY <2>1, <2>2 DEF MayFollow
<1>4. CASE At("putBack") /\ Skip(3)
  <2>1. ops[1] = "putBack"
    BY <1>1, <1>4 DEF At
  <2>2. 2 \in 1..Len(ops) /\ ops[2] = "unmark"
    BY <1>1, <2>1, <1>2
  <2>3. 3 \in 1..Len(ops) /\ ops[3] = "clear"
    BY <2>2, <1>2
  <2> QED
    BY <2>3, <1>3, <1>4
<1>5. CASE At("unmark") /\ Skip(2)
  <2>1. ops[1] = "unmark"
    BY <1>1, <1>5 DEF At
  <2>2. 2 \in 1..Len(ops) /\ ops[2] = "clear"
    BY <1>1, <2>1, <1>2
  <2> QED
    BY <2>2, <1>3, <1>5
<1> QED
  BY <1>4, <1>5

---------------------------------------------------------------------------
(* Every step keeps the invariant. *)

\* Steps that leave the files, the preference and the override's values
\* alone: those that leave the list alone too, and those that begin or
\* shorten a list in which nothing is under way.
OverrideStays == Active' = Active /\ ov'.prev = ov.prev /\ ov'.written = ov.written

LEMMA Undisturbed ==
  ASSUME UNCHANGED <<ini, marker, pref, pend, ops>>, OverrideStays,
         Linked(ops), StepInv, MarkerInv
  PROVE  Linked(ops') /\ StepInv' /\ MarkerInv'
BY DEF OverrideStays, StepInv, MarkerInv, MarkerGuardsPreference, OverrideKeepsPreference, Same,
       MarkerFor, Linked, NextOf

LEMMA NewPlan ==
  ASSUME UNCHANGED <<ini, marker, pref>>, OverrideStays, MarkerInv,
         FirstOf(ops') \in {"end", "restore", "kill", "exit"}, FirstOf(ops) # "clear"
  PROVE  StepInv' /\ MarkerInv'
BY DEF OverrideStays, StepInv, MarkerInv, MarkerGuardsPreference, OverrideKeepsPreference, Same

\* The operations on the files, one by one.
LEMMA FileStepKeeps ==
  ASSUME ProtocolTypeOK, RecordTypes, Linked(ops), StepInv, MarkerInv, FileStep
  PROVE  Linked(ops') /\ StepInv' /\ MarkerInv'
<1> DEFINE Goal == Linked(ops') /\ StepInv' /\ MarkerInv'
           next == FirstOf(ops)
<1> USE DEF MarkerGuardsPreference, OverrideKeepsPreference, Same, Active, Steps, MayFollow,
            AfterRestore, AfterRecover, file, mail
<1>1. CASE Restore
  <2>1. At("restore") /\ next = "restore" /\ UNCHANGED <<ini, marker, ov, pref, pend>>
    BY <1>1, AtFirst DEF Restore
  <2>2. CASE Active /\ Then(RestoreSteps)
    <3>1. Linked(ops') /\ FirstOf(ops') = IF ini # ov.written THEN "unmark" ELSE "putBack"
      BY <2>1, <2>2, ThenRestore
    <3> QED
      BY <2>1, <2>2, <3>1 DEF StepInv, MarkerInv
  <2>3. CASE Then(<<>>)
    <3>1. Linked(ops') /\ FirstOf(ops') \in AfterRestore
      BY <2>1, <2>3, ThenNext
    <3> QED
      BY <2>1, <3>1 DEF StepInv, MarkerInv
  <2> QED
    BY <1>1, <2>2, <2>3 DEF Restore
<1>2. CASE PutBack
  <2>1. At("putBack") /\ next = "putBack" /\ UNCHANGED <<marker, ov, pref, pend>>
    BY <1>2, AtFirst DEF PutBack
  <2>2. CASE ini' = ov.prev /\ Then(<<>>)
    <3>1. Linked(ops') /\ FirstOf(ops') = "unmark"
      BY <2>1, <2>2, ThenNext
    <3> QED
      BY <2>1, <2>2, <3>1 DEF StepInv, MarkerInv
  <2>3. CASE ini' \in {ini, ov.prev} /\ Skip(3)
    <3>1. Linked(ops') /\ FirstOf(ops') \in AfterRestore
      BY <2>1, <2>3, SkipRest
    <3>2. Active /\ Same(ov.prev) /\ marker = [orig |-> ov.prev, exp |-> ov.written]
      BY <2>1 DEF StepInv, MarkerInv
    <3>3. StepInv'
      BY <3>1 DEF StepInv
    <3>4. MarkerInv'
      BY <2>1, <2>3, <3>1, <3>2 DEF MarkerInv
    <3> QED
      BY <3>1, <3>3, <3>4
  <2> QED
    BY <1>2, <2>2, <2>3 DEF PutBack, WriteOk, WriteFails
<1>3. CASE Unmark
  <2>1. At("unmark") /\ next = "unmark" /\ UNCHANGED <<ini, ov, pref, pend>>
    BY <1>3, AtFirst DEF Unmark
  <2>2. CASE marker' = NoMarker /\ Then(<<>>)
    <3>1. Linked(ops') /\ FirstOf(ops') = "clear"
      BY <2>1, <2>2, ThenNext
    <3> QED
      BY <2>1, <2>2, <3>1 DEF StepInv, MarkerInv
  <2>3. CASE marker' = marker /\ Skip(2)
    <3>1. Linked(ops') /\ FirstOf(ops') \in AfterRestore
      BY <2>1, <2>3, SkipRest
    <3> QED
      BY <2>1, <2>3, <3>1 DEF StepInv, MarkerInv
  <2> QED
    BY <1>3, <2>2, <2>3 DEF Unmark, RemoveMarkerOk
<1>4. CASE Clear
  <2>1. At("clear") /\ next = "clear" /\ UNCHANGED <<ini, marker, pref, pend>> /\ ~Active'
    BY <1>4, AtFirst DEF Clear, Inactive
  <2>2. Linked(ops') /\ FirstOf(ops') \in AfterRestore
    BY <1>4, <2>1, ThenNext DEF Clear
  <2> QED
    BY <2>1, <2>2 DEF StepInv, MarkerInv
<1>5. CASE Recover
  <2>1. At("recover") /\ next = "recover" /\ UNCHANGED <<ini, marker, ov, pref, pend>>
    BY <1>5, AtFirst DEF Recover
  <2>2. CASE marker # NoMarker /\ Then(RecoverSteps)
    <3>1. Linked(ops') /\ FirstOf(ops') = IF ini = marker.exp THEN "putOrig" ELSE "unmarkRec"
      BY <2>1, <2>2, ThenRecover
    <3> QED
      BY <2>1, <2>2, <3>1 DEF StepInv, MarkerInv
  <2>3. CASE marker = NoMarker /\ Then(<<>>)
    <3>1. Linked(ops') /\ FirstOf(ops') \in AfterRecover
      BY <2>1, <2>3, ThenNext
    <3> QED
      BY <2>1, <2>3, <3>1 DEF StepInv, MarkerInv
  <2>4. CASE ops' = <<>>
    BY <2>1, <2>4, Plans DEF StepInv, MarkerInv
  <2> QED
    BY <1>5, <2>2, <2>3, <2>4 DEF Recover
<1>6. CASE PutOrig
  <2>1. At("putOrig") /\ next = "putOrig" /\ UNCHANGED <<marker, ov, pref, pend>>
    BY <1>6, AtFirst DEF PutOrig
  <2>2. CASE ini' = marker.orig /\ Then(<<>>)
    <3>1. Linked(ops') /\ FirstOf(ops') = "unmarkRec"
      BY <2>1, <2>2, ThenNext
    <3> QED
      BY <2>1, <2>2, <3>1 DEF StepInv, MarkerInv
  <2>3. CASE ini' \in {ini, marker.orig} /\ ops' = <<>>
    BY <2>1, <2>3, Plans DEF StepInv, MarkerInv
  <2> QED
    BY <1>6, <2>2, <2>3 DEF PutOrig, WriteOk, WriteFails
<1>7. CASE UnmarkRecovered
  <2>1. At("unmarkRec") /\ next = "unmarkRec" /\ UNCHANGED <<ini, ov, pref, pend>>
    BY <1>7, AtFirst DEF UnmarkRecovered
  <2>2. CASE marker' = NoMarker /\ Then(<<>>)
    <3>1. Linked(ops') /\ FirstOf(ops') \in AfterRecover
      BY <2>1, <2>2, ThenNext
    <3> QED
      BY <2>1, <2>2, <3>1 DEF StepInv, MarkerInv
  <2>3. CASE marker' = marker /\ ops' = <<>>
    BY <2>1, <2>3, Plans DEF StepInv, MarkerInv
  <2> QED
    BY <1>7, <2>2, <2>3 DEF UnmarkRecovered, RemoveMarkerOk
<1>8. CASE RejectIfActive
  <2>1. At("reject") /\ next = "reject" /\ UNCHANGED <<ini, marker, ov, pref, pend>>
    BY <1>8, AtFirst DEF RejectIfActive
  <2>2. CASE Active /\ ops' = <<>>
    BY <2>1, <2>2, Plans DEF StepInv, MarkerInv
  <2>3. CASE ~Active /\ Then(<<>>)
    <3>1. Linked(ops') /\ FirstOf(ops') = "recover"
      BY <2>1, <2>3, ThenNext
    <3> QED
      BY <2>1, <2>3, <3>1 DEF StepInv, MarkerInv
  <2> QED
    BY <1>8, <2>2, <2>3 DEF RejectIfActive
<1>9. CASE Snapshot
  <2>1. At("snapshot") /\ next = "snapshot" /\ UNCHANGED <<ini, marker, ov, pref>>
    BY <1>9, AtFirst DEF Snapshot
  <2>2. CASE pend' = [pend EXCEPT !.prev = ini] /\ Then(<<>>)
    <3>1. Linked(ops') /\ FirstOf(ops') = "mark"
      BY <2>1, <2>2, ThenNext
    <3>2. pend'.prev = ini
      BY <2>2 DEF RecordTypes, Pendings
    <3> QED
      BY <2>1, <2>2, <3>1, <3>2 DEF StepInv, MarkerInv
  <2>3. CASE ops' = <<>>
    BY <2>1, <2>3, Plans DEF StepInv, MarkerInv
  <2> QED
    BY <1>9, <2>2, <2>3 DEF Snapshot
<1>10. CASE WriteMarker
  <2>1. At("mark") /\ next = "mark" /\ UNCHANGED <<ini, ov, pref, pend>>
    BY <1>10, AtFirst DEF WriteMarker
  <2>2. CASE marker' = MarkerFor(pend) /\ Then(<<>>)
    <3>1. Linked(ops') /\ FirstOf(ops') = "writeTemp"
      BY <2>1, <2>2, ThenNext
    <3> QED
      BY <2>1, <2>2, <3>1 DEF StepInv, MarkerInv, MarkerFor
  <2>3. CASE marker' = marker /\ ops' = <<>>
    BY <2>1, <2>3, Plans DEF StepInv, MarkerInv
  <2> QED
    BY <1>10, <2>2, <2>3 DEF WriteMarker
<1>11. CASE WriteTemporary
  <2>1. At("writeTemp") /\ next = "writeTemp" /\ UNCHANGED <<marker, ov, pref, pend>>
    BY <1>11, AtFirst DEF WriteTemporary
  <2>0. MarkerFor(pend) # NoMarker /\ MarkerFor(pend).exp = pend.written /\ MarkerFor(pend).orig = pend.prev
    BY DEF MarkerFor, NoMarker, RecordTypes, Pendings, Families
  <2>2. CASE ini' = pend.written /\ Then(<<>>)
    <3>1. Linked(ops') /\ FirstOf(ops') = "begin"
      BY <2>1, <2>2, ThenNext
    <3> QED
      BY <2>0, <2>1, <2>2, <3>1 DEF StepInv, MarkerInv
  <2>3. CASE ini' \in {ini, pend.written} /\ ops' = <<"recover">>
    BY <2>0, <2>1, <2>3, Plans DEF StepInv, MarkerInv
  <2> QED
    BY <1>11, <2>2, <2>3 DEF WriteTemporary, WriteOk, WriteFails
<1>12. CASE Begin
  <2>1. At("begin") /\ next = "begin" /\ UNCHANGED <<ini, marker, pref, pend>>
    BY <1>12, AtFirst DEF Begin
  <2>2. Linked(ops') /\ FirstOf(ops') = "end"
    BY <1>12, <2>1, ThenNext DEF Begin
  <2>3. ov'.prev = pend.prev /\ ov'.written = pend.written
    BY <1>12 DEF Begin
  <2>4. marker = [orig |-> pend.prev, exp |-> pend.written] /\ Same(pend.prev)
    BY <2>1 DEF StepInv, MarkerFor
  <2> QED
    BY <2>1, <2>2, <2>3, <2>4 DEF StepInv, MarkerInv
<1>13. CASE KillHelper
  <2>1. At("kill") /\ next = "kill" /\ UNCHANGED <<ini, marker, ov, pref, pend>>
    BY <1>13, AtFirst DEF KillHelper
  <2>2. Linked(ops') /\ FirstOf(ops') \in {"exit", "end"}
    BY <1>13, <2>1, ThenNext DEF KillHelper
  <2> QED
    BY <2>1, <2>2, NewPlan DEF OverrideStays
<1>14. CASE Exit
  <2>1. ops' = <<>> /\ ~Active' /\ UNCHANGED <<ini, marker, pref>>
    BY <1>14 DEF Exit, GameGone, Inactive
  <2> QED
    BY <2>1, Plans DEF StepInv, MarkerInv
<1>15. CASE LoadItemsFromIni
  <2>1. At("load") /\ next = "load" /\ UNCHANGED <<ini, marker, ov, pref, pend>>
    BY <1>15, AtFirst DEF LoadItemsFromIni
  <2>2. Linked(ops') /\ FirstOf(ops') = "end"
    BY <1>15, <2>1, ThenNext DEF LoadItemsFromIni
  <2> QED
    BY <2>1, <2>2, NewPlan DEF OverrideStays
<1>16. CASE SaveItemsToDisk
  <2>1. At("save") /\ next = "save" /\ UNCHANGED <<marker, ov, pend>>
    BY <1>16, AtFirst DEF SaveItemsToDisk
  <2>2. Linked(ops') /\ FirstOf(ops') = "end"
    BY <1>16, <2>1, ThenNext DEF SaveItemsToDisk
  <2>3. ini' = pref' \/ UNCHANGED <<ini, pref>>
    BY <1>16 DEF SaveItemsToDisk
  <2> QED
    BY <2>1, <2>2, <2>3 DEF StepInv, MarkerInv
<1> QED
  BY <1>1, <1>2, <1>3, <1>4, <1>5, <1>6, <1>7, <1>8, <1>9, <1>10, <1>11, <1>12, <1>13, <1>14,
     <1>15, <1>16 DEF FileStep

\* Every other step of the system.
LEMMA OtherStepKeeps ==
  ASSUME ProtocolTypeOK, RecordTypes, Linked(ops), StepInv, MarkerInv, [ProtocolNext]_protocolVars, ~FileStep
  PROVE  Linked(ops') /\ StepInv' /\ MarkerInv'
<1> DEFINE Goal == Linked(ops') /\ StepInv' /\ MarkerInv'
<1> USE DEF file, mail
<1>0. Idle => FirstOf(ops) = "end" /\ FirstOf(ops) # "clear"
  BY DEF Idle, FirstOf
<1>1. ASSUME NEW f \in Families, StartSession(f) PROVE Goal
  <2>1. Idle /\ UNCHANGED <<ini, marker, pref, ov>> /\ ops' = PrepareSteps
    BY <1>1 DEF StartSession
  <2> QED
    BY <1>0, <2>1, Plans, NewPlan DEF OverrideStays, Active
<1>2. CASE PrepareFailed
  BY <1>2, Undisturbed DEF PrepareFailed, OverrideStays, Active
<1>3. CASE WriteIni
  <2>1. Idle /\ UNCHANGED <<ini, marker, pref, ov, pend>>
    BY <1>3 DEF WriteIni
  <2>2. CASE UNCHANGED ops
    BY <2>1, <2>2, Undisturbed DEF OverrideStays, Active
  <2>3. CASE ops' \in {<<"restore">>, <<"restore", "restore">>}
    BY <1>0, <2>1, <2>3, Plans, NewPlan DEF OverrideStays, Active
  <2> QED
    BY <1>3, <2>2, <2>3 DEF WriteIni
<1>4. CASE LaunchHelper
  <2>1. UNCHANGED <<ini, marker, pref, ov, pend>>
    BY <1>4 DEF LaunchHelper
  <2>2. CASE UNCHANGED ops
    BY <2>1, <2>2, Undisturbed DEF OverrideStays, Active
  <2>3. CASE Idle /\ ops' = <<"restore">>
    BY <1>0, <2>1, <2>3, Plans, NewPlan DEF OverrideStays, Active
  <2> QED
    BY <1>4, <2>2, <2>3 DEF LaunchHelper
<1>5. ASSUME NEW f \in Families, NEW p \in {Port, OtherPort}, HelperListens(f, p) PROVE Goal
  BY <1>5, Undisturbed DEF HelperListens, OverrideStays, Active
<1>6. ASSUME NEW handoff \in BOOLEAN, HandleListenerAck(handoff) PROVE Goal
  <2>1. Idle /\ Active /\ UNCHANGED <<ini, marker, pref, pend>>
    BY <1>6 DEF HandleListenerAck
  <2>2. OverrideStays
    <3>1. \/ ov' = [ov EXCEPT !.state = "AwaitingListener", !.cand = NoSlot, !.mature = FALSE]
          \/ ov' = ov
          \/ ov' = [ov EXCEPT !.state = "Stabilizing", !.cand = slot, !.mature = FALSE]
      BY <1>6 DEF HandleListenerAck
    <3> QED
      BY <2>1, <3>1 DEF OverrideStays, Active, RecordTypes, Overrides
  <2>3. ops' = ops \/ ops' = <<"restore">> \/ ops' = <<>>
    BY <1>6 DEF HandleListenerAck
  <2>4. CASE ops' = ops
    BY <2>1, <2>2, <2>4, Undisturbed
  <2>5. CASE ops' = <<"restore">> \/ ops' = <<>>
    BY <1>0, <2>1, <2>2, <2>5, Plans, NewPlan
  <2> QED
    BY <2>3, <2>4, <2>5
<1>7. CASE CandidateMatures
  <2>1. OverrideStays
    BY <1>7 DEF CandidateMatures, OverrideStays, Active, RecordTypes, Overrides
  <2> QED
    BY <1>7, <2>1, Undisturbed DEF CandidateMatures
<1>8. CASE HelperExits
  BY <1>8, Undisturbed DEF HelperExits, OverrideStays, Active
<1>9. CASE TickRestores \/ CancelSession \/ ShutdownHost
  <2>1. Idle /\ UNCHANGED <<ini, marker, pref, ov>>
    BY <1>9 DEF TickRestores, CancelSession, ShutdownHost
  <2>2. \/ ops' = <<"restore">> \/ ops' = <<"restore", "kill">> \/ ops' = <<"restore", "kill", "exit">>
    BY <1>9 DEF TickRestores, CancelSession, ShutdownHost
  <2> QED
    BY <1>0, <2>1, <2>2, Plans, NewPlan DEF OverrideStays, Active
<1>10. CASE Crash
  <2>1. ops' = <<>> /\ ~Active' /\ UNCHANGED <<ini, marker, pref>>
    BY <1>10 DEF Crash, GameGone, Inactive, Active
  <2> QED
    BY <2>1, Plans
    DEF StepInv, MarkerInv, MarkerGuardsPreference, OverrideKeepsPreference, Same
<1>11. CASE InitializeHost
  <2>1. ~Active /\ Idle /\ ops' = <<"recover">> /\ UNCHANGED <<ini, marker, pref, ov>>
    BY <1>11 DEF InitializeHost, ProtocolTypeOK
  <2> QED
    BY <2>1, Plans
    DEF StepInv, MarkerInv, MarkerGuardsPreference, OverrideKeepsPreference, Same, Active
<1>12. CASE OpenOptions \/ SaveOptions
  <2>1. Idle /\ UNCHANGED <<ini, marker, pref, ov>>
    BY <1>12 DEF OpenOptions, SaveOptions
  <2>2. \/ Active /\ ops' = <<"load">>
        \/ ~Active /\ ops' = <<"recover", "load">>
        \/ ~Active /\ ops' = <<"recover", "save">>
    BY <1>12 DEF OpenOptions, SaveOptions, BeginOptionsIniAccess, MayWrite
  <2>3. Linked(ops') /\ FirstOf(ops') = IF Active THEN "load" ELSE "recover"
    BY <2>2, Plans
  <2> QED
    BY <1>0, <2>1, <2>3
    DEF StepInv, MarkerInv, MarkerGuardsPreference, OverrideKeepsPreference, Same, Active
<1>13. CASE CloseOptions
  BY <1>13, Undisturbed DEF CloseOptions, OverrideStays, Active
<1>14. ASSUME NEW v \in Values \ {Absent}, UserEdits(v) PROVE Goal
  <2>1. /\ Idle /\ UNCHANGED <<marker, ov, ops>> /\ ini' = v
        /\ pref' = IF marker # NoMarker /\ v = marker.exp THEN marker.orig ELSE v
    BY <1>14 DEF UserEdits
  <2>2. Active => marker = [orig |-> ov.prev, exp |-> ov.written] /\ marker # NoMarker
    <3>1. Active => marker = [orig |-> ov.prev, exp |-> ov.written]
      BY <1>0, <2>1 DEF MarkerInv
    <3> QED
      BY <3>1 DEF NoMarker, RecordTypes, Overrides, Families
  <2>3. Linked(ops') /\ FirstOf(ops') = "end"
    BY <1>0, <2>1
  <2>4. StepInv'
    BY <2>3 DEF StepInv
  <2>5. MarkerInv'
    BY <2>1, <2>2, <2>3
    DEF MarkerInv, MarkerGuardsPreference, OverrideKeepsPreference, Same, Active
  <2> QED
    BY <2>3, <2>4, <2>5
<1>15. CASE UNCHANGED protocolVars
  BY <1>15, Undisturbed DEF protocolVars, OverrideStays, Active
<1> QED
  BY <1>1, <1>2, <1>3, <1>4, <1>5, <1>6, <1>7, <1>8, <1>9, <1>10, <1>11, <1>12, <1>13, <1>14,
     <1>15 DEF ProtocolNext

\* A game that is gone has no operation under way and no override.
Gone == up \/ (ops = <<>> /\ ov.state = "Inactive")

LEMMA GoneKept ==
  ASSUME ProtocolTypeOK, [ProtocolNext]_protocolVars
  PROVE  Gone'
<1> USE DEF Gone
<1>0. Gone
  BY DEF ProtocolTypeOK, Idle, Active
<1>1. CASE FileStep
  <2>1. ops # <<>> /\ (up' = up \/ (ops' = <<>> /\ ov' = Inactive))
    BY <1>1 DEF FileStep, Restore, PutBack, Unmark, Clear, Recover, PutOrig, UnmarkRecovered,
       RejectIfActive, Snapshot, WriteMarker, WriteTemporary, Begin, KillHelper, Exit, GameGone,
       LoadItemsFromIni, SaveItemsToDisk, At
  <2> QED
    BY <1>0, <2>1 DEF Inactive
<1>2. CASE CandidateMatures
  BY <1>0, <1>2 DEF CandidateMatures
<1>3. CASE Crash
  BY <1>3 DEF Crash, GameGone, Inactive
<1>4. CASE InitializeHost
  BY <1>4 DEF InitializeHost
<1>5. ASSUME NEW f \in Families, NEW p \in {Port, OtherPort}, HelperListens(f, p) PROVE Gone'
  BY <1>0, <1>5 DEF HelperListens
<1>6. ASSUME NEW v \in Values \ {Absent}, UserEdits(v) PROVE Gone'
  BY <1>0, <1>6 DEF UserEdits
<1>7. CASE HelperExits \/ UNCHANGED protocolVars
  BY <1>0, <1>7 DEF HelperExits, protocolVars
<1>8. CASE \/ PrepareFailed \/ WriteIni \/ LaunchHelper \/ TickRestores \/ CancelSession \/ ShutdownHost
           \/ OpenOptions \/ SaveOptions \/ CloseOptions
  BY <1>8 DEF PrepareFailed, WriteIni, LaunchHelper, TickRestores, CancelSession, ShutdownHost,
     OpenOptions, SaveOptions, CloseOptions
<1>9. ASSUME NEW f \in Families, StartSession(f) PROVE Gone'
  BY <1>9 DEF StartSession
<1>10. ASSUME NEW handoff \in BOOLEAN, HandleListenerAck(handoff) PROVE Gone'
  BY <1>10 DEF HandleListenerAck
<1> QED
  BY <1>1, <1>2, <1>3, <1>4, <1>5, <1>6, <1>7, <1>8, <1>9, <1>10 DEF ProtocolNext

\* The state keeps its types.
Typed ==
  /\ ini \in Values /\ pref \in Values /\ marker \in Markers
  /\ start \in Stages
  /\ RecordTypes

LEMMA TypedAlways == ProtocolTypeOK /\ RecordTypes <=> Typed /\ Gone
BY DEF ProtocolTypeOK, RecordTypes, Typed, Gone, Stages, Idle, Active, Overrides, Slots

LEMMA TypedKept ==
  ASSUME Typed, [ProtocolNext]_protocolVars
  PROVE  Typed'
<1> USE DEF file, mail, Typed, RecordTypes
<1>1. Typed
  OBVIOUS
<1>2. /\ Absent \in Values /\ IPv4 \in Families /\ Families \subseteq Values
      /\ Stages = {"none", "preparing", "prepared", "written", "running", "ended"}
  BY DEF Values, Families, Stages
<1>3. /\ NoMarker \in Markers /\ NoSlot \in Slots
      /\ \A m \in Markers : m.orig \in Values
  BY <1>2 DEF Markers, NoMarker, NoSlot, Slots
<1>4. /\ Inactive \in Overrides
      /\ \A f \in Families : [prev |-> Absent, written |-> f] \in Pendings
      /\ \A o \in BOOLEAN, v \in Values : [open |-> o, keep |-> v] \in Editors
  BY <1>2, <1>3 DEF Inactive, Overrides, Pendings, Editors
<1>5. CASE \/ Restore \/ Recover \/ RejectIfActive \/ KillHelper
           \/ PrepareFailed \/ WriteIni \/ HelperExits \/ TickRestores \/ ShutdownHost
           \/ InitializeHost \/ OpenOptions \/ SaveOptions \/ UNCHANGED protocolVars
  <2>1. UNCHANGED <<ini, pref, marker, ov, pend, slot, editor>>
    BY <1>5 DEF Restore, Recover, RejectIfActive, KillHelper, PrepareFailed, WriteIni, HelperExits,
       TickRestores, ShutdownHost, InitializeHost, OpenOptions, SaveOptions, protocolVars
  <2>2. start' \in {start, "ended", "written"} /\ helper' \in {helper, 0}
    BY <1>5 DEF Restore, Recover, RejectIfActive, KillHelper, PrepareFailed, WriteIni, HelperExits,
       TickRestores, ShutdownHost, InitializeHost, OpenOptions, SaveOptions, protocolVars
  <2> QED
    BY <1>1, <1>2, <2>1, <2>2
<1>6. CASE PutBack \/ PutOrig \/ WriteTemporary
  <2>1. ini' \in {ini, ov.prev, marker.orig, pend.written}
    BY <1>6 DEF PutBack, PutOrig, WriteTemporary, WriteOk, WriteFails
  <2>2. UNCHANGED <<pref, marker, ov, pend, slot, editor, start, helper>>
    BY <1>6 DEF PutBack, PutOrig, WriteTemporary
  <2> QED
    BY <1>1, <1>2, <1>3, <2>1, <2>2 DEF Overrides, Pendings
<1>7. CASE Unmark \/ UnmarkRecovered
  BY <1>1, <1>3, <1>7 DEF Unmark, UnmarkRecovered, RemoveMarkerOk
<1>8. CASE Clear
  BY <1>1, <1>4, <1>8 DEF Clear
<1>9. CASE Snapshot
  <2>1. pend' \in Pendings
    BY <1>1, <1>9 DEF Snapshot, Pendings
  <2> QED
    BY <1>1, <1>9, <2>1 DEF Snapshot
<1>10. CASE WriteMarker
  <2>1. marker' \in Markers
    BY <1>1, <1>10 DEF WriteMarker, MarkerFor, Markers, Pendings
  <2> QED
    BY <1>1, <1>10, <2>1 DEF WriteMarker
<1>11. CASE Begin
  <2>1. ov' \in Overrides
    BY <1>1, <1>3, <1>11 DEF Begin, Overrides, Pendings
  <2> QED
    BY <1>1, <1>2, <1>11, <2>1 DEF Begin
<1>12. CASE Exit \/ Crash
  <2>1. GameGone
    BY <1>12 DEF Exit, Crash
  <2>2. editor' \in Editors
    BY <1>2, <2>1 DEF GameGone, Editors
  <2>3. pend' \in Pendings
    BY <1>2, <1>4, <2>1 DEF GameGone
  <2> QED
    BY <1>1, <1>2, <1>3, <1>4, <2>1, <2>2, <2>3 DEF GameGone
<1>13. CASE LoadItemsFromIni
  <2>1. ShownValue \in Values
    BY <1>1, <1>2 DEF ShownValue, Overrides
  <2> QED
    BY <1>1, <1>4, <1>13, <2>1 DEF LoadItemsFromIni
<1>14. CASE SaveItemsToDisk
  <2>1. UNCHANGED <<marker, ov, pend, slot, start, helper>>
    BY <1>14 DEF SaveItemsToDisk
  <2>2. PICK v \in {editor.keep} \cup (IF editor.keep = Absent THEN {} ELSE Families) :
          \/ ini' = v /\ pref' = v /\ editor' = [editor EXCEPT !.keep = v]
          \/ UNCHANGED <<ini, pref, editor>>
    BY <1>14 DEF SaveItemsToDisk
  <2>3. v \in Values
    BY <1>1, <1>2, <2>2 DEF Editors
  <2>4. [editor EXCEPT !.keep = v] \in Editors
    BY <1>1, <2>3 DEF Editors
  <2> QED
    BY <1>1, <2>1, <2>2, <2>3, <2>4
<1>15. ASSUME NEW f \in Families, StartSession(f) PROVE Typed'
  BY <1>1, <1>2, <1>3, <1>4, <1>15 DEF StartSession
<1>16. CASE LaunchHelper
  BY <1>1, <1>2, <1>3, <1>16 DEF LaunchHelper
<1>17. ASSUME NEW f \in Families, NEW p \in {Port, OtherPort}, HelperListens(f, p) PROVE Typed'
  <2>1. slot' \in Slots
    BY <1>1, <1>17 DEF HelperListens, Slots, Port, OtherPort
  <2> QED
    BY <1>1, <1>17, <2>1 DEF HelperListens
<1>18. ASSUME NEW handoff \in BOOLEAN, HandleListenerAck(handoff) PROVE Typed'
  <2>1. ov' \in Overrides
    BY <1>1, <1>3, <1>18 DEF HandleListenerAck, Overrides
  <2> QED
    BY <1>1, <1>18, <2>1 DEF HandleListenerAck
<1>19. CASE CandidateMatures
  <2>1. ov' \in Overrides
    BY <1>1, <1>19 DEF CandidateMatures, Overrides
  <2> QED
    BY <1>1, <1>19, <2>1 DEF CandidateMatures
<1>20. CASE CancelSession
  BY <1>1, <1>3, <1>20 DEF CancelSession
<1>21. CASE CloseOptions
  BY <1>1, <1>2, <1>4, <1>21 DEF CloseOptions
<1>22. ASSUME NEW v \in Values \ {Absent}, UserEdits(v) PROVE Typed'
  BY <1>1, <1>3, <1>22 DEF UserEdits
<1> QED
  BY <1>5, <1>6, <1>7, <1>8, <1>9, <1>10, <1>11, <1>12, <1>13, <1>14, <1>15, <1>16, <1>17, <1>18,
     <1>19, <1>20, <1>21, <1>22 DEF ProtocolNext, FileStep

LEMMA TypesKept ==
  ASSUME ProtocolTypeOK, RecordTypes, [ProtocolNext]_protocolVars
  PROVE  ProtocolTypeOK' /\ RecordTypes'
<1>1. Typed' /\ Gone'
  BY TypedAlways, TypedKept, GoneKept
<1>2. (ProtocolTypeOK /\ RecordTypes <=> Typed /\ Gone)'
  BY TypedAlways, PTL
<1> QED
  BY <1>1, <1>2

\* A listener that is being watched was announced by a helper of this session.
LEMMA AckKept ==
  ASSUME ProtocolTypeOK, RecordTypes, AckInv, [ProtocolNext]_protocolVars
  PROVE  AckInv'
<1> USE DEF mail, file, AckInv, AckIsOwnListener
<1>1. ASSUME UNCHANGED <<ov, mail>>, start' \in {start, "none", "preparing", "running", "ended"}
      PROVE  AckInv'
  BY <1>1
<1>2. CASE \/ Restore \/ PutBack \/ Unmark \/ Recover \/ PutOrig \/ UnmarkRecovered \/ RejectIfActive
           \/ Snapshot \/ WriteMarker \/ WriteTemporary \/ LoadItemsFromIni \/ SaveItemsToDisk
           \/ KillHelper \/ PrepareFailed \/ HelperExits \/ TickRestores \/ ShutdownHost
           \/ InitializeHost \/ OpenOptions \/ SaveOptions \/ CloseOptions \/ UNCHANGED protocolVars
  <2>1. UNCHANGED <<ov, mail>> /\ start' \in {start, "ended"}
    BY <1>2 DEF Restore, PutBack, Unmark, Recover, PutOrig, UnmarkRecovered, RejectIfActive,
       Snapshot, WriteMarker, WriteTemporary, LoadItemsFromIni, SaveItemsToDisk, KillHelper,
       PrepareFailed, HelperExits, TickRestores, ShutdownHost, InitializeHost, OpenOptions,
       SaveOptions, CloseOptions, protocolVars
  <2> QED
    BY <1>1, <2>1
<1>3. CASE Clear \/ Begin
  <2>1. UNCHANGED mail /\ ov'.state \in {"Inactive", "AwaitingListener"}
    BY <1>3 DEF Clear, Begin, Inactive
  <2> QED
    BY <2>1
<1>4. CASE Exit \/ Crash
  BY <1>4 DEF Exit, Crash, GameGone, Inactive, NoSlot
<1>5. ASSUME NEW v \in Values \ {Absent}, UserEdits(v) PROVE AckInv'
  BY <1>1, <1>5 DEF UserEdits
<1>6. ASSUME NEW f \in Families, StartSession(f) PROVE AckInv'
  BY <1>6 DEF StartSession, NoSlot
<1>7. CASE WriteIni
  BY <1>7 DEF WriteIni
<1>8. CASE LaunchHelper
  BY <1>8 DEF LaunchHelper, NoSlot
<1>9. ASSUME NEW f \in Families, NEW p \in {Port, OtherPort}, HelperListens(f, p) PROVE AckInv'
  BY <1>9 DEF HelperListens
<1>10. ASSUME NEW handoff \in BOOLEAN, HandleListenerAck(handoff) PROVE AckInv'
  <2>1. UNCHANGED <<mail, start>> /\ start \in {"running", "ended"} /\ slot.serial > 0
    BY <1>10 DEF HandleListenerAck, Readable
  <2>2. CASE ~Matches
    <3>1. ov'.state = "AwaitingListener"
      BY <1>10, <2>2 DEF HandleListenerAck, RecordTypes, Overrides
    <3> QED
      BY <2>1, <3>1
  <2>3. CASE Matches
    <3>1. slot.family = ov.written /\ slot.port = Port
      BY <2>3 DEF Matches
    <3>2. CASE ov' = ov
      BY <2>1, <3>2
    <3>3. CASE ov' = [ov EXCEPT !.state = "Stabilizing", !.cand = slot, !.mature = FALSE]
      <4>1. ov'.cand = slot /\ ov'.written = ov.written
        BY <3>3 DEF RecordTypes, Overrides
      <4> QED
        BY <2>1, <3>1, <4>1
    <3> QED
      BY <1>10, <2>3, <3>2, <3>3 DEF HandleListenerAck
  <2> QED
    BY <2>2, <2>3
<1>11. CASE CandidateMatures
  <2>1. ov'.state = ov.state /\ ov'.cand = ov.cand /\ ov'.written = ov.written
    BY <1>11 DEF CandidateMatures, RecordTypes, Overrides
  <2> QED
    BY <1>11, <2>1 DEF CandidateMatures
<1>12. CASE CancelSession
  BY <1>12 DEF CancelSession, NoSlot
<1> QED
  BY <1>2, <1>3, <1>4, <1>5, <1>6, <1>7, <1>8, <1>9, <1>10, <1>11, <1>12 DEF ProtocolNext, FileStep

---------------------------------------------------------------------------
LEMMA InitIInv == ProtocolInit => IInv
<1> SUFFICES ASSUME ProtocolInit PROVE IInv
  OBVIOUS
<1>1. ini = pref /\ ini \in Values /\ marker = NoMarker /\ ops = <<>> /\ FirstOf(ops) = "end"
  BY DEF ProtocolInit, Values, Families, FirstOf
<1>2. Linked(ops)
  BY <1>1, Plans
<1>3. ~Active /\ slot.serial = 0 /\ ov.state = "Inactive"
  BY DEF ProtocolInit, Active, Inactive, NoSlot
<1>4. StepInv /\ MarkerInv /\ AckInv
  BY <1>1, <1>3 DEF StepInv, MarkerInv, AckInv, MarkerGuardsPreference, OverrideKeepsPreference,
     AckIsOwnListener, ProtocolInit
<1>5. ProtocolTypeOK /\ RecordTypes
  BY <1>1 DEF ProtocolInit, ProtocolTypeOK, RecordTypes, Values, Families, Markers, NoMarker, Overrides, Pendings,
     Editors, Slots, Inactive, NoSlot, Idle, Active
<1> QED
  BY <1>2, <1>4, <1>5 DEF IInv

LEMMA NextIInv == IInv /\ [ProtocolNext]_protocolVars => IInv'
<1> SUFFICES ASSUME IInv, [ProtocolNext]_protocolVars PROVE IInv'
  OBVIOUS
<1>1. ProtocolTypeOK /\ RecordTypes /\ Linked(ops) /\ StepInv /\ MarkerInv /\ AckInv
  BY DEF IInv
<1>2. ProtocolTypeOK' /\ RecordTypes' /\ AckInv'
  BY <1>1, TypesKept, AckKept
<1>3. Linked(ops') /\ StepInv' /\ MarkerInv'
  BY <1>1, FileStepKeeps, OtherStepKeeps
<1> QED
  BY <1>2, <1>3 DEF IInv

\* The invariant holds in every reachable state.
THEOREM Inductive == ProtocolSpec => []IInv
BY InitIInv, NextIInv, PTL DEF ProtocolSpec

\* The user's Network.Protocol preference survives every Host session: in
\* every state, whatever file operation failed and wherever the game died,
\* the recovery marker describes what the INI temporarily holds, and the
\* override is taken back on nobody else's listener
\* (PrepareTemporaryHostProtocolOverride,
\* RestoreTemporaryHostProtocolOverride,
\* RecoverProtocolOverrideFromMarkerUnlocked, HandleTemporaryHostProtocolListenerAck).
THEOREM PreferenceSafety == ProtocolSpec => []PreferenceSafe
<1>1. IInv => PreferenceSafe
  BY DEF IInv, MarkerInv, AckInv, PreferenceSafe
<1> QED
  BY <1>1, Inductive, PTL

EditorOpens == editor'.open /\ ~editor.open

LEMMA OnlyLoadOpens ==
  ASSUME RecordTypes, [ProtocolNext]_protocolVars, EditorOpens
  PROVE  LoadItemsFromIni
<1> USE DEF EditorOpens
<1>1. editor' # editor /\ ~GameGone
  BY DEF GameGone
<1>2. ~SaveItemsToDisk
  BY DEF SaveItemsToDisk, RecordTypes, Editors
<1>3. ~CloseOptions
  BY DEF CloseOptions
<1>4. FileStep => LoadItemsFromIni
  BY <1>1, <1>2 DEF FileStep, Restore, PutBack, Unmark, Clear, Recover, PutOrig, UnmarkRecovered,
     RejectIfActive, Snapshot, WriteMarker, WriteTemporary, Begin, KillHelper, Exit
<1>5. ~(\E f \in Families : StartSession(f))
  BY <1>1 DEF StartSession
<1>6. /\ ~(\E f \in Families, p \in {Port, OtherPort} : HelperListens(f, p))
      /\ ~(\E handoff \in BOOLEAN : HandleListenerAck(handoff))
      /\ ~(\E v \in Values \ {Absent} : UserEdits(v))
  BY <1>1 DEF HelperListens, HandleListenerAck, UserEdits
<1>7. ~(PrepareFailed \/ WriteIni \/ LaunchHelper \/ CandidateMatures \/ HelperExits \/ TickRestores)
  BY <1>1 DEF PrepareFailed, WriteIni, LaunchHelper, CandidateMatures, HelperExits, TickRestores
<1>8. ~(CancelSession \/ ShutdownHost \/ Crash \/ InitializeHost \/ OpenOptions \/ SaveOptions)
  BY <1>1 DEF CancelSession, ShutdownHost, Crash, InitializeHost, OpenOptions, SaveOptions
<1>9. ~UNCHANGED protocolVars
  BY <1>1 DEF protocolVars
<1> QED
  BY <1>3, <1>4, <1>5, <1>6, <1>7, <1>8, <1>9 DEF ProtocolNext

\* The options screen opens on the user's own preference, not on the
\* temporary one, also while an override is active (LoadItemsFromIni).
THEOREM EditorTruth == ProtocolSpec => EditorShowsPreference
<1> DEFINE Truth == editor'.open /\ ~editor.open /\ (Active => ini = ov.written)
                      => FamilyOf(editor'.keep) = FamilyOf(pref)
<1>1. IInv /\ [ProtocolNext]_protocolVars => [Truth]_protocolVars
  <2> SUFFICES ASSUME IInv, [ProtocolNext]_protocolVars, editor'.open, ~editor.open, Active => ini = ov.written
               PROVE  FamilyOf(editor'.keep) = FamilyOf(pref)
    BY DEF Truth
  <2>1. ProtocolTypeOK /\ RecordTypes /\ Linked(ops) /\ StepInv /\ MarkerInv
    BY DEF IInv
  <2>2. LoadItemsFromIni
    BY OnlyLoadOpens, <2>1 DEF EditorOpens
  <2>3. editor'.keep = ShownValue /\ FirstOf(ops) = "load"
    BY <2>2, AtFirst DEF LoadItemsFromIni, Steps
  <2>4. CASE Active
    <3>1. FamilyOf(ov.prev) = FamilyOf(pref)
      BY <2>1, <2>4 DEF MarkerInv, OverrideKeepsPreference
    <3>2. FamilyOf(Absent) = FamilyOf(IPv4)
      BY DEF FamilyOf, Families
    <3> QED
      BY <2>3, <2>4, <3>1, <3>2 DEF ShownValue
  <2>5. CASE ~Active
    <3>1. marker = NoMarker
      BY <2>1, <2>3, <2>5 DEF StepInv
    <3>2. FamilyOf(ini) = FamilyOf(pref)
      BY <2>1, <3>1 DEF MarkerInv, MarkerGuardsPreference
    <3> QED
      BY <2>3, <2>5, <3>2 DEF ShownValue
  <2> QED
    BY <2>4, <2>5
<1> QED
  BY <1>1, Inductive, PTL DEF ProtocolSpec, EditorShowsPreference
=============================================================================
