---------------------------- MODULE MenuProofs ----------------------------
(***************************************************************************)
(* Proofs about what goes on while the player is in the menus:             *)
(* OverlayAttach, for any bound on a joiner's retries, and Rooms, for any  *)
(* length of a list and any number of slots on the screen.                 *)
(*                                                                         *)
(* OverlayAttach.  That an attached process sees a stamped block rests on  *)
(* who may still stamp it: a mapping has at most one creator among its     *)
(* holders, since a process creates it only when nobody holds it, and the  *)
(* block of a creator that has not finished carries no version stamp yet.  *)
(*                                                                         *)
(* Rooms.  That a room is entered only when none is being left rests on    *)
(* two facts about the rooms screen: while a session is being closed       *)
(* behind it the screen waits for that (WaitAt), so no join can begin, and *)
(* a join under way keeps the user on the screen (ActAt), so no session    *)
(* can be closed until its answer has been taken.                          *)
(***************************************************************************)
EXTENDS OverlayAttach, Rooms, TLAPS

Steps == Attaching \cup {"off", "attached", "failed"}

Types ==
  /\ holders \subseteq Processes
  /\ magic \in BOOLEAN /\ version \in BOOLEAN
  /\ pc \in [Processes -> Steps]
  /\ created \in [Processes -> BOOLEAN]

Stamping == {"zero", "magic", "version"}

\* Process p made the mapping and has not stamped it.
Unfinished(p) == pc[p] \in Stamping \/ (pc[p] = "opened" /\ created[p])

HoldersInv == \A p \in Processes : p \in holders <=> pc[p] \notin {"off", "failed"}

CreatorInv ==
  /\ \A p \in Processes : pc[p] \in Stamping => created[p]
  /\ \A p, q \in Processes : p \in holders /\ q \in holders /\ created[p] /\ created[q] => p = q

StampInv ==
  /\ version => magic
  /\ holders = {} => ~magic
  /\ \A p \in Processes : Unfinished(p) => ~version /\ (pc[p] # "version" => ~magic)
  /\ \A p \in Processes : pc[p] = "version" => magic
  /\ \A p \in Processes : pc[p] = "attached" => version

IInv == Types /\ HoldersInv /\ CreatorInv /\ StampInv

---------------------------------------------------------------------------
LEMMA InitIInv == Init => IInv
BY DEF Init, IInv, Types, HoldersInv, CreatorInv, StampInv, Unfinished, Steps, Stamping, Processes

\* A process that leaves the mapping: what the others see stays, or, when it
\* was the last one, the mapping goes.
LEMMA ReleaseKeeps ==
  ASSUME IInv, NEW p \in Processes, Release(p), NEW step \in {"off", "failed"}, Become(p, step),
         created' = created \/ created' = [created EXCEPT ![p] = FALSE]
  PROVE  IInv'
<1>1. /\ holders' = holders \ {p} /\ magic' = (magic /\ holders' # {})
      /\ version' = (version /\ holders' # {})
      /\ pc' = [pc EXCEPT ![p] = step]
  BY DEF Release, Become
<1>2. /\ pc'[p] = step /\ \A q \in Processes : q # p => pc'[q] = pc[q]
      /\ \A q \in Processes : q # p => created'[q] = created[q]
  BY <1>1 DEF IInv, Types
<1>3. Types'
  BY <1>1 DEF IInv, Types, Steps
<1>4. HoldersInv'
  BY <1>1, <1>2 DEF IInv, HoldersInv
<1>5. CreatorInv'
  BY <1>1, <1>2 DEF IInv, CreatorInv, Stamping
<1>6. \A q \in Processes : pc'[q] \notin {"off", "failed"} => q # p /\ holders' # {}
  BY <1>2, <1>4 DEF HoldersInv
<1>7. StampInv'
  <2>1. (version' => magic') /\ (holders' = {} => ~magic')
    BY <1>1 DEF IInv, StampInv
  <2>2. ASSUME NEW q \in Processes, Unfinished(q)' PROVE ~version' /\ (pc'[q] # "version" => ~magic')
    <3>1. q # p
      BY <1>2, <2>2 DEF Unfinished, Stamping
    <3> QED
      BY <1>1, <1>2, <2>2, <3>1 DEF Unfinished, IInv, StampInv
  <2>3. ASSUME NEW q \in Processes, pc'[q] = "version" PROVE magic'
    BY <1>1, <1>2, <1>6, <2>3 DEF IInv, StampInv
  <2>4. ASSUME NEW q \in Processes, pc'[q] = "attached" PROVE version'
    BY <1>1, <1>2, <1>6, <2>4 DEF IInv, StampInv
  <2> QED
    BY <2>1, <2>2, <2>3, <2>4 DEF StampInv
<1> QED
  BY <1>3, <1>4, <1>5, <1>7 DEF IInv

LEMMA NextIInv == IInv /\ [Next]_vars => IInv'
<1> SUFFICES ASSUME IInv, [Next]_vars PROVE IInv'
  OBVIOUS
<1>0. Types /\ HoldersInv /\ CreatorInv /\ StampInv
  BY DEF IInv
<1>1. ASSUME NEW p \in Processes, Create(p) PROVE IInv'
  <2>1. CASE Become(p, "failed") /\ UNCHANGED <<holders, created, spins>>
    <3>1. /\ pc'[p] = "failed" /\ pc[p] = "off" /\ \A q \in Processes : q # p => pc'[q] = pc[q]
          /\ pc' \in [Processes -> Steps] /\ UNCHANGED <<holders, created, magic, version>>
      BY <1>0, <1>1, <2>1 DEF Create, Become, Types, Steps
    <3> QED
      BY <1>0, <3>1 DEF IInv, Types, HoldersInv, CreatorInv, StampInv, Unfinished, Stamping
  <2>2. CASE /\ holders' = holders \cup {p}
             /\ created' = [created EXCEPT ![p] = (holders = {})]
             /\ Become(p, "opened")
    <3>1. /\ pc'[p] = "opened" /\ pc[p] = "off" /\ \A q \in Processes : q # p => pc'[q] = pc[q]
          /\ pc' \in [Processes -> Steps] /\ UNCHANGED <<magic, version>>
          /\ created'[p] = (holders = {}) /\ \A q \in Processes : q # p => created'[q] = created[q]
          /\ created' \in [Processes -> BOOLEAN]
      BY <1>0, <1>1, <2>2 DEF Create, Become, Types, Steps, Attaching
    <3>2. Types'
      BY <1>0, <2>2, <3>1 DEF Types
    <3>3. HoldersInv'
      BY <1>0, <2>2, <3>1 DEF HoldersInv
    <3>4. CreatorInv'
      BY <1>0, <2>2, <3>1 DEF CreatorInv, Stamping
    <3>5. StampInv'
      BY <1>0, <2>2, <3>1 DEF StampInv, Unfinished, Stamping, Types
    <3> QED
      BY <3>2, <3>3, <3>4, <3>5 DEF IInv
  <2> QED
    BY <1>1, <2>1, <2>2 DEF Create
<1>2. ASSUME NEW p \in Processes, Map(p) PROVE IInv'
  <2>1. CASE Become(p, "failed") /\ Release(p)
    BY <1>2, <2>1, ReleaseKeeps DEF Map
  <2>2. CASE Become(p, IF created[p] THEN "zero" ELSE "check") /\ UNCHANGED <<holders, magic, version>>
    <3>1. /\ pc'[p] = (IF created[p] THEN "zero" ELSE "check") /\ pc[p] = "opened"
          /\ \A q \in Processes : q # p => pc'[q] = pc[q]
          /\ pc' \in [Processes -> Steps] /\ UNCHANGED <<holders, created, magic, version>>
      BY <1>0, <1>2, <2>2 DEF Map, Become, Types, Steps, Attaching
    <3> QED
      BY <1>0, <3>1 DEF IInv, Types, HoldersInv, CreatorInv, StampInv, Unfinished, Stamping
  <2> QED
    BY <1>2, <2>1, <2>2 DEF Map
\* Whoever stamps the mapping is its only creator, so nobody has attached yet
\* and nobody else is about to zero it.
<1>3. ASSUME NEW p \in Processes, pc[p] \in Stamping
      PROVE  \A q \in Processes : q # p => ~Unfinished(q)
  <2> SUFFICES ASSUME NEW q \in Processes, q # p, Unfinished(q) PROVE FALSE
    OBVIOUS
  <2>1. created[p] /\ p \in holders
    BY <1>0, <1>3 DEF CreatorInv, HoldersInv, Stamping
  <2>2. created[q] /\ q \in holders
    BY <1>0 DEF CreatorInv, HoldersInv, Stamping, Unfinished
  <2> QED
    BY <1>0, <2>1, <2>2 DEF CreatorInv
<1>4. ASSUME NEW p \in Processes, Zero(p) PROVE IInv'
  <2>1. /\ pc'[p] = "magic" /\ pc[p] = "zero" /\ \A q \in Processes : q # p => pc'[q] = pc[q]
        /\ pc' \in [Processes -> Steps] /\ UNCHANGED <<holders, created>>
        /\ magic' = FALSE /\ version' = FALSE
    BY <1>0, <1>4 DEF Zero, Become, Types, Steps, Attaching
  <2>2. \A q \in Processes : q # p => ~Unfinished(q)
    BY <1>3, <2>1 DEF Stamping
  <2>3. ~version /\ ~magic
    BY <1>0, <2>1 DEF StampInv, Unfinished, Stamping
  <2> QED
    BY <1>0, <2>1, <2>2, <2>3 DEF IInv, Types, HoldersInv, CreatorInv, StampInv, Unfinished, Stamping
<1>5. ASSUME NEW p \in Processes, StampMagic(p) PROVE IInv'
  <2>1. /\ pc'[p] = "version" /\ pc[p] = "magic" /\ \A q \in Processes : q # p => pc'[q] = pc[q]
        /\ pc' \in [Processes -> Steps] /\ UNCHANGED <<holders, created, version>>
        /\ magic' = TRUE
    BY <1>0, <1>5 DEF StampMagic, Become, Types, Steps, Attaching
  <2>2. \A q \in Processes : q # p => ~Unfinished(q)
    BY <1>3, <2>1 DEF Stamping
  <2>3. ~version /\ p \in holders
    BY <1>0, <2>1 DEF StampInv, HoldersInv, Unfinished, Stamping
  <2> QED
    BY <1>0, <2>1, <2>2, <2>3 DEF IInv, Types, HoldersInv, CreatorInv, StampInv, Unfinished, Stamping
<1>6. ASSUME NEW p \in Processes, StampVersion(p) PROVE IInv'
  <2>1. /\ pc'[p] = "attached" /\ pc[p] = "version" /\ \A q \in Processes : q # p => pc'[q] = pc[q]
        /\ pc' \in [Processes -> Steps] /\ UNCHANGED <<holders, created, magic>>
        /\ version' = TRUE
    BY <1>0, <1>6 DEF StampVersion, Become, Types, Steps, Attaching
  <2>2. \A q \in Processes : q # p => ~Unfinished(q)
    BY <1>3, <2>1 DEF Stamping
  <2>3. magic /\ p \in holders
    BY <1>0, <2>1 DEF StampInv, HoldersInv
  <2> QED
    BY <1>0, <2>1, <2>2, <2>3 DEF IInv, Types, HoldersInv, CreatorInv, StampInv, Unfinished, Stamping
<1>7. ASSUME NEW p \in Processes, NEW step \in {"attached", "spin"}, Become(p, step),
             pc[p] \in {"check", "spin"}, step = "attached" => Stamped,
             UNCHANGED <<holders, created, magic, version>>
      PROVE  IInv'
  <2>1. /\ pc'[p] = step /\ \A q \in Processes : q # p => pc'[q] = pc[q]
        /\ pc' \in [Processes -> Steps]
    BY <1>0, <1>7 DEF Become, Types, Steps, Attaching
  <2> QED
    BY <1>0, <1>7, <2>1 DEF IInv, Types, HoldersInv, CreatorInv, StampInv, Unfinished, Stamping, Stamped
<1>8. ASSUME NEW p \in Processes, Check(p) PROVE IInv'
  BY <1>7, <1>8 DEF Check
<1>9. ASSUME UNCHANGED <<holders, created, magic, version, pc>> PROVE IInv'
  BY <1>0, <1>9 DEF IInv, Types, HoldersInv, CreatorInv, StampInv, Unfinished
<1>10. ASSUME NEW p \in Processes, Spin(p) PROVE IInv'
  <2>1. CASE Stamped /\ Become(p, "attached") /\ UNCHANGED <<holders, magic, version, spins>>
    BY <1>7, <1>10, <2>1 DEF Spin
  <2>2. CASE ~Stamped /\ magic /\ Become(p, "failed") /\ Release(p) /\ UNCHANGED spins
    BY <1>10, <2>2, ReleaseKeeps DEF Spin
  <2>3. CASE ~magic /\ Retry(p) /\ UNCHANGED <<holders, magic, version>>
    BY <1>9, <1>10, <2>3 DEF Spin, Retry
  <2> QED
    BY <1>10, <2>1, <2>2, <2>3 DEF Spin
<1>11. ASSUME NEW p \in Processes, SpinTimeout(p) \/ Detach(p) \/ Die(p) PROVE IInv'
  BY <1>11, ReleaseKeeps DEF SpinTimeout, Detach, Die
<1>12. CASE UNCHANGED vars
  BY <1>9, <1>12 DEF vars
<1> QED
  BY <1>1, <1>2, <1>4, <1>5, <1>6, <1>8, <1>10, <1>11, <1>12 DEF Next, Attach

THEOREM Inductive == Spec => []IInv
BY InitIInv, NextIInv, PTL DEF Spec

---------------------------------------------------------------------------
(* The retries. *)

LEMMA SpinsBounded ==
  ASSUME MaxSpins \in Nat
  PROVE  Spec => [](spins \in [Processes -> 0 .. MaxSpins])
<1> DEFINE Bounded == spins \in [Processes -> 0 .. MaxSpins]
<1>1. Init => Bounded
  BY DEF Init
<1>2. Bounded /\ [Next]_vars => Bounded'
  <2> SUFFICES ASSUME Bounded, [Next]_vars PROVE Bounded'
    OBVIOUS
  <2>1. ASSUME NEW p \in Processes, Create(p) \/ Die(p) PROVE Bounded'
    BY <2>1 DEF Create, Die
  <2>2. ASSUME NEW p \in Processes, Spin(p) PROVE Bounded'
    <3>1. spins[p] < MaxSpins /\ (spins' = spins \/ spins' = [spins EXCEPT ![p] = spins[p] + 1])
      BY <2>2 DEF Spin, MoreRetries, Retry
    <3>2. spins[p] \in 0 .. MaxSpins
      OBVIOUS
    <3>3. spins[p] + 1 \in 0 .. MaxSpins
      BY <3>1, <3>2
    <3> QED
      BY <3>1, <3>3
  <2>3. ASSUME NEW p \in Processes,
               Map(p) \/ Zero(p) \/ StampMagic(p) \/ StampVersion(p) \/ Check(p) \/ SpinTimeout(p)
               \/ Detach(p)
        PROVE  Bounded'
    BY <2>3 DEF Map, Zero, StampMagic, StampVersion, Check, SpinTimeout, Detach
  <2>4. CASE UNCHANGED vars
    BY <2>4 DEF vars
  <2> QED
    BY <2>1, <2>2, <2>3, <2>4 DEF Next, Attach
<1> QED
  BY <1>1, <1>2, PTL DEF Spec

\* Whatever the order in which game and helper attach, die and come back: a
\* process that attached works on a stamped block that nobody is about to
\* zero (Attach and Detach of overlay_ipc.cpp).
THEOREM AttachSafety ==
  ASSUME MaxSpins \in Nat
  PROVE  Spec => []AttachSafe
<1>1. ASSUME IInv PROVE AttachedSeesStamp
  <2> SUFFICES ASSUME NEW p \in Processes, pc[p] = "attached"
               PROVE  /\ p \in holders /\ magic /\ version
                      /\ \A q \in Processes : pc[q] \notin {"zero", "magic", "version"}
    BY DEF AttachedSeesStamp
  <2>1. version /\ magic /\ p \in holders
    BY <1>1 DEF IInv, StampInv, HoldersInv
  <2> QED
    BY <1>1, <2>1 DEF IInv, StampInv, Unfinished, Stamping
<1>2. ASSUME IInv, spins \in [Processes -> 0 .. MaxSpins] PROVE TypeOK
  BY <1>2 DEF IInv, Types, TypeOK, Steps
<1>3. IInv /\ spins \in [Processes -> 0 .. MaxSpins] => AttachSafe
  BY <1>1, <1>2 DEF AttachSafe
<1> QED
  BY <1>3, Inductive, SpinsBounded, PTL

---------------------------------------------------------------------------
(* Rooms: the types of its state, taken as one record. *)
Menus == {"Title", "Main", "PlayerRooms", "Lobby", "Match", "Exit", "Host"}
Uis ==
  [menu : Menus, view : {"Root", "Join", "Create"}, rooms : 0..MaxRooms, scroll : 0..MaxRooms,
   slots : 0..Slots, session : {"none", "room", "global"}, bg : BOOLEAN,
   pending : BOOLEAN, shut : {"Idle", "Running", "Completed"}, toRooms : BOOLEAN,
   ret : {"Idle", "WaitingForShutdown", "RefreshPending"},
   leave : {"none", "Lobby", "PlayerRooms", "Host"}]
Rqs == [phase : Phases, current : BOOLEAN, early : BOOLEAN, found : 0..MaxRooms]
States == [ui : Uis, rq : Rqs, act : Phases, rw : BOOLEAN, aw : BOOLEAN]

(* What every operator keeps. *)
ScrollFits(s) == s.ui.scroll \in 0..MaxListScroll(s.ui.rooms)
SlotsFit(s) ==
  s.ui.view = "Join" /\ s.ui.rooms > 0 =>
    s.ui.slots >= 1 /\ s.ui.scroll + s.ui.slots <= s.ui.rooms
ListIsNew(s) == (s.ui.ret # "Idle" => ~s.rq.current) /\ ~s.rq.early
Asked(s) == s.ui.ret = "RefreshPending" => s.rq.phase # "Idle"
Core(s) ==
  /\ s \in States /\ ScrollFits(s) /\ SlotsFit(s) /\ ListIsNew(s)
  /\ s.aw => s.act = "Running"
Base(s) == Core(s) /\ Asked(s)

(* Where the user is, and the session. *)
Same(s, t) ==
  /\ t.ui.menu = s.ui.menu /\ t.ui.session = s.ui.session /\ t.ui.bg = s.ui.bg
  /\ t.ui.leave = s.ui.leave /\ t.ui.shut = s.ui.shut /\ t.act = s.act /\ t.aw = s.aw
  /\ t.ui.pending = s.ui.pending
Moved(s, t) == t.ui.ret = s.ui.ret \/ (s.ui.ret = "RefreshPending" /\ t.ui.ret = "Idle")

(* A list may be empty. *)
LEMMA NoRooms == 0 \in 0..MaxRooms
BY RoomsAssumption

(* The library's maximum ... *)
LEMMA MaxOfTwo == ASSUME NEW a \in Int, NEW b \in Int
  PROVE Max({a, b}) = IF a >= b THEN a ELSE b
<1>1. \E x \in {a, b} : \A y \in {a, b} : x >= y
  OBVIOUS
<1>2. \A x \in {a, b} : (\A y \in {a, b} : x >= y) => x = IF a >= b THEN a ELSE b
  OBVIOUS
<1>. QED BY <1>1, <1>2, Zenon DEF Max

(* ... and minimum of two numbers. *)
LEMMA MinOfTwo == ASSUME NEW a \in Int, NEW b \in Int
  PROVE Min({a, b}) = IF a <= b THEN a ELSE b
<1>1. \E x \in {a, b} : \A y \in {a, b} : x <= y
  OBVIOUS
<1>2. \A x \in {a, b} : (\A y \in {a, b} : x <= y) => x = IF a <= b THEN a ELSE b
  OBVIOUS
<1>. QED BY <1>1, <1>2, Zenon DEF Min

(* How far a list can be scrolled. *)
LEMMA ScrollLimit == ASSUME NEW n \in 0..MaxRooms
  PROVE MaxListScroll(n) = IF n <= Slots THEN 0 ELSE n - Slots
BY RoomsAssumption, MaxOfTwo DEF MaxListScroll

(* How many of its rooms are visible. *)
LEMMA VisibleRooms == ASSUME NEW s \in States
  PROVE Visible(s) = IF s.ui.rooms = 0 THEN 1
                     ELSE IF s.ui.rooms - s.ui.scroll <= Slots THEN s.ui.rooms - s.ui.scroll ELSE Slots
BY RoomsAssumption, MinOfTwo DEF Visible, States, Uis

(* The entries of the menu, made anew, stand for rooms of the list. *)
LEMMA RebuildFits == ASSUME NEW s \in States, ScrollFits(s), ListIsNew(s),
     s.aw => s.act = "Running"
  PROVE LET t == RebuildMenuEntries(s) IN
        /\ Core(t) /\ (Asked(s) => Base(t)) /\ Same(s, t) /\ t.ui.ret = s.ui.ret
        /\ t.rq = s.rq /\ t.ui.view = s.ui.view
<1>1. s.ui.rooms \in 0..MaxRooms /\ s.ui.scroll \in 0..MaxRooms
  BY DEF States, Uis
<1>2. Visible(s) \in 1..Slots
  BY <1>1, VisibleRooms, ScrollLimit, RoomsAssumption DEF ScrollFits
<1>3. s.ui.rooms > 0 => s.ui.scroll + Visible(s) <= s.ui.rooms
  BY <1>1, VisibleRooms, ScrollLimit, RoomsAssumption DEF ScrollFits
<1>. QED BY <1>1, <1>2, <1>3, RoomsAssumption DEF RebuildMenuEntries, Base, Core, Asked, States, Uis,
     ScrollFits, SlotsFit, ListIsNew, Same

(* Another view of the rooms screen. *)
LEMMA SwitchViewFits == ASSUME NEW s, Base(s), NEW v \in {"Root", "Join", "Create"}
  PROVE Base(SwitchView(s, v)) /\ Same(s, SwitchView(s, v)) /\ SwitchView(s,
       v).ui.ret = s.ui.ret
<1> DEFINE t == [s EXCEPT !.ui.view = v]
<1>1. /\ t \in States /\ ScrollFits(t) /\ ListIsNew(t) /\ Asked(t)
      /\ (t.aw => t.act = "Running") /\ Same(s, t) /\ t.ui.ret = s.ui.ret
  BY DEF Base, Core, Asked, States, Uis, ScrollFits, ListIsNew, Same
<1> HIDE DEF t
<1>. QED BY <1>1, RebuildFits DEF SwitchView, t, Same

(* A list request, on a thread of its own or refused. *)
LEMMA LaunchFits == ASSUME NEW s, Core(s), s.ui.ret = "Idle", s.ui.shut # "Running",
     NEW ok \in BOOLEAN
  PROVE Base(Launch(s, ok)) /\ Same(s, Launch(s, ok)) /\ Launch(s, ok).ui = s.ui
BY DEF Base, Core, Asked, States, Uis, Rqs, Phases, ScrollFits, SlotsFit, ListIsNew, Same, Launch

(* The user may be owed a list anew when none on its way is shown. *)
MayOwe(s, u) ==
  \/ u.ret \in {s.ui.ret, "Idle"}
  \/ ~s.rq.current /\ (u.ret = "RefreshPending" => s.rq.phase # "Idle")

(* Changes that leave the list alone. *)
LEMMA UiWrite == ASSUME NEW s, Base(s), NEW u \in Uis, u.scroll = s.ui.scroll,
     u.rooms = s.ui.rooms,
                        u.slots = s.ui.slots, u.view = s.ui.view, MayOwe(s, u)
  PROVE Base([s EXCEPT !.ui = u])
<1>1. [s EXCEPT !.ui = u] \in States
  BY DEF Base, Core, Asked, States
<1>2. [s EXCEPT !.ui = u].ui = u /\ [s EXCEPT !.ui = u].rq = s.rq
     /\ [s EXCEPT !.ui = u].aw = s.aw /\ [s EXCEPT !.ui = u].act = s.act
  BY DEF Base, Core, Asked, States
<1>. QED BY <1>1, <1>2 DEF Base, Core, Asked, ScrollFits, SlotsFit, ListIsNew, MayOwe

(* A write of the user interface that leaves the list alone. *)
LEMMA UiStep == ASSUME NEW s, Base(s), NEW u \in Uis, u.scroll = s.ui.scroll,
     u.rooms = s.ui.rooms,
                        u.slots = s.ui.slots, u.view = s.ui.view, u.ret = s.ui.ret
  PROVE LET t == [s EXCEPT !.ui = u] IN Base(t) /\ t.ui = u /\ t.act = s.act /\ t.aw = s.aw
<1>1. Base([s EXCEPT !.ui = u])
  BY UiWrite DEF MayOwe
<1>. QED BY <1>1 DEF Base, Core, Asked, States

(* A write of the request. *)
LEMMA RqWrite == ASSUME NEW s, Core(s), NEW q \in Rqs, ~q.early, s.ui.ret # "Idle" => ~q.current
  PROVE LET t == [s EXCEPT !.rq = q] IN Core(t) /\ (Asked(t) => Base(t))
BY DEF Base, Core, Asked, States, ScrollFits, SlotsFit, ListIsNew

(* The scroll position taken over fits the list that came. *)
LEMMA ScrollStays == ASSUME NEW s, Base(s)
  PROVE ScrollAfter(s) \in 0..MaxListScroll(IF s.rq.phase = "Succeeded" THEN s.rq.found ELSE s.ui.rooms)
<1>1. s.ui.rooms \in 0..MaxRooms /\ s.ui.scroll \in 0..MaxRooms /\ s.rq.found \in 0..MaxRooms
  BY DEF Base, Core, Asked, States, Uis, Rqs
<1>2. CASE s.rq.phase = "Succeeded"
  BY <1>1, <1>2, ScrollLimit, MinOfTwo, RoomsAssumption DEF ScrollAfter
<1>3. CASE s.rq.phase # "Succeeded"
  BY <1>1, <1>3, ScrollLimit, RoomsAssumption DEF ScrollAfter, Base, Core, Asked, ScrollFits
<1>. QED BY <1>2, <1>3

(* A list that came is shown, unless it is stale. *)
LEMMA PumpRefreshFits == ASSUME NEW s, Base(s), NEW ok \in BOOLEAN,
     s.ui.ret = "RefreshPending" => s.ui.shut # "Running"
  PROVE LET t == PumpRefreshResult(s, ok) IN Base(t) /\ Same(s, t) /\ Moved(s, t)
<1> DEFINE taken == [s EXCEPT !.rq.phase = "Idle", !.rq.found = 0]
           listed == [taken EXCEPT
                      !.ui.scroll = ScrollAfter(s),
                      !.ui.rooms = IF s.rq.phase = "Succeeded" THEN s.rq.found ELSE @]
           shown == IF ~s.rq.current THEN taken ELSE RebuildMenuEntries(listed)
           again == [shown EXCEPT !.ui.ret = "Idle"]
<1>1. /\ Core(taken) /\ (s.ui.ret # "RefreshPending" => Base(taken))
      /\ Same(s, taken) /\ taken.ui.ret = s.ui.ret
  <2> DEFINE q == [s.rq EXCEPT !.phase = "Idle", !.found = 0]
  <2>1. q \in Rqs /\ ~q.early /\ (s.ui.ret # "Idle" => ~q.current)
    <3>1. s.rq \in Rqs /\ ~s.rq.early /\ (s.ui.ret # "Idle" => ~s.rq.current)
      BY DEF Base, Core, Asked, States, ListIsNew
    <3>2. q \in Rqs
      BY <3>1, NoRooms DEF Rqs, Phases
    <3>3. q.current = s.rq.current /\ q.early = s.rq.early
      BY <3>1 DEF Rqs
    <3>. QED BY <3>1, <3>2, <3>3
  <2>2. taken = [s EXCEPT !.rq = q]
    BY DEF Base, Core, Asked, States
  <2> HIDE DEF q
  <2>. QED BY <2>1, <2>2, RqWrite DEF Same, Base, Core, Asked, States
<1>2. ASSUME s.rq.current
      PROVE  listed \in States /\ ScrollFits(listed) /\ ListIsNew(listed)
           /\ (listed.aw => listed.act = "Running")
             /\ Same(s, listed) /\ listed.ui.ret = s.ui.ret
  <2>1. ScrollAfter(s) \in 0..MaxRooms
    BY ScrollStays, ScrollLimit, RoomsAssumption DEF Base, Core, Asked, States, Uis, Rqs
  <2>2. listed \in States /\ ListIsNew(listed) /\ (listed.aw => listed.act = "Running")
        /\ Same(s, listed) /\ listed.ui.ret = s.ui.ret
    <3> DEFINE u == [s.ui EXCEPT !.scroll = ScrollAfter(s),
                      !.rooms = IF s.rq.phase = "Succeeded" THEN s.rq.found ELSE @]
    <3>0. /\ s.ui \in Uis /\ s.rq \in Rqs /\ ListIsNew(taken) /\ taken \in States
          /\ taken.ui = s.ui
      BY <1>1, <1>2 DEF Base, Core, Asked, States, Rqs, ListIsNew
    <3>1. u \in Uis
      BY <2>1, <3>0 DEF Uis, Rqs
    <3>2. u.menu = s.ui.menu /\ u.session = s.ui.session /\ u.bg = s.ui.bg
          /\ u.leave = s.ui.leave /\ u.shut = s.ui.shut /\ u.pending = s.ui.pending
             /\ u.ret = s.ui.ret
      BY <3>0 DEF Uis
    <3>3. listed = [taken EXCEPT !.ui = u]
      BY <3>0 DEF States
    <3> HIDE DEF u, taken
    <3>4. /\ listed \in States /\ listed.ui = u /\ listed.rq = taken.rq
          /\ listed.act = taken.act /\ listed.aw = taken.aw
      BY <3>0, <3>1, <3>3 DEF States
    <3> HIDE DEF listed
    <3>. QED BY <1>1, <3>0, <3>2, <3>4 DEF Base, Core, Asked, ListIsNew, Same
  <2>3. listed.ui.scroll = ScrollAfter(s)
        /\ listed.ui.rooms = IF s.rq.phase = "Succeeded" THEN s.rq.found ELSE s.ui.rooms
    BY DEF Base, Core, Asked, States, Uis, Rqs
  <2>. QED BY <2>2, <2>3, ScrollStays DEF ScrollFits
<1> HIDE DEF listed, taken
<1>3. /\ Core(shown) /\ Same(s, shown) /\ shown.ui.ret = s.ui.ret
      /\ (s.ui.ret # "RefreshPending" => Base(shown))
  <2>1. CASE ~s.rq.current
    BY <1>1, <2>1 DEF Base, Core
  <2>2. CASE s.rq.current
    <3>1. shown = RebuildMenuEntries(listed)
      BY <2>2
    <3>2. s.ui.ret # "RefreshPending" => Asked(listed)
      BY <1>2, <2>2 DEF Asked
    <3> HIDE DEF shown
    <3>. QED BY <1>2, <2>2, <3>1, <3>2, RebuildFits DEF Same
  <2>. QED BY <2>1, <2>2
<1> HIDE DEF shown
<1>4. Core(again) /\ Same(s, again) /\ again.ui.ret = "Idle"
  BY <1>3 DEF Base, Core, Asked, States, Uis, ScrollFits, SlotsFit, ListIsNew, Same
<1>5. PumpRefreshResult(s, ok) = IF s.rq.phase \notin Results THEN s
        ELSE IF s.ui.ret = "RefreshPending" THEN Launch(again, ok) ELSE shown
  BY DEF PumpRefreshResult, shown, listed, taken
<1> HIDE DEF again
<1>. QED BY <1>3, <1>4, <1>5, LaunchFits DEF Same, Moved

(* A refresh, unless a request is under way. *)
LEMMA StartRefreshFits == ASSUME NEW s, Base(s), NEW ok \in BOOLEAN,
     s.ui.shut # "Running", s.ui.ret # "WaitingForShutdown"
  PROVE LET t == StartAsyncRefresh(s, ok) IN Base(t) /\ Same(s, t) /\ Moved(s, t)
<1> DEFINE p == PumpRefreshResult(s, ok)
<1>1. Base(p) /\ Same(s, p) /\ Moved(s, p)
  BY PumpRefreshFits
<1>2. StartAsyncRefresh(s, ok) = IF p.rq.phase # "Idle" THEN p ELSE Launch(p, ok)
  BY DEF StartAsyncRefresh
<1> HIDE DEF p
<1>3. p.ui.shut # "Running" /\ (p.rq.phase = "Idle" => p.ui.ret = "Idle")
  BY <1>1 DEF Same, Moved, Base, Core, Asked, States, Uis
<1>4. p.rq.phase = "Idle" => Base(Launch(p, ok)) /\ Same(p, Launch(p, ok)) /\ Launch(p, ok).ui = p.ui
  BY <1>1, <1>3, LaunchFits DEF Base
<1>. QED BY <1>1, <1>2, <1>4 DEF Same, Moved

(* The rooms screen is entered. *)
LEMMA EnterRoomsFits == ASSUME NEW s, Base(s), NEW ok \in BOOLEAN,
     s.ui.shut = "Running" => s.ui.ret = "WaitingForShutdown"
  PROVE LET t == EnterRooms(s, ok) IN Base(t) /\ Same(s, t) /\ Moved(s, t)
<1> DEFINE p == PumpRefreshResult(s, ok)
           t == IF p.ui.ret = "WaitingForShutdown" THEN p ELSE StartAsyncRefresh(p, ok)
<1>1. Base(p) /\ Same(s, p) /\ Moved(s, p)
  BY PumpRefreshFits
<1> HIDE DEF p
<1>2. Base(t) /\ Same(s, t) /\ Moved(s, t)
  BY <1>1, StartRefreshFits DEF Same, Moved
<1>3. EnterRooms(s, ok) = RebuildMenuEntries(t)
  BY DEF EnterRooms, p
<1> HIDE DEF t
<1>. QED BY <1>2, <1>3, RebuildFits DEF Base, Core, Asked, Same, Moved

(* What a request under way brings will be dropped. *)
LEMMA InvalidateFits == ASSUME NEW s, Base(s)
  PROVE LET t == InvalidateRefreshResults(s) IN
        Base(t) /\ Same(s, t) /\ t.ui = s.ui /\ ~t.rq.current
<1> DEFINE q == [s.rq EXCEPT !.current = FALSE, !.phase = DiscardResult(@), !.found = 0]
<1>1. q \in Rqs /\ ~q.current /\ ~q.early
  <2>1. s.rq \in Rqs /\ ~s.rq.early
    BY DEF Base, Core, States, ListIsNew
  <2>2. DiscardResult(s.rq.phase) \in Phases
    BY <2>1 DEF Rqs, Phases, Results, DiscardResult
  <2>3. q \in Rqs
    BY <2>1, <2>2, NoRooms DEF Rqs
  <2>4. q.current = FALSE /\ q.early = s.rq.early
    BY <2>1 DEF Rqs
  <2>. QED BY <2>1, <2>3, <2>4
<1>2. InvalidateRefreshResults(s) = [s EXCEPT !.rq = q]
  BY DEF Base, Core, Asked, States, Rqs, InvalidateRefreshResults
<1> HIDE DEF q
<1>3. q.phase = "Idle" <=> s.rq.phase = "Idle"
  <2>1. s.rq \in Rqs
    BY DEF Base, Core, States
  <2>. QED BY <2>1 DEF q, Rqs, DiscardResult, Results
<1> DEFINE t == [s EXCEPT !.rq = q]
<1>4. t.ui = s.ui /\ t.rq = q /\ t.act = s.act /\ t.aw = s.aw
  BY DEF Base, Core, States
<1>5. Asked(t)
  BY <1>3, <1>4 DEF Base, Asked
<1>6. Base(t)
  BY <1>1, <1>5, RqWrite DEF Base
<1> HIDE DEF t
<1>. QED BY <1>1, <1>2, <1>4, <1>6 DEF Same, t

(* The rooms screen is left, with no join under way. *)
LEMMA LeaveRoomsFits == ASSUME NEW s, Base(s), NEW ok \in BOOLEAN, NEW late \in BOOLEAN,
     s.act = "Idle", s.ui.ret = "RefreshPending" => s.ui.shut # "Running"
  PROVE LET t == LeaveRooms(s, ok, late) IN Base(t) /\ Same(s, t) /\ Moved(s, t)
<1> DEFINE p == IF late THEN s ELSE PumpRefreshResult(s, ok)
           q == InvalidateRefreshResults(p)
           r == InvalidateRoomActionResults(q)
<1>1. Base(p) /\ Same(s, p) /\ Moved(s, p)
  BY PumpRefreshFits DEF Same, Moved
<1> HIDE DEF p
<1>2. Base(q) /\ Same(s, q) /\ Moved(s, q)
  BY <1>1, InvalidateFits DEF Same, Moved
<1> HIDE DEF q
<1>3. r = q
  BY <1>2 DEF Same, InvalidateRoomActionResults, DiscardResult, Results, Base, Core, Asked, States
<1>4. LeaveRooms(s, ok, late) = SwitchView(q, "Root")
  BY <1>3 DEF LeaveRooms, p, q
<1>. QED BY <1>2, <1>4, SwitchViewFits DEF Same, Moved

(* The end of a closing session is noticed. *)
LEMMA ClosingFits == ASSUME NEW s, Base(s), NEW ok \in BOOLEAN
  PROVE LET t == PumpLobbySessionShutdown(s, ok) IN
        /\ Base(t) /\ t.act = s.act /\ t.aw = s.aw /\ t.ui.menu = s.ui.menu
           /\ t.ui.session = s.ui.session
        /\ t.ui.bg = s.ui.bg /\ t.ui.leave = s.ui.leave /\ t.ui.pending = s.ui.pending
        /\ t.ui.shut = IF s.ui.shut = "Completed" THEN "Idle" ELSE s.ui.shut
        /\ t.ui.shut = "Running" => t.ui.ret = s.ui.ret
<1> DEFINE p == [s EXCEPT !.ui.shut = "Idle", !.ui.toRooms = FALSE]
           q == [p EXCEPT !.ui.ret = "RefreshPending"]
           r == [p EXCEPT !.ui.ret = "Idle"]
<1>1. Base(p) /\ (p.ui.ret # "Idle" /\ p.rq.phase # "Idle" => Base(q)) /\ Base(r)
      /\ p.ui.shut = "Idle" /\ p.ui.menu = s.ui.menu /\ p.ui.session = s.ui.session
         /\ p.ui.bg = s.ui.bg /\ p.ui.leave = s.ui.leave /\ p.act = s.act /\ p.aw = s.aw
      /\ p.ui.pending = s.ui.pending /\ Same(p, q) /\ Same(p, r) /\ r.ui.ret = "Idle"
  <2> DEFINE u == [s.ui EXCEPT !.shut = "Idle", !.toRooms = FALSE]
             v == [u EXCEPT !.ret = "RefreshPending"]
             w == [u EXCEPT !.ret = "Idle"]
  <2>0. s.ui \in Uis
    BY DEF Base, Core, Asked, States
  <2>1. u \in Uis /\ u = [s.ui EXCEPT !.shut = "Idle", !.toRooms = FALSE]
    BY <2>0 DEF Uis
  <2>2. v \in Uis /\ w \in Uis
    BY <2>1 DEF Uis
  <2>3. p = [s EXCEPT !.ui = u] /\ q = [s EXCEPT !.ui = v] /\ r = [s EXCEPT !.ui = w]
    BY DEF Base, Core, Asked, States
  <2>4. u.scroll = s.ui.scroll /\ u.rooms = s.ui.rooms /\ u.slots = s.ui.slots
       /\ u.view = s.ui.view
        /\ u.ret = s.ui.ret /\ u.menu = s.ui.menu /\ u.session = s.ui.session
           /\ u.bg = s.ui.bg
        /\ u.leave = s.ui.leave /\ u.shut = "Idle" /\ u.pending = s.ui.pending
    BY <2>0 DEF Uis
  <2>u. u \in Uis
    BY <2>1
  <2> HIDE DEF u
  <2>5a. v.ret = "RefreshPending" /\ w.ret = "Idle" /\ u.ret = s.ui.ret
    BY <2>u, <2>4 DEF Uis
  <2>5. \A x \in {v, w} : /\ x.scroll = u.scroll /\ x.rooms = u.rooms /\ x.slots = u.slots
       /\ x.view = u.view
        /\ x.menu = u.menu /\ x.session = u.session /\ x.bg = u.bg
        /\ x.leave = u.leave /\ x.shut = u.shut /\ x.pending = u.pending
    <3>1. \A k \in {"RefreshPending", "Idle"} :
            LET x == [u EXCEPT !.ret = k]
            IN  /\ x.scroll = u.scroll /\ x.rooms = u.rooms /\ x.slots = u.slots
                /\ x.view = u.view
                /\ x.menu = u.menu /\ x.session = u.session /\ x.bg = u.bg
                /\ x.leave = u.leave /\ x.shut = u.shut /\ x.pending = u.pending
      BY <2>u DEF Uis
    <3>. QED BY <3>1, Zenon
  <2> HIDE DEF v, w
  <2>6. /\ Base([s EXCEPT !.ui = u]) /\ Base([s EXCEPT !.ui = w])
        /\ s.ui.ret # "Idle" /\ s.rq.phase # "Idle" => Base([s EXCEPT !.ui = v])
    <3>1. s.ui.ret # "Idle" => ~s.rq.current
      BY DEF Base, Core, ListIsNew
    <3>2. MayOwe(s, u) /\ MayOwe(s, w)
      BY <2>5a DEF MayOwe
    <3>3. s.ui.ret # "Idle" /\ s.rq.phase # "Idle" => MayOwe(s, v)
      BY <3>1 DEF MayOwe
    <3>4. v.scroll = s.ui.scroll /\ v.rooms = s.ui.rooms /\ v.slots = s.ui.slots /\ v.view = s.ui.view
      BY <2>4, <2>5
    <3>5. w.scroll = s.ui.scroll /\ w.rooms = s.ui.rooms /\ w.slots = s.ui.slots /\ w.view = s.ui.view
      BY <2>4, <2>5
    <3>6. Base([s EXCEPT !.ui = u])
      BY <2>u, <2>4, <3>2, UiWrite
    <3>7. Base([s EXCEPT !.ui = w])
      BY <2>2, <3>2, <3>5, UiWrite
    <3>8. ASSUME s.ui.ret # "Idle" /\ s.rq.phase # "Idle" PROVE Base([s EXCEPT !.ui = v])
      BY <2>2, <3>3, <3>4, <3>8, UiWrite
    <3>. QED BY <3>6, <3>7, <3>8
  <2>7. \A x \in Uis : [s EXCEPT !.ui = x].ui = x /\ [s EXCEPT !.ui = x].act = s.act
                       /\ [s EXCEPT !.ui = x].aw = s.aw /\ [s EXCEPT !.ui = x].rq = s.rq
    BY DEF Base, Core, Asked, States
  <2>8. /\ Base(p) /\ p.ui = u /\ p.act = s.act /\ p.aw = s.aw /\ p.rq = s.rq
        /\ s.ui.ret # "Idle" /\ s.rq.phase # "Idle" => Base(q)
        /\ q.ui = v /\ q.act = s.act /\ q.aw = s.aw
        /\ Base(r) /\ r.ui = w /\ r.act = s.act /\ r.aw = s.aw
    <3>. HIDE DEF p, q, r
    <3>. QED BY <2>u, <2>2, <2>3, <2>6, <2>7
  <2>. HIDE DEF p, q, r
  <2>. QED BY <2>4, <2>5, <2>5a, <2>8 DEF Same
<1>2. PumpLobbySessionShutdown(s, ok) =
        IF s.ui.shut # "Completed" THEN s
        ELSE IF ~s.ui.toRooms THEN p
        ELSE IF p.ui.ret = "Idle" THEN p
        ELSE IF p.rq.phase # "Idle" THEN q ELSE StartAsyncRefresh(r, ok)
  BY DEF PumpLobbySessionShutdown, NotifyLobbySessionShutdownCompleted
<1> HIDE DEF p, q, r
<1>. QED BY <1>1, <1>2, StartRefreshFits DEF Same

(* What closing a session leaves. *)
Closes(s, t, toRooms) ==
  /\ Base(t) /\ t.act = s.act /\ t.aw = s.aw /\ t.ui.menu = s.ui.menu
  /\ t.ui.leave = s.ui.leave /\ t.ui.session = "none" /\ t.ui.pending = s.ui.pending
  /\ toRooms /\ s.ui.session # "none" => t.ui.ret = "WaitingForShutdown"

(* A session is closed, if there is one. *)
LEMMA BeginClosingFits == ASSUME NEW s, Base(s), NEW toRooms \in BOOLEAN, NEW ok \in BOOLEAN
  PROVE Closes(s, BeginLobbySessionShutdown(s, toRooms, ok), toRooms)
<1> DEFINE p == PumpLobbySessionShutdown(s, ok)
           c == [p EXCEPT !.ui.bg = FALSE, !.ui.shut = "Running", !.ui.toRooms = toRooms,
                           !.ui.session = "none"]
           d == [c EXCEPT !.ui.ret = "WaitingForShutdown"]
<1>1. Base(p) /\ p.act = s.act /\ p.aw = s.aw /\ p.ui.menu = s.ui.menu
     /\ p.ui.session = s.ui.session /\ p.ui.leave = s.ui.leave
      /\ p.ui.pending = s.ui.pending
  BY ClosingFits
<1> HIDE DEF p
<1>2. Base(c) /\ c.act = p.act /\ c.aw = p.aw /\ c.ui.menu = p.ui.menu
     /\ c.ui.session = "none" /\ c.ui.leave = p.ui.leave
      /\ c.ui.pending = p.ui.pending
  <2> DEFINE u == [p.ui EXCEPT !.bg = FALSE, !.shut = "Running", !.toRooms = toRooms,
       !.session = "none"]
  <2>1. p.ui \in Uis
    BY <1>1 DEF Base, Core, Asked, States
  <2>2. u \in Uis
    BY <2>1 DEF Uis
  <2>3. c = [p EXCEPT !.ui = u]
    BY <1>1 DEF Base, Core, Asked, States
  <2>4. u.scroll = p.ui.scroll /\ u.rooms = p.ui.rooms /\ u.slots = p.ui.slots
       /\ u.view = p.ui.view
        /\ u.ret = p.ui.ret /\ u.menu = p.ui.menu /\ u.session = "none"
        /\ u.leave = p.ui.leave /\ u.pending = p.ui.pending
    BY <2>1 DEF Uis
  <2> HIDE DEF u
  <2>5. Base([p EXCEPT !.ui = u])
    BY <1>1, <2>2, <2>4, UiStep
  <2>. QED BY <1>1, <2>3, <2>4, <2>5 DEF Base, Core, Asked, States
<1> HIDE DEF c
<1> DEFINE k == InvalidateRefreshResults(c)
           u == [c.ui EXCEPT !.ret = "WaitingForShutdown"]
           e == [k EXCEPT !.ui = u]
<1>3. /\ Base(k) /\ k.act = p.act /\ k.aw = p.aw /\ k.ui = c.ui /\ ~k.rq.current
  BY <1>2, InvalidateFits DEF Same
<1>6. InvalidateRefreshResults(d) = e
  BY <1>2 DEF InvalidateRefreshResults, Base, Core, States, Rqs
<1> HIDE DEF k
<1>4. /\ u \in Uis /\ u.scroll = k.ui.scroll /\ u.rooms = k.ui.rooms /\ u.slots = k.ui.slots
      /\ u.view = k.ui.view /\ u.menu = c.ui.menu /\ u.session = c.ui.session
      /\ u.leave = c.ui.leave /\ u.pending = c.ui.pending /\ u.ret = "WaitingForShutdown"
  <2>1. c.ui \in Uis /\ k.ui = c.ui
    BY <1>2, <1>3 DEF Base, Core, States
  <2>. QED BY <2>1 DEF Uis
<1> HIDE DEF u
<1>7. /\ Base(e) /\ e.act = p.act /\ e.aw = p.aw /\ e.ui = u
  <2>1. Base([k EXCEPT !.ui = u])
    BY <1>3, <1>4, UiWrite DEF MayOwe
  <2>. QED BY <1>3, <2>1 DEF Base, Core, States
<1> HIDE DEF e
<1>5. BeginLobbySessionShutdown(s, toRooms, ok) =
        IF p.ui.session = "none" THEN p ELSE IF toRooms THEN e ELSE c
  BY <1>6 DEF BeginLobbySessionShutdown, NotifyLobbySessionShutdownStarted, p, c
<1> HIDE DEF d
<1>8. Closes(s, c, FALSE)
  BY <1>1, <1>2 DEF Closes
<1>9. Closes(s, e, TRUE)
  BY <1>1, <1>2, <1>4, <1>7 DEF Closes
<1>10. p.ui.session = "none" => Closes(s, p, toRooms)
  BY <1>1 DEF Closes
<1> HIDE DEF p
<1>. QED
  <2>1. CASE p.ui.session = "none"
    BY <1>5, <1>10, <2>1
  <2>2. CASE p.ui.session # "none" /\ toRooms = TRUE
    BY <1>5, <1>9, <2>2
  <2>3. CASE p.ui.session # "none" /\ toRooms = FALSE
    BY <1>5, <1>8, <2>3
  <2>. QED BY <2>1, <2>2, <2>3

(* Whoever is in a room is not leaving one. *)
OneAt(s) == s.ui.session # "none" => s.ui.shut # "Running"
HiddenAt(s) == s.ui.session # "none" => s.ui.menu \in {"Lobby", "Match"} \/ s.ui.bg
ActAt(s) == s.act # "Idle" => /\ s.ui.menu \in {"PlayerRooms", "Exit"}
                              /\ s.ui.menu = "PlayerRooms" => s.ui.shut # "Running"
WaitAt(s) == s.ui.menu = "PlayerRooms"
     /\ s.ui.shut = "Running" => s.ui.ret = "WaitingForShutdown"
ShownAt(s) == s.ui.menu = "Lobby" => ~s.ui.bg
Good(s) == Base(s) /\ OneAt(s) /\ HiddenAt(s) /\ ActAt(s) /\ WaitAt(s) /\ ShownAt(s)
RoomsInv == Good(All)

(* A change of the list alone. *)
LEMMA SameIsGood == ASSUME NEW s, Good(s), NEW t, Base(t), Same(s, t), Moved(s, t)
  PROVE Good(t)
BY DEF Good, Same, Moved, OneAt, HiddenAt, ActAt, WaitAt, ShownAt

(* The pump of the closing session, at any time. *)
LEMMA ClosingIsGood == ASSUME NEW s, Good(s), NEW ok \in BOOLEAN
  PROVE Good(PumpLobbySessionShutdown(s, ok))
BY ClosingFits DEF Good, OneAt, HiddenAt, ActAt, WaitAt, ShownAt

(* The types of the fields. *)
LEMMA UiField == ASSUME NEW s, Base(s)
  PROVE /\ s.ui \in Uis /\ s.ui.menu \in Menus /\ s.ui.session \in {"none", "room", "global"}
        /\ s.ui.bg \in BOOLEAN /\ s.ui.pending \in BOOLEAN
        /\ s.ui.leave \in {"none", "Lobby", "PlayerRooms", "Host"}
        /\ s.ui.shut \in {"Idle", "Running", "Completed"} /\ s.act \in Phases
        /\ s.ui.view \in {"Root", "Join", "Create"}
BY DEF Base, Core, Asked, States, Uis

(* SwitchToMenu, when no join is under way: a session is only begun when none is *)
(* being closed, and the rooms are only reached from a room that is closed, or   *)
(* when nothing is.                                                              *)
LEMMA SwitchFits == ASSUME NEW s, Base(s), NEW m \in {"Main", "PlayerRooms", "Lobby", "Host"},
    NEW ok \in BOOLEAN, NEW late \in BOOLEAN,
    s.act = "Idle", OneAt(s), HiddenAt(s) \/ m = "Lobby", WaitAt(s),
    m = "Lobby" /\ s.ui.session = "none" => s.ui.shut # "Running",
    m = "PlayerRooms" => /\ s.ui.menu = "Lobby" => s.ui.session = "room" /\ ~s.ui.bg
                         /\ s.ui.menu # "Lobby" => s.ui.shut # "Running",
    s.ui.menu # "Match" \/ m = "Lobby"
  PROVE LET t == SwitchToMenu(s, m, ok, late) IN Good(t) /\ t.ui.menu = m
<1> DEFINE pumped == PumpLobbySessionShutdown(s, ok)
           leaves == pumped.ui.menu = "PlayerRooms" /\ m \notin {"PlayerRooms", "Lobby"}
           left == IF leaves THEN LeaveRooms(pumped, ok, late) ELSE pumped
           toRooms == m = "PlayerRooms" /\ left.ui.session = "room"
           closed == IF ClosesSession(left, m) THEN BeginLobbySessionShutdown(left, toRooms,
                ok) ELSE left
           there == [closed EXCEPT !.ui.menu = m, !.ui.bg = @ /\ m # "Lobby"]
           inRoom == [there EXCEPT !.ui.session = IF there.ui.pending THEN "room" ELSE "global",
                          !.ui.pending = FALSE]
<1>0. SwitchToMenu(s, m, ok, late) =
        CASE m = "PlayerRooms" -> EnterRooms(there, ok)
          [] m = "Lobby" /\ there.ui.session = "none" -> inRoom
          [] OTHER -> there
  BY DEF SwitchToMenu
<1>1. /\ Base(pumped) /\ pumped.act = "Idle" /\ pumped.ui.menu = s.ui.menu
     /\ pumped.ui.session = s.ui.session
      /\ pumped.ui.bg = s.ui.bg /\ (pumped.ui.shut = "Running" => s.ui.shut = "Running")
      /\ WaitAt(pumped)
  BY ClosingFits DEF WaitAt
<1> HIDE DEF pumped
<1>2. /\ Base(left) /\ left.act = "Idle" /\ left.ui.menu = s.ui.menu
     /\ left.ui.session = s.ui.session
      /\ left.ui.bg = s.ui.bg /\ (left.ui.shut = "Running" => s.ui.shut = "Running")
  BY <1>1, LeaveRoomsFits DEF Same, WaitAt
<1> HIDE DEF left
<1>3. CASE ClosesSession(left, m)
  <2>1. closed = BeginLobbySessionShutdown(left, toRooms, ok) /\ toRooms \in BOOLEAN
    BY <1>3
  <2>2. toRooms <=> m = "PlayerRooms"
    BY <1>2, <1>3 DEF ClosesSession
  <2>3. left.ui.session # "none" /\ m # "Lobby"
    BY <1>3 DEF ClosesSession
  <2> HIDE DEF toRooms, closed
  <2>. QED
    <3>1. Base(closed) /\ closed.act = "Idle" /\ closed.ui.session = "none"
          /\ (m = "PlayerRooms" => closed.ui.ret = "WaitingForShutdown")
      <4>1. Closes(left, closed, toRooms)
        BY ONLY <1>2, <2>1, ok \in BOOLEAN, BeginClosingFits
      <4>. QED BY <1>2, <2>2, <2>3, <4>1 DEF Closes
    <3>2. /\ Base(there) /\ there.act = "Idle" /\ there.ui.session = "none" /\ there.ui.menu = m
          /\ m = "PlayerRooms" => there.ui.ret = "WaitingForShutdown"
      <4> DEFINE u == [closed.ui EXCEPT !.menu = m, !.bg = @ /\ m # "Lobby"]
      <4>1. closed.ui \in Uis
        BY <3>1 DEF Base, Core, Asked, States
      <4>2. u \in Uis
        BY <4>1 DEF Uis, Menus
      <4>3. u.scroll = closed.ui.scroll /\ u.rooms = closed.ui.rooms
           /\ u.slots = closed.ui.slots /\ u.view = closed.ui.view
            /\ u.ret = closed.ui.ret /\ u.menu = m /\ u.session = closed.ui.session
               /\ u.ret = closed.ui.ret
        BY <4>1 DEF Uis
      <4>4. there = [closed EXCEPT !.ui = u]
        BY <3>1 DEF Base, Core, Asked, States
      <4> HIDE DEF u
      <4>5. Base([closed EXCEPT !.ui = u])
        BY <3>1, <4>2, <4>3, UiStep
      <4> HIDE DEF there
      <4>. QED BY <3>1, <4>3, <4>4, <4>5 DEF Base, Core, Asked, States
    <3>3. SwitchToMenu(s, m, ok, late) = IF m = "PlayerRooms" THEN EnterRooms(there,
         ok) ELSE there
      <4> HIDE DEF there, inRoom
      <4>. QED BY <1>0, <2>3
    <3> HIDE DEF there
    <3>4. Good(there)
      BY <3>2, <2>3 DEF Good, OneAt, HiddenAt, ActAt, WaitAt, ShownAt
    <3>. QED BY <3>2, <3>3, <3>4, EnterRoomsFits, SameIsGood DEF Same, Good, WaitAt
<1>4. CASE ~ClosesSession(left, m)
  <2>1. closed = left
    BY <1>4
  <2>2. left.ui.session # "none" /\ m # "Lobby" => left.ui.bg
    BY <1>2, <1>4 DEF ClosesSession, HiddenAt
  <2>3. m = "PlayerRooms" => left.ui.shut # "Running"
    BY <1>2, <1>4 DEF ClosesSession
  <2>4. left.ui.session # "none" => left.ui.shut # "Running"
    BY <1>2 DEF OneAt
  <2>5. m = "Lobby" => left.ui.shut # "Running"
    BY <1>2, <2>4
  <2> HIDE DEF closed
  <2>6. /\ Base(there) /\ there.act = "Idle" /\ there.ui.session = left.ui.session
       /\ there.ui.menu = m
        /\ there.ui.shut = left.ui.shut /\ (there.ui.bg <=> left.ui.bg /\ m # "Lobby")
    <3> DEFINE u == [left.ui EXCEPT !.menu = m, !.bg = @ /\ m # "Lobby"]
    <3>1. left.ui \in Uis
      BY <1>2 DEF Base, Core, Asked, States
    <3>2. u \in Uis
      BY <3>1 DEF Uis, Menus
    <3>3. u.scroll = left.ui.scroll /\ u.rooms = left.ui.rooms /\ u.slots = left.ui.slots
         /\ u.view = left.ui.view
          /\ u.ret = left.ui.ret /\ u.menu = m /\ u.session = left.ui.session
             /\ u.shut = left.ui.shut
      BY <3>1 DEF Uis
    <3>6. u.bg <=> left.ui.bg /\ m # "Lobby"
      BY <3>1 DEF Uis
    <3>4. there = [left EXCEPT !.ui = u]
      BY <1>2, <2>1 DEF Base, Core, Asked, States
    <3> HIDE DEF u
    <3>5. Base([left EXCEPT !.ui = u])
      BY <1>2, <3>2, <3>3, UiStep
    <3> HIDE DEF there
    <3>. QED BY <1>2, <3>3, <3>4, <3>5, <3>6 DEF Base, Core, Asked, States
  <2>7. SwitchToMenu(s, m, ok, late) = IF m = "PlayerRooms" THEN EnterRooms(there, ok)
        ELSE IF m = "Lobby" /\ there.ui.session = "none" THEN inRoom ELSE there
    <3> HIDE DEF there, inRoom
    <3>. QED BY <1>0
  <2> HIDE DEF there
  <2>8. Good(there)
    BY <2>2, <2>3, <2>4, <2>5, <2>6 DEF Good, OneAt, HiddenAt, ActAt, WaitAt, ShownAt
  <2>9. ASSUME m = "Lobby" PROVE Good(inRoom) /\ inRoom.ui.menu = m
    <3> DEFINE u == [there.ui EXCEPT !.session = IF there.ui.pending THEN "room" ELSE "global",
                          !.pending = FALSE]
    <3>1. there.ui \in Uis
      BY <2>6 DEF Base, Core, Asked, States
    <3>2. u \in Uis
      BY <3>1 DEF Uis
    <3>3. u.scroll = there.ui.scroll /\ u.rooms = there.ui.rooms /\ u.slots = there.ui.slots
         /\ u.view = there.ui.view
          /\ u.ret = there.ui.ret /\ u.menu = there.ui.menu /\ u.bg = there.ui.bg
             /\ u.shut = there.ui.shut
      BY <3>1 DEF Uis
    <3>4. inRoom = [there EXCEPT !.ui = u]
      BY <2>6 DEF Base, Core, Asked, States
    <3> HIDE DEF u
    <3>5. Base([there EXCEPT !.ui = u])
      BY <2>6, <3>2, <3>3, UiStep
    <3> HIDE DEF inRoom
    <3>6. Base(inRoom) /\ inRoom.ui = u /\ inRoom.act = "Idle"
      BY <2>6, <3>4, <3>5 DEF Base, Core, Asked, States
    <3>. QED BY <2>5, <2>6, <2>9, <3>3, <3>6 DEF Good, OneAt, HiddenAt, ActAt, WaitAt, ShownAt
  <2> HIDE DEF inRoom
  <2>. QED BY <2>6, <2>7, <2>8, <2>9, EnterRoomsFits, SameIsGood DEF Same, Good, WaitAt
<1>. QED BY <1>3, <1>4

(* A step to a good state. *)
LEMMA GoodStep == ASSUME NEW s, Good(s), Becomes(s) PROVE RoomsInv'
<1>1. s = [ui |-> s.ui, rq |-> s.rq, act |-> s.act, rw |-> s.rw, aw |-> s.aw]
  BY DEF Good, Base, Core, Asked, States
<1>2. All' = s
  BY <1>1 DEF Becomes, All
<1>. QED BY <1>2 DEF RoomsInv

(* The state as a record. *)
LEMMA AllFields == /\ All.ui = ui /\ All.rq = rq /\ All.act = act /\ All.rw = rw /\ All.aw = aw
BY DEF All

(* The first pump of a frame. *)
LEMMA FrameIsGood == ASSUME RoomsInv, NEW ok \in BOOLEAN
  PROVE /\ Good(Frame(ok)) /\ Frame(ok).ui.menu = ui.menu /\ Frame(ok).ui.session = ui.session
        /\ Frame(ok).act = act /\ Frame(ok).ui.leave = ui.leave
BY ClosingIsGood, ClosingFits, AllFields DEF RoomsInv, Frame, Good

(* The pumps of the rooms screen. *)
LEMMA AtRoomsIsGood == ASSUME RoomsInv, ui.menu = "PlayerRooms", NEW ok \in BOOLEAN
  PROVE Good(AtRooms(ok)) /\ AtRooms(ok).ui.menu = ui.menu /\ AtRooms(ok).act = act
<1> DEFINE f == Frame(ok)
<1>1. Good(f) /\ f.ui.menu = ui.menu /\ f.act = act
  BY FrameIsGood
<1>2. AtRooms(ok) = PumpRefreshResult(f, ok)
  BY DEF AtRooms
<1> HIDE DEF f
<1>3. Base(f) /\ (f.ui.ret = "RefreshPending" => f.ui.shut # "Running")
  BY <1>1 DEF Good, WaitAt
<1>. QED BY <1>1, <1>2, <1>3, PumpRefreshFits, SameIsGood DEF Same

(* A frame of the rooms screen: a joined room is entered. *)
LEMMA RoomsFrameSafe == ASSUME RoomsInv, NEW ok \in BOOLEAN, RoomsFrame(ok) PROVE RoomsInv'
<1> DEFINE s == AtRooms(ok)
<1>1. Good(s) /\ s.ui.menu = "PlayerRooms" /\ s.act = act
  BY AtRoomsIsGood DEF RoomsFrame
<1>2. Becomes(IF s.act \in Results THEN PumpRoomActionResult(s, ok) ELSE s)
  BY DEF RoomsFrame, AtRooms
<1> HIDE DEF s
<1> DEFINE t == [s EXCEPT !.act = "Idle"]
           j == [t EXCEPT !.ui.pending = TRUE]
<1>3. ASSUME s.act \in Results PROVE Good(t) /\ t.ui = s.ui /\ t.act = "Idle"
  <2>1. s \in States /\ ~s.aw
    BY <1>1, <1>3 DEF Good, Base, Core, Asked, Results
  <2>2. t \in States /\ t.ui = s.ui /\ t.rq = s.rq /\ t.act = "Idle" /\ ~t.aw
    BY <2>1 DEF States, Phases
  <2> HIDE DEF t
  <2>. QED BY <1>1, <2>2 DEF Good, Base, Core, Asked, ScrollFits, SlotsFit, ListIsNew, OneAt, HiddenAt,
       ActAt, WaitAt, ShownAt
<1>4. ASSUME s.act \in Results PROVE Base(j) /\ j.act = "Idle" /\ OneAt(j) /\ HiddenAt(j)
     /\ j.ui.menu = "PlayerRooms" /\ j.ui.shut # "Running"
  <2>1. Good(t) /\ t.ui = s.ui /\ t.act = "Idle" /\ s.ui.shut # "Running"
    BY <1>1, <1>3, <1>4 DEF Good, ActAt, Results
  <2> HIDE DEF t
  <2> DEFINE u == [t.ui EXCEPT !.pending = TRUE]
  <2>2. t.ui \in Uis
    BY <2>1 DEF Good, Base, Core, Asked, States
  <2>3. u \in Uis /\ u.scroll = t.ui.scroll /\ u.rooms = t.ui.rooms /\ u.slots = t.ui.slots
       /\ u.view = t.ui.view
        /\ u.ret = t.ui.ret /\ u.menu = t.ui.menu /\ u.session = t.ui.session
           /\ u.bg = t.ui.bg /\ u.shut = t.ui.shut
    BY <2>2 DEF Uis
  <2>4. j = [t EXCEPT !.ui = u]
    BY <2>1 DEF Good, Base, Core, Asked, States
  <2> HIDE DEF u
  <2>5. Base(j) /\ j.ui = u /\ j.act = t.act
    <3>1. Base([t EXCEPT !.ui = u]) /\ [t EXCEPT !.ui = u].ui = u
         /\ [t EXCEPT !.ui = u].act = t.act
      BY <2>1, <2>3, UiStep DEF Good
    <3>. QED BY <2>4, <3>1
  <2> HIDE DEF j
  <2>. QED BY <1>1, <2>1, <2>3, <2>5 DEF Good, OneAt, HiddenAt
<1>5. PumpRoomActionResult(s, ok) = IF s.act = "Succeeded" THEN SwitchToMenu(j, "Lobby", ok,
     FALSE) ELSE t
  BY DEF PumpRoomActionResult
<1> HIDE DEF t, j
<1>6. ASSUME s.act \in Results PROVE Good(SwitchToMenu(j, "Lobby", ok, FALSE))
  BY <1>4, <1>6, SwitchFits DEF WaitAt
<1>. QED BY <1>1, <1>2, <1>3, <1>5, <1>6, GoodStep

(* A frame of another screen. *)
LEMMA OtherFrameSafe == ASSUME RoomsInv, NEW ok \in BOOLEAN, OtherFrame(ok) PROVE RoomsInv'
BY FrameIsGood, GoodStep DEF OtherFrame

(* The list is scrolled. *)
LEMMA ScrollSafe == ASSUME RoomsInv, NEW d \in {-1, 1}, Scroll(d) PROVE RoomsInv'
<1> DEFINE t == [All EXCEPT !.ui.scroll = @ + d]
           u == [ui EXCEPT !.scroll = @ + d]
<1>1. All \in States /\ ui \in Uis /\ rq \in Rqs /\ act \in Phases /\ rw \in BOOLEAN
     /\ aw \in BOOLEAN
  BY AllFields DEF RoomsInv, Good, Base, Core, Asked, States
<1>2. ui.scroll + d \in 0..MaxListScroll(ui.rooms) /\ ui.rooms \in 0..MaxRooms
     /\ ui.scroll \in 0..MaxRooms
  BY <1>1 DEF Scroll, Uis
<1>3. ui.scroll + d \in 0..MaxRooms
  BY <1>2, ScrollLimit, RoomsAssumption
<1>4. u \in Uis /\ u.scroll = ui.scroll + d /\ u.rooms = ui.rooms /\ u.ret = ui.ret
      /\ u.menu = ui.menu /\ u.session = ui.session /\ u.bg = ui.bg /\ u.shut = ui.shut
      /\ u.leave = ui.leave /\ u.pending = ui.pending /\ u.ret = ui.ret
  BY <1>1, <1>3 DEF Uis
<1>5. t = [ui |-> u, rq |-> rq, act |-> act, rw |-> rw, aw |-> aw]
  BY DEF All
<1> HIDE DEF u, t
<1>6. t \in States
  BY <1>1, <1>4, <1>5 DEF States
<1>7. ScrollFits(t) /\ ListIsNew(t) /\ (t.aw => t.act = "Running") /\ Same(All, t)
     /\ t.ui.ret = ui.ret
  BY <1>2, <1>4, <1>5, AllFields DEF RoomsInv, Good, Base, Core, Asked, ScrollFits, ListIsNew, Same
<1>8. Good(RebuildMenuEntries(t))
  <2>1. Asked(t)
    BY <1>4, <1>5, AllFields DEF RoomsInv, Good, Base, Asked
  <2>2. Base(RebuildMenuEntries(t)) /\ Same(All, RebuildMenuEntries(t)) /\ Moved(All, RebuildMenuEntries(t))
    BY <1>6, <1>7, <2>1, RebuildFits, AllFields DEF Same, Moved
  <2>. QED BY <2>2, SameIsGood DEF RoomsInv
<1>. QED BY <1>8, GoodStep DEF Scroll, t

(* Another view. *)
LEMMA OpenViewSafe ==
  ASSUME RoomsInv, NEW ok \in BOOLEAN, NEW v \in {"Join", "Create"}, OpenView(ok,
       v) PROVE RoomsInv'
<1>1. Good(SwitchView(AtRooms(ok), v))
  BY AtRoomsIsGood, SwitchViewFits, SameIsGood DEF Good, Moved, OpenView
<1>. QED BY <1>1, GoodStep DEF OpenView

(* The list is asked for. *)
LEMMA RefreshListSafe == ASSUME RoomsInv, NEW ok \in BOOLEAN, RefreshList(ok) PROVE RoomsInv'
<1>1. Good(StartAsyncRefresh(AtRooms(ok), ok))
  <2> DEFINE s == AtRooms(ok)
  <2>1. Good(s) /\ Base(s) /\ s.ui.ret # "WaitingForShutdown" /\ s.ui.shut # "Running"
    BY AtRoomsIsGood DEF Good, WaitAt, RefreshList, MayChange
  <2> HIDE DEF s
  <2>. QED BY <2>1, StartRefreshFits, SameIsGood DEF s
<1>. QED BY <1>1, GoodStep DEF RefreshList

(* A join or a creation begins: no room is being left. *)
LEMMA RoomActionFits ==
  ASSUME NEW s, Good(s), s.ui.menu = "PlayerRooms", MayChange(s), NEW ok \in BOOLEAN
  PROVE  Good(StartRoomAction(s, ok))
<1> DEFINE t == PumpRefreshResult(s, ok)
           a == [t EXCEPT !.act = "Running", !.aw = TRUE]
<1>2. Base(s) /\ s.ui.shut # "Running"
  BY DEF Good, MayChange, WaitAt
<1>1. Base(t) /\ Same(s, t) /\ Moved(s, t) /\ Good(t)
  BY <1>2, PumpRefreshFits, SameIsGood
<1> HIDE DEF t
<1>3. a \in States /\ a.ui = t.ui /\ a.rq = t.rq /\ a.act = "Running"
  BY <1>1 DEF Base, Core, Asked, States, Phases
<1>4. StartRoomAction(s, ok) \in {t, a}
  BY DEF StartRoomAction, t
<1> HIDE DEF a
<1>5. Good(a)
  BY <1>1, <1>2, <1>3 DEF Good, Base, Core, Asked, Same, ScrollFits, SlotsFit, ListIsNew, OneAt, HiddenAt,
       ActAt, WaitAt, ShownAt
<1>. QED BY <1>1, <1>4, <1>5

(* A room is created. *)
LEMMA CreateRoomSafe == ASSUME RoomsInv, NEW ok \in BOOLEAN, CreateRoom(ok) PROVE RoomsInv'
<1>1. Good(StartRoomAction(AtRooms(ok), ok))
  BY AtRoomsIsGood, RoomActionFits DEF CreateRoom
<1>. QED BY <1>1, GoodStep DEF CreateRoom

(* A room is joined. *)
LEMMA JoinRoomSafe ==
  ASSUME RoomsInv, NEW ok \in BOOLEAN, NEW i \in 0..(Slots - 1), JoinRoom(ok, i) PROVE RoomsInv'
<1>1. Good(StartRoomAction(AtRooms(ok), ok)) /\ Good(AtRooms(ok))
  BY AtRoomsIsGood, RoomActionFits DEF JoinRoom
<1>. QED BY <1>1, GoodStep DEF JoinRoom

(* Back from the rooms. *)
LEMMA BackFromRoomsSafe ==
  ASSUME RoomsInv, NEW ok \in BOOLEAN, NEW late \in BOOLEAN, BackFromRooms(ok,
       late) PROVE RoomsInv'
<1> DEFINE s == AtRooms(ok)
<1>1. Good(s) /\ s.ui.menu = "PlayerRooms" /\ s.act = "Idle"
  BY AtRoomsIsGood DEF BackFromRooms, MayExecute
<1>2. Becomes(IF s.ui.view = "Root" THEN SwitchToMenu(s, "Main", ok, late) ELSE SwitchView(s,
     "Root"))
  BY DEF BackFromRooms
<1> HIDE DEF s
<1>3. Good(SwitchToMenu(s, "Main", ok, late))
  BY <1>1, SwitchFits DEF Good
<1>4. Good(SwitchView(s, "Root"))
  BY <1>1, SwitchViewFits, SameIsGood DEF Good, Moved
<1>. QED BY <1>2, <1>3, <1>4, GoodStep

(* From the main menu, with no session being closed. *)
LEMMA OpenScreenFits ==
  ASSUME NEW s, Good(s), s.ui.menu = "Main", s.ui.shut = "Idle", NEW ok \in BOOLEAN,
         NEW m \in {"Lobby", "PlayerRooms", "Host"}
  PROVE  Good(OpenScreen(s, m, ok))
<1>1. /\ s.act = "Idle" /\ Base(s) /\ OneAt(s) /\ HiddenAt(s)
      /\ s.ui.menu \notin {"Match", "Lobby"} /\ s.ui.shut # "Running"
  BY DEF Good, ActAt
<1>2. Good(SwitchToMenu(s, m, ok, FALSE)) /\ Good(SwitchToMenu(s, "Lobby", ok, FALSE))
  <2>1. \A k \in {"Lobby", "PlayerRooms", "Host"} : Good(SwitchToMenu(s, k, ok, FALSE))
    <3>. TAKE k \in {"Lobby", "PlayerRooms", "Host"}
    <3>. QED BY <1>1, SwitchFits DEF WaitAt
  <2>. QED BY <2>1
<1>. QED BY <1>2 DEF OpenScreen

(* A screen is opened from the main menu. *)
LEMMA OpenSafe ==
  ASSUME RoomsInv, NEW ok \in BOOLEAN, NEW m \in Screens, Open(ok, m) PROVE RoomsInv'
<1>1. Good(OpenScreen(Frame(ok), m, ok))
  BY FrameIsGood, OpenScreenFits DEF Open, CanOpen, Screens
<1>. QED BY <1>1, GoodStep DEF Open

(* The session is closed from the main menu. *)
LEMMA LeftFits ==
  ASSUME NEW s, Good(s), s.ui.menu = "Main", NEW ok \in BOOLEAN
  PROVE  LET t == BeginLobbySessionShutdown(s, FALSE, ok) IN Good(t) /\ t.ui.menu = "Main"
       /\ t.ui.session = "none"
<1> DEFINE t == BeginLobbySessionShutdown(s, FALSE, ok)
<1>1. Base(s) /\ s.act = "Idle"
  BY DEF Good, ActAt
<1>2. Closes(s, t, FALSE)
  BY <1>1, BeginClosingFits
<1> HIDE DEF t
<1>3. Base(t) /\ t.act = "Idle" /\ t.ui.menu = "Main" /\ t.ui.session = "none"
  BY <1>1, <1>2 DEF Closes
<1>. QED BY <1>3 DEF Good, OneAt, HiddenAt, ActAt, WaitAt, ShownAt, t

(* A room to be left for another screen, or none any more. *)
LEMMA LeaveNoted ==
  ASSUME NEW s, Good(s), NEW m \in {"none", "Lobby", "PlayerRooms", "Host"}
  PROVE  LET t == [s EXCEPT !.ui.leave = m] IN Good(t) /\ t.ui.menu = s.ui.menu
       /\ t.ui.shut = s.ui.shut
<1> DEFINE u == [s.ui EXCEPT !.leave = m]
<1>1. s.ui \in Uis /\ Base(s)
  BY DEF Good, Base, Core, Asked, States
<1>2. u \in Uis /\ u.scroll = s.ui.scroll /\ u.rooms = s.ui.rooms /\ u.slots = s.ui.slots
     /\ u.view = s.ui.view
      /\ u.ret = s.ui.ret /\ u.menu = s.ui.menu /\ u.session = s.ui.session
         /\ u.bg = s.ui.bg
      /\ u.shut = s.ui.shut /\ u.ret = s.ui.ret
  BY <1>1 DEF Uis
<1>3. [s EXCEPT !.ui.leave = m] = [s EXCEPT !.ui = u]
  BY <1>1 DEF Base, Core, Asked, States
<1> HIDE DEF u
<1> DEFINE t == [s EXCEPT !.ui = u]
<1>4. Base(t) /\ t.ui = u /\ t.act = s.act
  BY <1>1, <1>2, UiStep
<1> HIDE DEF t
<1>5. Good(t) /\ t.ui.menu = s.ui.menu /\ t.ui.shut = s.ui.shut
  BY <1>2, <1>4 DEF Good, OneAt, HiddenAt, ActAt, WaitAt, ShownAt
<1>. QED BY <1>3, <1>5 DEF t

(* The room is left for another screen. *)
LEMMA LeaveRoomForSafe ==
  ASSUME RoomsInv, NEW ok \in BOOLEAN, NEW m \in Screens \cup {"Host"}, LeaveRoomFor(ok,
       m) PROVE RoomsInv'
<1> DEFINE b == BeginLobbySessionShutdown(Frame(ok), FALSE, ok)
<1>1. Good(b)
  BY FrameIsGood, LeftFits DEF LeaveRoomFor
<1>2. Becomes([b EXCEPT !.ui.leave = m])
  BY DEF LeaveRoomFor
<1> HIDE DEF b
<1>3. Good([b EXCEPT !.ui.leave = m])
  BY <1>1, LeaveNoted DEF Screens
<1>. QED BY <1>2, <1>3, GoodStep

(* The room was left: the other screen. *)
LEMMA PendingRoomLeaveSafe ==
  ASSUME RoomsInv, NEW ok \in BOOLEAN, PendingRoomLeave(ok) PROVE RoomsInv'
<1> DEFINE s == Frame(ok)
           t == [s EXCEPT !.ui.leave = "none"]
<1>1. Good(s) /\ s.ui.shut = "Idle" /\ ui.leave \in {"Lobby", "PlayerRooms", "Host"}
  BY FrameIsGood, UiField, AllFields DEF PendingRoomLeave, RoomsInv, Good
<1>2. Becomes(IF s.ui.menu = "Main" THEN OpenScreen(t, ui.leave, ok) ELSE t)
  BY DEF PendingRoomLeave
<1> HIDE DEF s
<1>3. Good(t) /\ t.ui.menu = s.ui.menu /\ t.ui.shut = "Idle"
  BY <1>1, LeaveNoted
<1> HIDE DEF t
<1>4. s.ui.menu = "Main" => Good(OpenScreen(t, ui.leave, ok))
  BY <1>1, <1>3, OpenScreenFits
<1>. QED BY <1>2, <1>3, <1>4, GoodStep

(* Back from the lobby. *)
LEMMA BackFromLobbySafe == ASSUME RoomsInv, NEW ok \in BOOLEAN,
     BackFromLobby(ok) PROVE RoomsInv'
<1> DEFINE s == Frame(ok)
           m == IF s.ui.session = "room" THEN "PlayerRooms" ELSE "Main"
<1>1. Good(s) /\ s.ui.menu = "Lobby"
  BY FrameIsGood DEF BackFromLobby
<1>2. Becomes(SwitchToMenu(s, m, ok, FALSE))
  BY DEF BackFromLobby
<1> HIDE DEF s
<1>3. Good(SwitchToMenu(s, m, ok, FALSE))
  <2>1. s.act = "Idle" /\ ~s.ui.bg /\ Base(s) /\ OneAt(s) /\ HiddenAt(s)
    BY <1>1 DEF Good, ActAt, ShownAt
  <2>2. /\ m \in {"Main", "PlayerRooms"} /\ m # "Lobby" /\ s.ui.menu # "Match"
        /\ m = "PlayerRooms" => s.ui.session = "room"
    BY <1>1
  <2> HIDE DEF m
  <2>. QED BY <1>1, <2>1, <2>2, SwitchFits DEF WaitAt
<1>. QED BY <1>2, <1>3, GoodStep

(* The room is kept in the background. *)
LEMMA BackgroundLobbySafe == ASSUME RoomsInv, NEW ok \in BOOLEAN,
     BackgroundLobby(ok) PROVE RoomsInv'
<1> DEFINE s == Frame(ok)
           t == [s EXCEPT !.ui.bg = TRUE]
<1>1. Good(s) /\ s.ui.menu = "Lobby"
  BY FrameIsGood DEF BackgroundLobby
<1>2. Becomes(SwitchToMenu(t, "Main", ok, FALSE))
  BY DEF BackgroundLobby
<1> HIDE DEF s
<1>3. Base(t) /\ t.act = "Idle" /\ OneAt(t) /\ HiddenAt(t) /\ t.ui.menu = "Lobby"
  <2> DEFINE u == [s.ui EXCEPT !.bg = TRUE]
  <2>1. s.ui \in Uis /\ Base(s)
    BY <1>1 DEF Good, Base, Core, Asked, States
  <2>2. u \in Uis /\ u.scroll = s.ui.scroll /\ u.rooms = s.ui.rooms /\ u.slots = s.ui.slots
       /\ u.view = s.ui.view
        /\ u.ret = s.ui.ret /\ u.menu = s.ui.menu /\ u.session = s.ui.session
           /\ u.shut = s.ui.shut
    BY <2>1 DEF Uis
  <2>3. t = [s EXCEPT !.ui = u]
    BY <2>1 DEF Base, Core, Asked, States
  <2> HIDE DEF u
  <2>4. Base(t) /\ t.ui = u /\ t.act = s.act
    <3>1. Base([s EXCEPT !.ui = u]) /\ [s EXCEPT !.ui = u].ui = u
         /\ [s EXCEPT !.ui = u].act = s.act
      BY <2>1, <2>2, UiStep
    <3>. QED BY <2>3, <3>1
  <2> HIDE DEF t
  <2>. QED BY <1>1, <2>2, <2>4 DEF Good, OneAt, HiddenAt, ActAt
<1> HIDE DEF t
<1>4. Good(SwitchToMenu(t, "Main", ok, FALSE))
  BY <1>3, SwitchFits DEF WaitAt
<1>. QED BY <1>2, <1>4, GoodStep

(* The screen alone changes, and what a step to another screen leaves. *)
MenuAt(s, m) == [s EXCEPT !.ui.menu = m]
StaysAt(s, t, m) ==
  /\ Base(t) /\ OneAt(t) /\ t.act = "Idle" /\ t.ui.menu = m
  /\ t.ui.session = s.ui.session /\ t.ui.bg = s.ui.bg

(* Another screen, the session kept. *)
LEMMA Elsewhere ==
  ASSUME NEW s, Base(s), OneAt(s), s.act = "Idle", NEW m \in {"Title", "Main", "Lobby", "Match"}
  PROVE  StaysAt(s, MenuAt(s, m), m)
<1> DEFINE u == [s.ui EXCEPT !.menu = m]
<1>1. s.ui \in Uis
  BY DEF Base, Core, Asked, States
<1>2. u \in Uis /\ u.scroll = s.ui.scroll /\ u.rooms = s.ui.rooms /\ u.slots = s.ui.slots
     /\ u.view = s.ui.view
      /\ u.ret = s.ui.ret /\ u.menu = m /\ u.session = s.ui.session /\ u.bg = s.ui.bg
      /\ u.shut = s.ui.shut
  BY <1>1 DEF Uis, Menus
<1>3. [s EXCEPT !.ui.menu = m] = [s EXCEPT !.ui = u]
  BY <1>1 DEF Base, Core, Asked, States
<1> HIDE DEF u
<1>4. Base([s EXCEPT !.ui = u]) /\ [s EXCEPT !.ui = u].ui = u /\ [s EXCEPT !.ui = u].act = s.act
  BY <1>1, <1>2, UiStep
<1> DEFINE t == [s EXCEPT !.ui.menu = m]
<1>5. Base(t) /\ t.ui = u /\ t.act = s.act
  BY <1>3, <1>4
<1> HIDE DEF t
<1>6. Base(t) /\ OneAt(t) /\ t.act = "Idle" /\ t.ui.menu = m /\ t.ui.session = s.ui.session
     /\ t.ui.bg = s.ui.bg
  BY <1>2, <1>5 DEF OneAt
<1>7. t = MenuAt(s, m)
  BY DEF t, MenuAt
<1>. QED BY <1>6, <1>7 DEF StaysAt

(* The netplay menu is left. *)
LEMMA LeaveNetplayMenuSafe == ASSUME RoomsInv, NEW ok \in BOOLEAN, NEW keepHost \in BOOLEAN,
     LeaveNetplayMenu(ok, keepHost) PROVE RoomsInv'
<1> DEFINE s == Frame(ok)
           t == IF keepHost \/ s.ui.bg THEN s ELSE BeginLobbySessionShutdown(s, FALSE, ok)
           e == [t EXCEPT !.ui.menu = "Title"]
<1>1. Good(s) /\ s.ui.menu = "Main"
  BY FrameIsGood DEF LeaveNetplayMenu
<1>2. Good(t) /\ t.ui.menu = "Main" /\ (t.ui.session # "none" => t.ui.bg)
  <2>1. CASE keepHost \/ s.ui.bg
    BY <1>1, <2>1 DEF Good, HiddenAt
  <2>2. CASE ~(keepHost \/ s.ui.bg)
    BY <1>1, <2>2, LeftFits
  <2>. QED BY <2>1, <2>2
<1>3. Becomes(e)
  BY DEF LeaveNetplayMenu
<1> HIDE DEF t
<1>4. Base(e) /\ OneAt(e) /\ e.act = "Idle" /\ e.ui.menu = "Title"
     /\ e.ui.session = t.ui.session /\ e.ui.bg = t.ui.bg
  <2>1. Base(t) /\ OneAt(t) /\ t.act = "Idle"
    BY <1>2 DEF Good, ActAt
  <2>2. StaysAt(t, MenuAt(t, "Title"), "Title")
    BY ONLY <2>1, Elsewhere
  <2>3. e = MenuAt(t, "Title")
    BY DEF MenuAt
  <2> HIDE DEF e
  <2>. QED BY <2>2, <2>3 DEF StaysAt
<1> HIDE DEF e
<1>5. Good(e)
  BY <1>2, <1>4 DEF Good, HiddenAt, ActAt, WaitAt, ShownAt
<1>. QED BY <1>3, <1>5, GoodStep

(* The netplay menu is entered. *)
LEMMA EnterNetplayMenuSafe == ASSUME RoomsInv, NEW ok \in BOOLEAN,
     EnterNetplayMenu(ok) PROVE RoomsInv'
<1> DEFINE m == IF ui.session # "none" THEN "Lobby" ELSE "Main"
           e == [All EXCEPT !.ui.menu = m]
<1>1. Good(All) /\ Base(All) /\ OneAt(All) /\ All.act = "Idle"
  BY AllFields DEF RoomsInv, Good, ActAt, EnterNetplayMenu
<1>2. m \in {"Main", "Lobby"} /\ (m = "Lobby" <=> ui.session # "none")
  OBVIOUS
<1>3. Becomes(SwitchToMenu(e, m, ok, FALSE))
  BY DEF EnterNetplayMenu
<1> HIDE DEF m
<1>4. /\ Base(e) /\ OneAt(e) /\ e.act = "Idle" /\ e.ui.menu = m
      /\ e.ui.session = ui.session
  <2>1. Base(All) /\ OneAt(All) /\ All.act = "Idle" /\ m \in {"Title", "Main", "Lobby", "Match"}
    BY <1>1, <1>2
  <2>2. Base(e) /\ OneAt(e) /\ e.act = "Idle" /\ e.ui.menu = m /\ e.ui.session = All.ui.session
    <3>1. StaysAt(All, MenuAt(All, m), m)
      BY ONLY <2>1, Elsewhere
    <3>2. e = MenuAt(All, m)
      BY DEF MenuAt
    <3> HIDE DEF e
    <3>. QED BY <3>1, <3>2 DEF StaysAt
  <2>. QED BY <2>2, AllFields
<1> HIDE DEF e
<1>5. Good(SwitchToMenu(e, m, ok, FALSE))
  <2>1. HiddenAt(e) \/ m = "Lobby"
    BY <1>2, <1>4 DEF HiddenAt
  <2>2. e.ui.menu # "Match"
    BY <1>2, <1>4
  <2>3. m = "Lobby" => e.ui.session # "none"
    BY <1>2, <1>4
  <2>4. e.ui.menu # "PlayerRooms"
    BY <1>2, <1>4
  <2>. QED BY <1>2, <1>4, <2>1, <2>2, <2>3, <2>4, SwitchFits DEF WaitAt
<1>. QED BY <1>3, <1>5, GoodStep

(* A match starts. *)
LEMMA MatchStartsSafe == ASSUME RoomsInv, MatchStarts PROVE RoomsInv'
<1> DEFINE e == [All EXCEPT !.ui.menu = "Match"]
<1>1. Base(All) /\ OneAt(All) /\ All.act = "Idle"
  BY AllFields DEF RoomsInv, Good, ActAt, MatchStarts
<1>2. Base(e) /\ OneAt(e) /\ e.act = "Idle" /\ e.ui.menu = "Match"
  <2>1. StaysAt(All, MenuAt(All, "Match"), "Match")
    BY ONLY <1>1, Elsewhere
  <2>2. e = MenuAt(All, "Match")
    BY DEF MenuAt
  <2> HIDE DEF e
  <2>. QED BY <2>1, <2>2 DEF StaysAt
<1>3. Becomes(e)
  BY DEF MatchStarts
<1> HIDE DEF e
<1>4. Good(e)
  BY <1>2 DEF Good, HiddenAt, ActAt, WaitAt, ShownAt
<1>. QED BY <1>3, <1>4, GoodStep

(* The process ends. *)
LEMMA ProcessExitSafe == ASSUME RoomsInv, NEW ok \in BOOLEAN, ProcessExit(ok) PROVE RoomsInv'
<1> DEFINE s == Frame(ok)
           u == [s.ui EXCEPT !.menu = "Exit", !.session = "none"]
           e == [s EXCEPT !.ui = u]
<1>1. Good(s) /\ Base(s)
  BY FrameIsGood DEF Good
<1>2. Becomes([s EXCEPT !.ui.menu = "Exit", !.ui.session = "none"])
  BY DEF ProcessExit, Frame
<1> HIDE DEF s
<1>3. s.ui \in Uis
  BY <1>1 DEF Base, Core, Asked, States
<1>4. u \in Uis /\ u.scroll = s.ui.scroll /\ u.rooms = s.ui.rooms /\ u.slots = s.ui.slots
     /\ u.view = s.ui.view
      /\ u.ret = s.ui.ret /\ u.menu = "Exit" /\ u.session = "none"
  BY <1>3 DEF Uis, Menus
<1>5. [s EXCEPT !.ui.menu = "Exit", !.ui.session = "none"] = e
  BY <1>1 DEF Base, Core, Asked, States
<1> HIDE DEF u
<1>6. Base(e) /\ e.ui = u
  BY <1>1, <1>4, UiStep
<1> HIDE DEF e
<1>7. Good(e)
  BY <1>4, <1>6 DEF Good, OneAt, HiddenAt, ActAt, WaitAt, ShownAt
<1>. QED BY <1>2, <1>5, <1>7, GoodStep

(* The threads. *)
LEMMA WorkersSafe == ASSUME RoomsInv, Workers PROVE RoomsInv'
<1>1. /\ ui \in Uis /\ rq \in Rqs /\ act \in Phases /\ rw \in BOOLEAN /\ aw \in BOOLEAN
      /\ ScrollFits(All) /\ SlotsFit(All) /\ ListIsNew(All) /\ Asked(All)
      /\ (aw => act = "Running")
  BY AllFields DEF RoomsInv, Good, Base, Core, Asked, States
<1>2. CASE RefreshWorker
  <2>1. PICK p \in Results, n \in 0..MaxRooms :
          rq' = [rq EXCEPT !.phase = p, !.found = IF p = "Succeeded" THEN n ELSE 0]
    BY <1>2 DEF RefreshWorker
  <2>2. (IF p = "Succeeded" THEN n ELSE 0) \in 0..MaxRooms /\ p \in Phases
    BY NoRooms DEF Phases
  <2>3. rq' \in Rqs
    BY <1>1, <2>1, <2>2 DEF Rqs
  <2>4. rq'.current = rq.current /\ rq'.early = rq.early /\ rq'.phase # "Idle"
    BY <1>1, <2>1 DEF Rqs, Results
  <2>5. ui' = ui /\ act' = act /\ rw' = FALSE /\ aw' = aw
    BY <1>2 DEF RefreshWorker
  <2>6. Base(All)'
    BY <1>1, <2>3, <2>4, <2>5 DEF Base, Core, Asked, States, All, ScrollFits, SlotsFit, ListIsNew
  <2>. QED BY <2>5, <2>6 DEF RoomsInv, Good, All, OneAt, HiddenAt, ActAt, WaitAt, ShownAt
<1>3. CASE RoomActionWorker
  <2>1. ui' = ui /\ rq' = rq /\ act' \in Results /\ act' \in Phases /\ rw' = rw
       /\ aw' = FALSE /\ act = "Running"
    BY <1>1, <1>3 DEF RoomActionWorker, Phases
  <2>2. Base(All)'
    BY <1>1, <2>1 DEF Base, Core, Asked, States, All, ScrollFits, SlotsFit, ListIsNew
  <2>. QED BY <2>1, <2>2 DEF RoomsInv, Good, All, OneAt, HiddenAt, ActAt, WaitAt, ShownAt
<1>4. CASE ShutdownThread
  <2>1. ui' = [ui EXCEPT !.shut = "Completed"] /\ rq' = rq /\ act' = act /\ rw' = rw /\ aw' = aw
    BY <1>4 DEF ShutdownThread
  <2>2. ui' \in Uis
    BY <1>1, <2>1 DEF Uis
  <2>3. ui'.scroll = ui.scroll /\ ui'.rooms = ui.rooms /\ ui'.slots = ui.slots
       /\ ui'.view = ui.view
        /\ ui'.ret = ui.ret /\ ui'.menu = ui.menu /\ ui'.session = ui.session
           /\ ui'.bg = ui.bg /\ ui'.shut = "Completed"
    BY <1>1, <2>1 DEF Uis
  <2>4. Base(All)'
    BY <1>1, <2>1, <2>2, <2>3 DEF Base, Core, Asked, States, All, ScrollFits, SlotsFit, ListIsNew
  <2>. QED BY <2>1, <2>3, <2>4 DEF RoomsInv, Good, All, OneAt, HiddenAt, ActAt, WaitAt, ShownAt
<1>. QED BY <1>2, <1>3, <1>4 DEF Workers

(* The initial state. *)
LEMMA RoomsInitIsSafe == RoomsInit => RoomsInv
<1> SUFFICES ASSUME RoomsInit PROVE RoomsInv
  OBVIOUS
<1>1. ui \in Uis
  BY NoRooms, RoomsAssumption DEF RoomsInit, Uis, Menus
<1>2. rq \in Rqs
  BY NoRooms DEF RoomsInit, Rqs, Phases
<1>3. 0 \in 0..MaxListScroll(0)
  BY NoRooms, ScrollLimit, RoomsAssumption
<1>4. All \in States
  BY <1>1, <1>2 DEF RoomsInit, All, States, Phases
<1>5. ui.scroll = 0 /\ ui.rooms = 0 /\ ui.view = "Root" /\ ui.ret = "Idle"
     /\ ui.menu = "Title" /\ ui.session = "none" /\ rq.early = FALSE
  BY DEF RoomsInit
<1>. QED BY <1>3, <1>4, <1>5, AllFields DEF RoomsInv, Good, Base, Core, Asked, ScrollFits, SlotsFit,
     ListIsNew, OneAt, HiddenAt, ActAt, WaitAt, ShownAt, RoomsInit

(* Every step keeps the invariant. *)
LEMMA RoomsInductive == RoomsInv /\ [RoomsNext]_roomsVars => RoomsInv'
<1> SUFFICES ASSUME RoomsInv, [RoomsNext]_roomsVars PROVE RoomsInv'
  OBVIOUS
<1>1. CASE User
  BY <1>1, ScrollSafe, MatchStartsSafe, OpenViewSafe, RefreshListSafe, CreateRoomSafe,
       BackFromLobbySafe,
     BackgroundLobbySafe, LeaveNetplayMenuSafe, EnterNetplayMenuSafe, ProcessExitSafe,
          JoinRoomSafe,
     BackFromRoomsSafe, OpenSafe, LeaveRoomForSafe DEF User
<1>2. CASE Frames
  BY <1>2, RoomsFrameSafe, OtherFrameSafe, PendingRoomLeaveSafe DEF Frames
<1>3. CASE Workers
  BY <1>3, WorkersSafe
<1>4. CASE UNCHANGED roomsVars
  BY <1>4 DEF roomsVars, RoomsInv, Good, Base, Core, Asked, States, All, ScrollFits, SlotsFit, ListIsNew,
       OneAt, HiddenAt, ActAt, WaitAt, ShownAt
<1>. QED BY <1>1, <1>2, <1>3, <1>4 DEF RoomsNext

(* The invariant says what is wanted. *)
LEMMA RoomsInvIsSafe == RoomsInv => RoomsSafe
<1> SUFFICES ASSUME RoomsInv PROVE RoomsSafe
  OBVIOUS
<1>1. ui \in Uis /\ rq \in Rqs /\ act \in Phases /\ (aw => act = "Running")
  BY AllFields DEF RoomsInv, Good, Base, Core, Asked, States
<1>2. RoomsTypeOK
  BY <1>1, AllFields DEF RoomsTypeOK, Uis, Rqs, RoomsInv, Good, Base, Core, Asked, ScrollFits
<1>. QED BY <1>2, AllFields DEF RoomsSafe, RoomsInv, Good, Base, Core, Asked, OneAt, HiddenAt, SlotsFit,
     ListIsNew,
       OneSession, NoHiddenRoom, SlotsExist, NoListOfLeftRoom

(* For any number of rooms a list may hold and of slots on the screen: the user is in  *)
(* one room at most and never in one unseen, every slot stands for a room of the list, *)
(* while the list is owed anew after a room was left for Player Rooms, none on its way *)
(* from before is shown, and none is requested before that room is closed.             *)
THEOREM RoomsSafety == RoomsSpec => []RoomsSafe
BY RoomsInitIsSafe, RoomsInductive, RoomsInvIsSafe, PTL DEF RoomsSpec
===========================================================================
