------------------------- MODULE ExitRecoveryProofs -------------------------
(***************************************************************************)
(* Proofs about ExitRecovery, for any grace of the watchdog and with or    *)
(* without the return key.                                                 *)
(*                                                                         *)
(* The code stands back from its old teardown while any of four latches is *)
(* set.  That is right because of three facts, which the invariant states: *)
(* a latch that was not set by F1 or for an earlier session means that the *)
(* session is over (LatchedIsOver); a return is owned by the recovery that *)
(* waits for it, or by the return key, which only works outside the menu   *)
(* (OwnerKnown); and a cancel put off until the tick has returned is one   *)
(* of the menu's, and finds no latch set (DeferredInTick).                 *)
(***************************************************************************)
EXTENDS ExitRecovery, TLAPS

(* The latches but for a return under way. *)
Latched == rec \in {"MenuPending", "Completed"} \/ prog # {} \/ Consumed(ret)
(* The tick is only run while no exit is latched. *)
TickUnlatched == pc = "tick" => sig.icept = "no"
(* Nothing that must not happen has, unless F1 has. *)
NothingNoted == "tick" \notin ghost.bad /\ (~ghost.stale => ghost.bad = {})
(* A latch means that the session it is about is over, completely. *)
LatchedIsOver ==
  Latched /\ ~ghost.stale => s.helper = "none" /\ ~s.patches /\ s.role = "local"
(* So does the idle phase. *)
IdleIsOver == s.phase = "Idle" /\ ~ghost.stale => s.helper = "none"
(* Whose the return under way is. *)
OwnerKnown ==
  Owned(ret) => IF ret.owner = "disconnect" THEN rec = "MenuPending" ELSE ~menu
(* When a deferred cancel may be waiting. *)
DeferredInTick ==
  sig.defer # "no" =>
    /\ pc \in {"tick", "post"} /\ menu
    /\ s.helper = "none" /\ ~s.patches
    /\ ~ShouldSuppressLegacyGameplayExitCleanup
(* The inductive invariant. *)
IInv ==
  /\ TypeOK /\ TickUnlatched /\ NothingNoted /\ LatchedIsOver /\ IdleIsOver
  /\ OwnerKnown /\ DeferredInTick

--------------------------------------------------------------------------------
(* A step of the return changes its state but not its owner, and neither *)
(* ends nor begins it.                                                   *)
Keeps(r, q) ==
  /\ q \in Returns /\ q.owner = r.owner
  /\ Owned(q) <=> Owned(r)
  /\ Consumed(q) <=> Consumed(r)

(* The title is reached. *)
LEMMA TitleReachedKeeps ==
  ASSUME NEW r \in Returns, Owned(r)
  PROVE  Keeps(r, HandleTitleReached(r))
BY DEF Returns, Owned, Consumed, Keeps, HandleTitleReached

(* The forced return is chosen, or held back. *)
LEMMA FallbackKeeps ==
  ASSUME NEW r \in Returns
  PROVE  Keeps(r, RequestForceTitleFallback(r))
BY DEF Returns, Owned, Consumed, Keeps, RequestForceTitleFallback

(* The screen is asked to leave. *)
LEMMA NativeExitKeeps ==
  ASSUME NEW r \in Returns, NEW scr \in Screens, NEW asked \in Asks
  PROVE  Keeps(r, RequestNativeExit(r, scr, asked))
<1>1. CASE asked = "refused"
  BY <1>1, FallbackKeeps DEF RequestNativeExit
<1>2. CASE asked # "refused"
  BY <1>2 DEF Returns, Owned, Consumed, Keeps, RequestNativeExit, Screens
<1> QED
  BY <1>1, <1>2

(* Loading is waited for. *)
LEMMA LoadingKeeps ==
  ASSUME NEW r \in Returns, NEW late \in BOOLEAN
  PROVE  Keeps(r, WaitInLoading(r, late))
<1>1. Keeps(r, EnterLoadingWait(r))
  BY DEF Returns, Owned, Consumed, Keeps, EnterLoadingWait
<1> DEFINE w == EnterLoadingWait(r)
<1>2. w \in Returns
  BY <1>1 DEF Keeps
<1> HIDE DEF w
<1>3. Keeps(w, RequestForceTitleFallback(w))
  BY <1>2, FallbackKeeps
<1>4. Keeps(w, [w EXCEPT !.st = "WaitingForLoadingToResolve", !.unblocked = TRUE])
  BY <1>2 DEF Returns, Owned, Consumed, Keeps
<1>5. Keeps(w, w)
  BY <1>2 DEF Keeps
<1>6. \/ WaitInLoading(r, late) = w
      \/ WaitInLoading(r, late) = RequestForceTitleFallback(w)
      \/ WaitInLoading(r, late) = [w EXCEPT !.st = "WaitingForLoadingToResolve",
                                            !.unblocked = TRUE]
  BY DEF WaitInLoading, w
<1> QED
  BY <1>1, <1>3, <1>4, <1>5, <1>6 DEF Keeps, w

(* What is done depends on the screen. *)
LEMMA ClassifyKeeps ==
  ASSUME NEW r \in Returns, Owned(r), NEW scr \in Screens, NEW late \in BOOLEAN,
         NEW asked \in Asks
  PROVE  Keeps(r, ClassifyAndAdvance(r, scr, late, asked))
BY TitleReachedKeeps, NativeExitKeeps, LoadingKeeps DEF ClassifyAndAdvance, Screens

(* The forced return is tried. *)
LEMMA TryFallbackKeeps ==
  ASSUME NEW r \in Returns, Owned(r), NEW inside \in BOOLEAN, NEW late \in BOOLEAN
  PROVE  Keeps(r, TryForceTitleFallback(r, inside, late))
<1>1. /\ Keeps(r, [r EXCEPT !.st = "WaitForSafePoint"])
      /\ Keeps(r, [r EXCEPT !.st = "ForceTitleFallback"])
  BY DEF Returns, Owned, Consumed, Keeps
<1> QED
  BY <1>1, TitleReachedKeeps DEF TryForceTitleFallback

(* The same when the return starts again from the screen it is on. *)
LEMMA RequestedKeeps ==
  ASSUME NEW r \in Returns, Owned(r), NEW scr \in Screens, NEW late \in BOOLEAN,
         NEW asked \in Asks
  PROVE  Keeps(r, ClassifyAndAdvance([r EXCEPT !.st = "Requested"], scr, late, asked))
<1> DEFINE q == [r EXCEPT !.st = "Requested"]
<1>1. q \in Returns /\ Owned(q) /\ q.owner = r.owner /\ (Consumed(q) <=> Consumed(r))
  BY DEF Returns, Owned, Consumed
<1> HIDE DEF q
<1>2. Keeps(q, ClassifyAndAdvance(q, scr, late, asked))
  BY <1>1, ClassifyKeeps
<1> QED
  BY <1>1, <1>2 DEF Keeps, q

(* One tick of the return. *)
LEMMA TickKeeps ==
  ASSUME NEW r \in Returns, NEW scr \in Screens, NEW inside \in BOOLEAN,
         NEW late \in BOOLEAN, NEW asked \in Asks
  PROVE  Keeps(r, TickFrontendReturn(r, scr, inside, late, asked))
<1> DEFINE t == TickFrontendReturn(r, scr, inside, late, asked)
<1>1. Keeps(r, r)
  BY DEF Keeps
<1>2. CASE ~Owned(r)
  BY <1>1, <1>2 DEF TickFrontendReturn
<1>3. CASE Owned(r)
  <2>1. Keeps(r, HandleNativeWait(r, scr, late, asked))
    BY <1>1, <1>3, RequestedKeeps, FallbackKeeps DEF HandleNativeWait
  <2>2. \/ t = r
        \/ t = ClassifyAndAdvance(r, scr, late, asked)
        \/ t = WaitInLoading(r, late)
        \/ t = ClassifyAndAdvance([r EXCEPT !.st = "Requested"], scr, late, asked)
        \/ t = HandleNativeWait(r, scr, late, asked)
        \/ t = TryForceTitleFallback(r, inside, late)
    BY <1>3 DEF TickFrontendReturn
  <2> QED
    BY <1>1, <1>3, <2>1, <2>2, ClassifyKeeps, LoadingKeeps, RequestedKeeps, TryFallbackKeeps
<1> QED
  BY <1>2, <1>3

(* A return that was begun is owned, by its first owner. *)
Begun(r, owner, b) ==
  b \in Returns /\ Owned(b) /\ b.owner = IF Owned(r) THEN r.owner ELSE owner

(* A return is begun, or the one under way is joined. *)
LEMMA BeginReturn ==
  ASSUME NEW r \in Returns, NEW scr \in Screens, NEW inside \in BOOLEAN,
         NEW late \in BOOLEAN, NEW asked \in Asks,
         NEW owner \in {"disconnect", "async"}
  PROVE  Begun(r, owner, BeginReturnToFrontend(r, owner, scr, inside, late, asked))
<1> DEFINE n == [NoReturn EXCEPT !.own = "Active", !.st = "Requested", !.owner = owner]
<1>1. n \in Returns /\ Owned(n) /\ n.owner = owner
  BY DEF NoReturn, Returns, Owned
<1> HIDE DEF n
<1>2. Keeps(n, TickFrontendReturn(n, scr, inside, late, asked))
  BY <1>1, TickKeeps
<1> QED
  BY <1>1, <1>2 DEF BeginReturnToFrontend, Keeps, Begun, n

(* The battle's native cleanup is seen. *)
LEMMA ObserveKeeps ==
  ASSUME NEW r \in Returns
  PROVE  Keeps(r, ObserveUpdate(r))
BY DEF Returns, Owned, Consumed, Keeps, ObserveUpdate

(* An update hook passes the return on. *)
LEMMA UpdateKeeps ==
  ASSUME NEW r \in Returns, NEW scr \in Screens, NEW res \in Screens
  PROVE  /\ Keeps(r, HandleNativeUpdateReturn(r, scr, res).r)
         /\ HandleNativeUpdateReturn(r, scr, res).res \in Screens
<1> DEFINE h == HandleNativeUpdateReturn(r, scr, res)
<1>1. Keeps(r, r) /\ Keeps(r, [r EXCEPT !.st = "Requested"])
  BY DEF Returns, Owned, Consumed, Keeps
<1>2. \/ h = [r |-> r, res |-> res]
      \/ h = [r |-> [r EXCEPT !.st = "Requested"], res |-> res]
      \/ Owned(r) /\ h = [r |-> HandleTitleReached(r), res |-> "title"]
  BY DEF HandleNativeUpdateReturn
<1> HIDE DEF h
<1> QED
  BY <1>1, <1>2, TitleReachedKeeps DEF Screens, h

--------------------------------------------------------------------------------
(* The four latches. *)
LEMMA SuppressedWhenLatched == ShouldSuppressLegacyGameplayExitCleanup <=> Latched \/ Owned(ret)
BY DEF ShouldSuppressLegacyGameplayExitCleanup, Latched

(* What the notes record, and what they leave alone. *)
LEMMA NotesKeep ==
  ASSUME IInv
  PROVE  /\ \A p \in SUBSET {"Started", "Consumed"} :
              NoteInit(p) \in Ghosts /\ NoteInit(p).stale = ghost.stale
         /\ \A g \in Signals, gh \in Ghosts :
              /\ NoteSuppressed(gh, g) \in Ghosts
              /\ NoteSuppressed(gh, g).stale = gh.stale
              /\ g.defer = "no" => NoteSuppressed(gh, g) = gh
<1>1. \A p : NoteInit(p) \in Ghosts /\ NoteInit(p).stale = ghost.stale
  BY DEF IInv, TypeOK, Ghosts, NoteInit
<1>2. \A gh \in Ghosts : \A g :
        NoteSuppressed(gh, g) \in Ghosts /\ NoteSuppressed(gh, g).stale = gh.stale
  BY DEF Ghosts, NoteSuppressed
<1>3. \A gh \in Ghosts : \A g : g.defer = "no" => NoteSuppressed(gh, g) = gh
  BY DEF Ghosts, NoteSuppressed
<1> QED
  BY <1>1, <1>2, <1>3

(* A local init outside the tick and before any menu entry is as it should *)
(* be.                                                                     *)
LEMMA NotedOnce ==
  ASSUME IInv, ~Inside, ~ghost.stale => ~EntryOver(rec, {}, ret),
         NEW p \in SUBSET {"Started", "Consumed"}, ~ghost.stale => p = {}
  PROVE  "tick" \notin NoteInit(p).bad /\ (~ghost.stale => NoteInit(p).bad = {})
BY DEF IInv, TypeOK, Ghosts, NothingNoted, NoteInit, EntryOver

(* ResetGameModeValidation clears the deferred cancel and keeps the exit *)
(* latch.                                                                *)
LEMMA ResetClears ==
  ASSUME NEW g \in Signals
  PROVE  /\ ResetGameModeValidation(g) \in Signals
         /\ ResetGameModeValidation(g).defer = "no"
         /\ ResetGameModeValidation(g).icept = g.icept
<1>1. 0 \in 0..WatchdogGrace
  BY GraceAssumption
<1> QED
  BY <1>1 DEF ResetGameModeValidation, Signals

(* What a cancel may do: the session ends, unless a latch makes it stand *)
(* back; and it is deferred only inside the tick.                        *)
Cancelled(c, phase) ==
  /\ c.s \in Sessions /\ c.g \in Signals /\ c.ghost \in Ghosts
  /\ c.s.phase = phase /\ c.s.after = s.after
  /\ IF ShouldSuppressLegacyGameplayExitCleanup
     THEN c.s.helper = s.helper /\ c.s.patches = s.patches /\ c.s.role = s.role
     ELSE c.s.helper = "none" /\ ~c.s.patches /\ c.s.role = "local"
  /\ c.g.icept = sig.icept
  /\ c.g.defer # "no" =>
       /\ ~ShouldSuppressLegacyGameplayExitCleanup
       /\ sig.defer # "no" \/ (Inside /\ c.g.defer = screen)
  /\ c.ghost.stale = ghost.stale
  /\ "tick" \notin c.ghost.bad /\ (~ghost.stale => c.ghost.bad = {})

(* CancelSession does no more than that, whether the object was recovered   *)
(* before or not.                                                           *)
LEMMA CancelUnlessRecoveredCancels ==
  ASSUME IInv, NEW phase \in {"Idle", "SessionEnded"}, NEW recovered \in BOOLEAN
  PROVE  Cancelled(CancelUnlessRecovered(phase, recovered), phase)
<1> DEFINE c == CancelUnlessRecovered(phase, recovered)
           suppress == ShouldSuppressLegacyGameplayExitCleanup
           ran == ~suppress /\ ~s.torn /\ ~recovered
<1>1. c.s \in Sessions /\ c.s.phase = phase /\ c.s.after = s.after
  <2> DEFINE role == IF suppress THEN s.role ELSE "local"
             helper == IF suppress THEN s.helper ELSE "none"
             patches == IF suppress THEN s.patches ELSE FALSE
             n == [s EXCEPT !.phase = phase, !.init = FALSE, !.torn = s.torn \/ ran,
                            !.role = role, !.helper = helper, !.patches = patches]
  <2>1. s \in Sessions
    BY DEF IInv, TypeOK
  <2>2. role \in Roles /\ helper \in {"none", "alive", "dead", "signalled"} /\ patches \in BOOLEAN
    BY <2>1 DEF Sessions, Roles
  <2>3. c.s = n
    BY <2>1 DEF CancelUnlessRecovered
  <2> HIDE DEF role, helper, patches, c, ran
  <2>4. n \in Sessions
    BY <2>1, <2>2 DEF Sessions
  <2>5. n.phase = phase /\ n.after = s.after
    BY <2>1 DEF Sessions
  <2> QED
    BY <2>3, <2>4, <2>5
<1>2. IF suppress
      THEN c.s.helper = s.helper /\ c.s.patches = s.patches /\ c.s.role = s.role
      ELSE c.s.helper = "none" /\ ~c.s.patches /\ c.s.role = "local"
  BY DEF CancelUnlessRecovered, IInv, TypeOK, Sessions, Roles
<1>3. /\ c.g \in Signals /\ c.g.icept = sig.icept
      /\ c.g.defer # "no" => ~suppress /\ (sig.defer # "no" \/ (Inside /\ c.g.defer = screen))
  <2> DEFINE g0 == IF suppress THEN [sig EXCEPT !.defer = "no"] ELSE sig
             g1 == IF ran /\ Defers THEN [g0 EXCEPT !.defer = screen]
                   ELSE IF ran THEN ResetGameModeValidation(g0) ELSE g0
  <2>1. /\ g0 \in Signals /\ g0.icept = sig.icept
        /\ g0.defer = IF suppress THEN "no" ELSE sig.defer
    BY DEF IInv, TypeOK, Signals
  <2>2. /\ g1 \in Signals /\ g1.icept = sig.icept
        /\ g1.defer # "no" => ~suppress /\ (sig.defer # "no" \/ (Inside /\ g1.defer = screen))
    <3> HIDE DEF g0, suppress
    <3>1. CASE ran /\ Defers
      BY <2>1, <3>1 DEF IInv, TypeOK, Signals, Defers
    <3>2. CASE ~(ran /\ Defers)
      BY <2>1, <3>2, ResetClears
    <3> QED
      BY <3>1, <3>2
  <2>3. c.g = [g1 EXCEPT !.err = FALSE]
    BY DEF CancelUnlessRecovered
  <2> HIDE DEF g1, c, suppress
  <2> QED
    BY <2>2, <2>3 DEF Signals
<1>4. /\ c.ghost \in Ghosts /\ c.ghost.stale = ghost.stale
      /\ "tick" \notin c.ghost.bad /\ (~ghost.stale => c.ghost.bad = {})
  <2> DEFINE gh == IF ran /\ ~Defers THEN NoteInit(prog) ELSE ghost
  <2>1. c.ghost = IF suppress THEN NoteSuppressed(gh, sig) ELSE gh
    BY DEF CancelUnlessRecovered
  <2>2. prog \in SUBSET {"Started", "Consumed"} /\ ghost \in Ghosts /\ sig \in Signals
    BY DEF IInv, TypeOK
  <2>3. /\ gh \in Ghosts /\ gh.stale = ghost.stale
        /\ "tick" \notin gh.bad /\ (~ghost.stale => gh.bad = {})
    <3>1. CASE ran /\ ~Defers
      <4>1. ~EntryOver(rec, {}, ret) /\ prog = {}
        BY <3>1 DEF EntryOver, ShouldSuppressLegacyGameplayExitCleanup
      <4>2. ~Inside
        BY <3>1 DEF Defers
      <4> QED
        BY <2>2, <3>1, <4>1, <4>2, NotesKeep, NotedOnce
    <3>2. CASE ~(ran /\ ~Defers)
      BY <2>2, <3>2 DEF IInv, NothingNoted
    <3> QED
      BY <3>1, <3>2
  <2>4. suppress => sig.defer = "no"
    BY DEF IInv, DeferredInTick
  <2> HIDE DEF gh, c, suppress
  <2> QED
    BY <2>1, <2>2, <2>3, <2>4, NotesKeep
<1> QED
  BY <1>1, <1>2, <1>3, <1>4 DEF Cancelled

(* The plain cancel. *)
LEMMA CancelCancels ==
  ASSUME IInv, NEW phase \in {"Idle", "SessionEnded"}
  PROVE  Cancelled(CancelSession(phase), phase)
<1>1. FALSE \in BOOLEAN
  OBVIOUS
<1> QED
  BY <1>1, CancelUnlessRecoveredCancels, Zenon DEF CancelSession

(* A recovery that begins outside the tick, and before any menu entry, keeps *)
(* the invariant.                                                            *)
LEMMA RecoveryKeeps ==
  ASSUME IInv, pc # "tick", pc' = "idle", NEW g \in Signals,
         g.defer = sig.defer, NEW late \in BOOLEAN, NEW asked \in Asks,
         ~ghost.stale => ~EntryOver(rec, {}, ret),
         BeginGameplayExitRecovery(g, late, asked)
  PROVE  IInv'
<1>1. CASE rec = "MenuPending"
  <2>1. /\ sig' = g
        /\ UNCHANGED <<screen, menu, s, rec, prog, ret, hooks, async, ghost>>
    BY <1>1 DEF BeginGameplayExitRecovery
  <2>2. sig.defer = "no"
    BY <1>1 DEF IInv, DeferredInTick, ShouldSuppressLegacyGameplayExitCleanup
  <2> QED
    BY <2>1, <2>2 DEF IInv, TypeOK, TickUnlatched, NothingNoted, LatchedIsOver, IdleIsOver,
                      OwnerKnown, DeferredInTick, Latched
<1>2. CASE rec # "MenuPending"
  <2>1. /\ prog' = {} /\ rec' = "MenuPending" /\ ghost' = NoteInit({})
        /\ sig' = [ResetGameModeValidation(g) EXCEPT !.icept = "no", !.err = FALSE]
        /\ s' = AfterContinuation
        /\ ret' = BeginReturnToFrontend(ret, "disconnect", screen, FALSE, late, asked)
        /\ hooks' = TRUE
        /\ UNCHANGED <<screen, menu, async>>
    BY <1>2 DEF BeginGameplayExitRecovery
  <2>2. sig' \in Signals /\ sig'.defer = "no" /\ sig'.icept = "no"
    <3>1. ResetGameModeValidation(g) \in Signals /\ ResetGameModeValidation(g).defer = "no"
      BY ResetClears
    <3> QED
      BY <2>1, <3>1 DEF Signals
  <2>3. /\ s' \in Sessions /\ s'.helper = "none" /\ ~s'.patches /\ s'.role = "local"
    BY <2>1 DEF AfterContinuation, IInv, TypeOK, Sessions, Roles
  <2>4. /\ ret' \in Returns
        /\ Owned(ret') /\ ret'.owner = IF Owned(ret) THEN ret.owner ELSE "disconnect"
    <3> DEFINE b == BeginReturnToFrontend(ret, "disconnect", screen, FALSE, late, asked)
    <3>1. ret \in Returns /\ screen \in Screens /\ FALSE \in BOOLEAN
      BY DEF IInv, TypeOK
    <3>2. Begun(ret, "disconnect", b)
      BY <3>1, BeginReturn, Zenon
    <3> HIDE DEF b
    <3> QED
      BY <2>1, <3>2 DEF b, Begun
  <2>5. ghost' \in Ghosts /\ ghost'.stale = ghost.stale
    BY <2>1, NotesKeep
  <2>6. "tick" \notin ghost'.bad /\ (~ghost.stale => ghost'.bad = {})
    BY <2>1, NotedOnce DEF Inside
  <2>7. TypeOK'
    BY <2>1, <2>2, <2>3, <2>4, <2>5 DEF IInv, TypeOK
  <2>8. OwnerKnown'
    BY <2>1, <2>4 DEF IInv, OwnerKnown
  <2> QED
    BY <2>2, <2>3, <2>5, <2>6, <2>7, <2>8
       DEF IInv, TickUnlatched, NothingNoted, LatchedIsOver, IdleIsOver, DeferredInTick
<1> QED
  BY <1>1, <1>2

(* So does one that stands back when a latch is set. *)
LEMMA RecoverOrStandBack ==
  ASSUME IInv, pc # "tick", pc' = "idle", NEW g \in Signals, g.defer = sig.defer,
         NEW asked \in Asks, RecoverUnlessSuppressed(g, asked)
  PROVE  IInv'
<1>1. CASE ShouldSuppressLegacyGameplayExitCleanup
  <2>1. /\ sig' = g
        /\ UNCHANGED <<screen, menu, s, rec, prog, ret, hooks, async, ghost>>
    BY <1>1 DEF RecoverUnlessSuppressed
  <2>2. sig.defer = "no"
    BY <1>1 DEF IInv, DeferredInTick
  <2> QED
    BY <2>1, <2>2 DEF IInv, TypeOK, TickUnlatched, NothingNoted, LatchedIsOver, IdleIsOver,
                      OwnerKnown, DeferredInTick, Latched
<1>2. CASE ~ShouldSuppressLegacyGameplayExitCleanup
  <2>1. PICK late \in BOOLEAN : BeginGameplayExitRecovery(g, late, asked)
    <3>1. BeginGameplayExitRecovery(g, FALSE, asked)
      BY <1>2 DEF RecoverUnlessSuppressed
    <3> QED
      BY <3>1, Zenon
  <2>2. ~EntryOver(rec, {}, ret)
    BY <1>2 DEF EntryOver, ShouldSuppressLegacyGameplayExitCleanup
  <2> QED
    BY <2>1, <2>2, RecoveryKeeps
<1> QED
  BY <1>1, <1>2

(* The steps of the user: start, cancel, leave, minimise, hand over, press *)
(* F1.                                                                     *)
LEMMA UserKeeps ==
  ASSUME IInv, User
  PROVE  IInv'
<1> USE DEF IInv
<1>1. CASE StartSession
  <2>1. sig' \in Signals /\ sig'.defer = "no" /\ sig'.icept = "no"
    BY <1>1, ResetClears DEF StartSession, TypeOK, Signals
  <2>2. s' \in Sessions /\ s'.phase # "Idle"
    BY <1>1 DEF StartSession, TypeOK, Sessions
  <2>3. ret' \in Returns /\ ret'.owner = ret.owner /\ ~Consumed(ret') /\ (Owned(ret') <=> Owned(ret))
    BY <1>1 DEF StartSession, TypeOK, Returns, ResetConsumedContinuationLatch, Owned, Consumed
  <2>4. ghost' \in Ghosts /\ ghost'.bad = {} /\ ghost'.stale = (rec = "MenuPending")
    BY <1>1 DEF StartSession, TypeOK, Ghosts
  <2>5. prog' = {} /\ rec' = IF rec = "MenuPending" THEN rec ELSE "Idle"
    BY <1>1 DEF StartSession
  <2>6. TypeOK'
    BY <1>1, <2>1, <2>2, <2>3, <2>4 DEF StartSession, TypeOK
  <2>7. UNCHANGED <<pc, menu>>
    BY <1>1 DEF StartSession
  <2>8. LatchedIsOver'
    BY <2>3, <2>4, <2>5 DEF LatchedIsOver, Latched, TypeOK
  <2>9. OwnerKnown'
    BY <2>3, <2>5, <2>7 DEF OwnerKnown
  <2> QED
    BY <2>1, <2>2, <2>4, <2>6, <2>8, <2>9
       DEF TickUnlatched, NothingNoted, IdleIsOver, DeferredInTick
<1>2. CASE UserCancel \/ LeaveMenu
  <2> DEFINE c == CancelSession("Idle")
  <2>1. Cancelled(c, "Idle")
    BY CancelCancels
  <2>2. /\ s' = c.s /\ sig' = c.g /\ ghost' = c.ghost
        /\ menu /\ pc \in {"idle", "tick"}
        /\ UNCHANGED <<pc, screen, rec, prog, ret, hooks>>
        /\ menu' \in BOOLEAN /\ async' \in BOOLEAN
        /\ pc = "idle" \/ menu'
    BY <1>2 DEF UserCancel, LeaveMenu, TypeOK
  <2> HIDE DEF c
  <2>3. TypeOK'
    BY <2>1, <2>2 DEF TypeOK, Cancelled
  <2>4. Owned(ret) => rec = "MenuPending"
    BY <2>2 DEF OwnerKnown
  <2>5. ShouldSuppressLegacyGameplayExitCleanup <=> Latched
    BY <2>4 DEF ShouldSuppressLegacyGameplayExitCleanup, Latched
  <2>6. Latched' <=> Latched
    BY <2>2 DEF Latched
  <2>7. ShouldSuppressLegacyGameplayExitCleanup' <=> ShouldSuppressLegacyGameplayExitCleanup
    BY <2>2 DEF ShouldSuppressLegacyGameplayExitCleanup
  <2>8. LatchedIsOver'
    BY <2>1, <2>2, <2>5, <2>6 DEF LatchedIsOver, Cancelled
  <2>9. IdleIsOver'
    BY <2>1, <2>2, <2>5 DEF IdleIsOver, LatchedIsOver, Cancelled
  <2>10. DeferredInTick'
    BY <2>1, <2>2, <2>7 DEF DeferredInTick, Cancelled, Inside
  <2> QED
    BY <2>1, <2>2, <2>3, <2>4, <2>8, <2>9, <2>10
       DEF TickUnlatched, NothingNoted, OwnerKnown, Cancelled
<1>3. CASE Minimise
  BY <1>3 DEF Minimise, InstallUpdateHooks, TypeOK, TickUnlatched, NothingNoted, LatchedIsOver, Latched,
              IdleIsOver, OwnerKnown, DeferredInTick
<1>4. CASE HandOff
  <2>1. /\ s' = [s EXCEPT !.phase = "Connected", !.after = TRUE]
        /\ pc = "idle" /\ s.phase = "Connecting" /\ screen' = "charsel" /\ ~menu' /\ menu' \in BOOLEAN
        /\ async' \in BOOLEAN /\ hooks' \in BOOLEAN
        /\ UNCHANGED <<pc, sig, rec, prog, ret, ghost>>
    BY <1>4 DEF HandOff, SuspendUpdateHooks
  <2>2. s' \in Sessions /\ s'.phase = "Connected"
        /\ s'.helper = s.helper /\ s'.patches = s.patches /\ s'.role = s.role
    BY <2>1 DEF TypeOK, Sessions
  <2>3. TypeOK'
    BY <2>1, <2>2 DEF TypeOK, Screens
  <2> QED
    BY <2>1, <2>2, <2>3 DEF TickUnlatched, NothingNoted, LatchedIsOver, Latched,
              IdleIsOver, OwnerKnown, DeferredInTick
<1>5. CASE \E r \in {"online", "spectate"} : LocalInit(r)
  <2>1. PICK r \in {"online", "spectate"} : LocalInit(r)
    BY <1>5
  <2>2. /\ s' \in Sessions /\ s'.phase = s.phase /\ s'.helper = "alive" /\ s.helper = "alive"
        /\ UNCHANGED <<pc, screen, menu, sig, rec, prog, ret, hooks, async, ghost>>
    BY <2>1 DEF LocalInit, TypeOK, Sessions, Roles
  <2>3. TypeOK'
    BY <2>2 DEF TypeOK
  <2> QED
    BY <2>2, <2>3 DEF TickUnlatched, NothingNoted, LatchedIsOver, Latched,
              IdleIsOver, OwnerKnown, DeferredInTick
<1>6. CASE \E late \in BOOLEAN, asked \in Asks : PressReturnKey(late, asked)
  <2>1. PICK late \in BOOLEAN, asked \in Asks : PressReturnKey(late, asked)
    BY <1>6
  <2> DEFINE b == BeginReturnToFrontend(ret, "async", screen, Inside, late, asked)
  <2>2. /\ ret' = b /\ hooks' = TRUE /\ ~menu /\ ~Owned(ret)
        /\ UNCHANGED <<pc, screen, menu, s, sig, rec, prog, async, ghost>>
    BY <2>1 DEF PressReturnKey
  <2>3. Begun(ret, "async", b)
    <3>1. Inside \in BOOLEAN /\ ret \in Returns /\ screen \in Screens
      BY DEF TypeOK, Inside
    <3> QED
      BY <3>1, BeginReturn, Zenon
  <2> HIDE DEF b
  <2>4. ret' \in Returns /\ Owned(ret') /\ ret'.owner = "async" /\ ~Consumed(ret')
    BY <2>2, <2>3 DEF Begun, Owned, Consumed
  <2>5. TypeOK'
    BY <2>2, <2>4 DEF TypeOK
  <2> QED
    BY <2>2, <2>4, <2>5 DEF TickUnlatched, NothingNoted, LatchedIsOver, Latched,
              IdleIsOver, OwnerKnown, DeferredInTick
<1> QED
  BY <1>1, <1>2, <1>3, <1>4, <1>5, <1>6 DEF User

(* What arrives from outside, and a failing start. *)
LEMMA OutsideKeeps ==
  ASSUME IInv, Outside \/ ExitWatch \/ TickFails \/ TickFailsSpectator
  PROVE  IInv'
<1> USE DEF IInv
<1>1. CASE HelperDies \/ ExitWatch
  <2>1. /\ s' \in Sessions /\ s'.phase = s.phase /\ s'.role = s.role /\ s'.patches = s.patches
        /\ s.helper # "none"
        /\ UNCHANGED <<pc, screen, menu, sig, rec, prog, ret, hooks, async, ghost>>
    BY <1>1 DEF HelperDies, ExitWatch, TypeOK, Sessions
  <2>2. TypeOK'
    BY <2>1 DEF TypeOK
  <2> QED
    BY <2>1, <2>2 DEF TickUnlatched, NothingNoted, LatchedIsOver, Latched,
              IdleIsOver, OwnerKnown, DeferredInTick
<1>2. CASE ConsoleError \/ QuitRing \/ SpectatorEsc
  <2>1. /\ sig' \in Signals /\ sig'.defer = sig.defer /\ sig'.icept = sig.icept
        /\ UNCHANGED <<pc, screen, menu, s, rec, prog, ret, hooks, async, ghost>>
    BY <1>2 DEF ConsoleError, QuitRing, SpectatorEsc, TypeOK, Signals
  <2>2. TypeOK'
    BY <2>1 DEF TypeOK
  <2> QED
    BY <2>1, <2>2 DEF TickUnlatched, NothingNoted, LatchedIsOver, Latched,
              IdleIsOver, OwnerKnown, DeferredInTick, ShouldSuppressLegacyGameplayExitCleanup
<1>3. CASE TickFails
  <2>1. /\ s' \in Sessions /\ s'.phase = "Failed" /\ s'.role = "local" /\ s'.patches = s.patches
        /\ s'.helper = s.helper
        /\ UNCHANGED <<pc, screen, menu, sig, rec, prog, ret, hooks, async, ghost>>
    BY <1>3 DEF TickFails, TypeOK, Sessions, Roles
  <2>2. TypeOK'
    BY <2>1 DEF TypeOK
  <2> QED
    BY <2>1, <2>2 DEF TickUnlatched, NothingNoted, LatchedIsOver, Latched,
              IdleIsOver, OwnerKnown, DeferredInTick, ShouldSuppressLegacyGameplayExitCleanup
<1>4. CASE TickFailsSpectator
  <2>1. /\ s' \in Sessions /\ s'.phase = "Failed" /\ s'.role = "local"
        /\ s'.patches = s.patches /\ s'.helper = s.helper
    BY <1>4 DEF TickFailsSpectator, TypeOK, Sessions, Roles
  <2>2. /\ s.role = "spectate"
        /\ UNCHANGED <<pc, screen, menu, sig, rec, prog, ret, hooks, async>>
    BY <1>4 DEF TickFailsSpectator
  <2>3. EntryOver(rec, prog, ret) => ghost.stale
    BY <2>2 DEF LatchedIsOver, Latched, EntryOver
  <2>4. /\ ghost' \in Ghosts /\ ghost'.stale = ghost.stale
        /\ ghost'.bad = IF EntryOver(rec, prog, ret) THEN ghost.bad \cup {"late"} ELSE ghost.bad
    BY <1>4 DEF TickFailsSpectator, TypeOK, Ghosts, Inside
  <2>5. NothingNoted'
    BY <2>3, <2>4 DEF NothingNoted
  <2>6. TypeOK'
    BY <2>1, <2>2, <2>4 DEF TypeOK
  <2> QED
    BY <2>1, <2>2, <2>4, <2>5, <2>6 DEF TickUnlatched, LatchedIsOver, Latched,
              IdleIsOver, OwnerKnown, DeferredInTick, ShouldSuppressLegacyGameplayExitCleanup
<1> QED
  BY <1>1, <1>2, <1>3, <1>4 DEF Outside

(* The frame begins, the tick returns or is left by ExitProcess. *)
LEMMA FrameKeeps ==
  ASSUME IInv, FrameBegin \/ TickReturns \/ ExitProcessInTick \/ ExitProcessInTitle
  PROVE  IInv'
<1> USE DEF IInv
<1>1. CASE FrameBegin \/ TickReturns
  <2>1. /\ pc' \in {"tick", "post", "skip"}
        /\ pc' = "tick" => sig.icept = "no"
        /\ pc = "tick" => pc' \in {"tick", "post"}
        /\ pc \in {"idle", "tick"}
        /\ UNCHANGED <<screen, menu, s, sig, rec, prog, ret, hooks, async, ghost>>
    BY <1>1 DEF FrameBegin, TickReturns, SkipsNativeTick, Inside
  <2>2. TypeOK'
    BY <2>1 DEF TypeOK
  <2> QED
    BY <2>1, <2>2 DEF TickUnlatched, NothingNoted, LatchedIsOver, Latched,
              IdleIsOver, OwnerKnown, DeferredInTick, ShouldSuppressLegacyGameplayExitCleanup
<1>2. CASE ExitProcessInTick \/ ExitProcessInTitle
  <2>1. /\ pc' \in {"post", "idle"} /\ s.patches
        /\ sig' \in Signals /\ sig'.defer = sig.defer
        /\ UNCHANGED <<screen, menu, s, rec, prog, ret, hooks, async, ghost>>
    <3> DEFINE latch == IF sig.icept = "no" THEN s.role ELSE sig.icept
    <3>1. sig \in Signals /\ latch \in Roles \cup {"no"}
      BY DEF TypeOK, Signals, Sessions
    <3>2. CASE ExitProcessInTick
      <4>1. sig' = [sig EXCEPT !.tick = TRUE, !.icept = latch]
        BY <3>1, <3>2 DEF ExitProcessInTick
      <4> HIDE DEF latch
      <4>2. sig' \in Signals /\ sig'.defer = sig.defer
        BY <3>1, <4>1 DEF Signals
      <4> QED
        BY <3>2, <4>2 DEF ExitProcessInTick
    <3>3. CASE ExitProcessInTitle
      <4>1. sig' = [sig EXCEPT !.icept = latch]
        BY <3>1, <3>3 DEF ExitProcessInTitle
      <4> HIDE DEF latch
      <4>2. sig' \in Signals /\ sig'.defer = sig.defer
        BY <3>1, <4>1 DEF Signals
      <4> QED
        BY <3>3, <4>2 DEF ExitProcessInTitle
    <3> QED
      BY <1>2, <3>2, <3>3
  <2>2. TypeOK'
    BY <2>1 DEF TypeOK
  <2> QED
    BY <2>1, <2>2 DEF TickUnlatched, NothingNoted, LatchedIsOver, Latched,
              IdleIsOver, OwnerKnown, DeferredInTick, ShouldSuppressLegacyGameplayExitCleanup
<1> QED
  BY <1>1, <1>2

(* The control path after the tick. *)
LEMMA PostStepsKeep ==
  ASSUME IInv,
         PostSteps \/ \E asked \in Asks : PostStalled(asked)
  PROVE  IInv'
<1> USE DEF IInv
<1>d. 0 \in 0..WatchdogGrace /\ DogCount \in 0..WatchdogGrace
  BY GraceAssumption DEF DogCount, TypeOK, Signals
<1>a. Drained \in Signals /\ Drained.defer = sig.defer /\ Drained.icept = sig.icept
  BY DEF Drained, TypeOK, Signals
<1>p. Post => pc # "tick" /\ pc' = "idle"
  BY DEF Post
<1>1. CASE PostFastPath \/ PostHeld
  <2>1. /\ pc' = "idle" /\ pc # "tick" /\ sig.defer = "no"
        /\ UNCHANGED <<screen, menu, s, sig, rec, prog, ret, hooks, async, ghost>>
    BY <1>1 DEF PostFastPath, PostHeld, Post, HeldByRecovery, NeedsPostNativeControlPath,
                DeferredInTick, ShouldSuppressLegacyGameplayExitCleanup
  <2>2. TypeOK'
    BY <2>1 DEF TypeOK
  <2> QED
    BY <2>1, <2>2 DEF TickUnlatched, NothingNoted, LatchedIsOver, Latched,
              IdleIsOver, OwnerKnown, DeferredInTick
<1>2. CASE \E asked \in Asks : PostStalled(asked)
  <2>1. PICK asked \in Asks : PostStalled(asked)
    BY <1>2
  <2>2. PICK late \in BOOLEAN : BeginGameplayExitRecovery(sig, late, asked)
    <3>1. BeginGameplayExitRecovery(sig, FALSE, asked)
      BY <2>1 DEF PostStalled
    <3> QED
      BY <3>1, Zenon
  <2>3. ~ghost.stale => ~EntryOver(rec, {}, ret)
    BY <2>1 DEF PostStalled, LatchedIsOver, Latched, EntryOver
  <2>4. Post /\ sig \in Signals
    BY <2>1 DEF PostStalled, TypeOK
  <2> QED
    BY <1>p, <2>2, <2>3, <2>4, RecoveryKeeps
<1>3. CASE \E asked \in Asks : PostTickRecovery(asked)
  <2>1. PICK asked \in Asks : PostTickRecovery(asked)
    BY <1>3
  <2>2. Post /\ RecoverUnlessSuppressed([Drained EXCEPT !.tick = FALSE], asked)
    BY <2>1 DEF PostTickRecovery
  <2>3. [Drained EXCEPT !.tick = FALSE] \in Signals
        /\ [Drained EXCEPT !.tick = FALSE].defer = sig.defer
    BY <1>a DEF Signals
  <2> QED
    BY <1>p, <2>2, <2>3, RecoverOrStandBack
<1>4. CASE \E asked \in Asks : PostQuitRing(asked)
  <2>1. PICK asked \in Asks : PostQuitRing(asked)
    BY <1>4
  <2> DEFINE g == [Drained EXCEPT !.icept = IF screen \in Gameplay THEN @ ELSE s.role]
  <2>2. g \in Signals /\ g.defer = sig.defer
    BY <1>a DEF Signals, TypeOK, Sessions
  <2>3. Post /\ s.patches
    BY <2>1 DEF PostQuitRing, PreQuit
  <2>4. CASE s.role = "online" /\ s.helper # "none"
    <3>1. /\ sig' = [g EXCEPT !.sched = TRUE]
          /\ UNCHANGED <<screen, menu, s, rec, prog, ret, hooks, async, ghost>>
      BY <2>1, <2>4 DEF PostQuitRing
    <3> HIDE DEF g
    <3>2. sig' \in Signals /\ sig'.defer = sig.defer
      BY <2>2, <3>1 DEF Signals
    <3>3. TypeOK'
      BY <1>p, <2>3, <3>1, <3>2 DEF TypeOK
    <3> QED
      BY <1>p, <2>3, <3>1, <3>2, <3>3
         DEF TickUnlatched, NothingNoted, LatchedIsOver, Latched,
             IdleIsOver, OwnerKnown, DeferredInTick
  <2>5. CASE ~(s.role = "online" /\ s.helper # "none")
    <3>1. RecoverUnlessSuppressed(g, asked)
      BY <2>1, <2>5 DEF PostQuitRing, FinalizeQuit
    <3> HIDE DEF g
    <3> QED
      BY <1>p, <2>2, <2>3, <3>1, RecoverOrStandBack
  <2> QED
    BY <2>4, <2>5
<1>5. CASE \E asked \in Asks : PostConsoleError(asked) \/ PostSpectatorEsc(asked)
  <2>1. PICK asked \in Asks : PostConsoleError(asked) \/ PostSpectatorEsc(asked)
    BY <1>5
  <2>2. PICK g \in {sig, [sig EXCEPT !.esc = FALSE]}, late \in BOOLEAN :
          BeginGameplayExitRecovery(g, late, asked)
    <3>1. BeginGameplayExitRecovery(sig, FALSE, asked)
          \/ BeginGameplayExitRecovery([sig EXCEPT !.esc = FALSE], FALSE, asked)
      BY <2>1 DEF PostConsoleError, PostSpectatorEsc
    <3> QED
      BY <3>1, Zenon
  <2>3. Post /\ s.patches
    BY <2>1 DEF PostConsoleError, PostSpectatorEsc
  <2>4. ~ghost.stale => ~EntryOver(rec, {}, ret)
    BY <2>3 DEF LatchedIsOver, Latched, EntryOver
  <2>5. g \in Signals /\ g.defer = sig.defer
    BY DEF TypeOK, Signals
  <2> QED
    BY <1>p, <2>2, <2>3, <2>4, <2>5, RecoveryKeeps
<1>6. CASE \E asked \in Asks : PostWatchdog(asked)
  <2>1. PICK asked \in Asks : PostWatchdog(asked)
    BY <1>6
  <2>2. Post /\ RecoverUnlessSuppressed([sig EXCEPT !.dog = 0, !.esc = FALSE], asked)
    BY <2>1 DEF PostWatchdog
  <2>3. [sig EXCEPT !.dog = 0, !.esc = FALSE] \in Signals
        /\ [sig EXCEPT !.dog = 0, !.esc = FALSE].defer = sig.defer
    BY <1>d DEF TypeOK, Signals
  <2> QED
    BY <1>p, <2>2, <2>3, RecoverOrStandBack
<1>7. CASE \E elapsed \in BOOLEAN, asked \in Asks : PostScheduledQuit(elapsed, asked)
  <2>1. PICK elapsed \in BOOLEAN, asked \in Asks : PostScheduledQuit(elapsed, asked)
    BY <1>7
  <2>2. Post
    BY <2>1 DEF PostScheduledQuit
  <2>3. CASE s.helper = "alive" /\ ~elapsed
    <3>1. UNCHANGED <<screen, menu, s, sig, rec, prog, ret, hooks, async, ghost>>
      BY <2>1, <2>3 DEF PostScheduledQuit
    <3>2. TypeOK'
      BY <1>p, <2>2, <3>1 DEF TypeOK
    <3> QED
      BY <1>p, <2>2, <2>3, <3>1, <3>2
         DEF TickUnlatched, NothingNoted, LatchedIsOver, Latched,
             IdleIsOver, OwnerKnown, DeferredInTick
  <2>4. CASE ~(s.helper = "alive" /\ ~elapsed)
    <3>1. RecoverUnlessSuppressed([sig EXCEPT !.sched = FALSE], asked)
      BY <2>1, <2>4 DEF PostScheduledQuit, FinalizeQuit
    <3>2. [sig EXCEPT !.sched = FALSE] \in Signals
          /\ [sig EXCEPT !.sched = FALSE].defer = sig.defer
      BY DEF TypeOK, Signals
    <3> QED
      BY <1>p, <2>2, <3>1, <3>2, RecoverOrStandBack
  <2> QED
    BY <2>3, <2>4
<1>8. CASE \E late \in BOOLEAN, asked \in Asks : PostRest(late, asked)
  <2>1. PICK late \in BOOLEAN, asked \in Asks : PostRest(late, asked)
    BY <1>8
  <2> DEFINE g == [sig EXCEPT !.dog = DogCount, !.esc = FALSE]
  <2>2. g \in Signals /\ g.defer = sig.defer /\ g.icept = sig.icept
    BY <1>d DEF TypeOK, Signals
  <2>3. Post
    BY <2>1 DEF PostRest
  <2>4. sig.defer # "no" => ~ShouldSuppressLegacyGameplayExitCleanup
    BY DEF DeferredInTick
  <2>5. /\ sig' = IF sig.defer # "no" THEN ResetGameModeValidation(g) ELSE g
        /\ s' = IF sig.defer # "no" THEN [s EXCEPT !.role = "local"] ELSE s
        /\ ghost' = IF sig.defer # "no" THEN NoteInit(prog) ELSE ghost
        /\ ret' = TickFrontendReturn(ret, screen, FALSE, late, asked)
        /\ screen' = ScreenAfterTick(ret, screen, FALSE, late)
        /\ UNCHANGED <<menu, rec, prog, hooks, async>>
    BY <2>1, <2>4 DEF PostRest
  <2> HIDE DEF g
  <2>6. sig' \in Signals /\ sig'.defer = "no"
    BY <2>2, <2>5, ResetClears
  <2>7. /\ s' \in Sessions /\ s'.helper = s.helper /\ s'.patches = s.patches
        /\ s'.phase = s.phase /\ s'.role \in {s.role, "local"}
    BY <2>5 DEF TypeOK, Sessions, Roles
  <2>8. Keeps(ret, ret')
    <3>1. FALSE \in BOOLEAN /\ ret \in Returns /\ screen \in Screens
      BY DEF TypeOK
    <3>2. Keeps(ret, TickFrontendReturn(ret, screen, FALSE, late, asked))
      BY <3>1, TickKeeps, Zenon
    <3> QED
      BY <2>5, <3>2, Zenon
  <2>9. screen' \in Screens
    <3>1. screen' = "title" \/ screen' = screen
      BY <2>5 DEF ScreenAfterTick
    <3> QED
      BY <3>1 DEF TypeOK, Screens
  <2>10. /\ ghost' \in Ghosts /\ ghost'.stale = ghost.stale
         /\ "tick" \notin ghost'.bad /\ (~ghost.stale => ghost'.bad = {})
    <3>1. CASE sig.defer # "no"
      <4>1. ~EntryOver(rec, {}, ret) /\ prog = {} /\ prog \in SUBSET {"Started", "Consumed"}
        BY <2>4, <3>1 DEF EntryOver, ShouldSuppressLegacyGameplayExitCleanup
      <4>2. ~Inside
        BY <1>p, <2>3 DEF Inside
      <4> QED
        BY <2>5, <3>1, <4>1, <4>2, NotesKeep, NotedOnce
    <3>2. CASE sig.defer = "no"
      BY <2>5, <3>2 DEF NothingNoted, TypeOK
    <3> QED
      BY <3>1, <3>2
  <2>11. UNCHANGED <<menu, rec, prog, hooks, async>>
    BY <2>5
  <2>12. TypeOK'
    BY <1>p, <2>3, <2>6, <2>7, <2>8, <2>9, <2>10, <2>11 DEF TypeOK, Keeps
  <2>13. LatchedIsOver'
    BY <2>7, <2>8, <2>10, <2>11 DEF LatchedIsOver, Latched, Keeps
  <2>14. OwnerKnown'
    BY <2>8, <2>11 DEF OwnerKnown, Keeps
  <2> QED
    BY <1>p, <2>3, <2>6, <2>7, <2>10, <2>12, <2>13, <2>14
       DEF TickUnlatched, NothingNoted, IdleIsOver, DeferredInTick
<1> QED
  BY <1>1, <1>2, <1>3, <1>4, <1>5, <1>6, <1>7, <1>8 DEF PostSteps

(* ExitProcess on a screen of the frame dispatch. *)
LEMMA DispatchKeeps ==
  ASSUME IInv, NEW asked \in Asks, ExitProcessInDispatch(asked)
  PROVE  IInv'
<1> DEFINE g == [sig EXCEPT !.icept = IF @ = "no" THEN s.role ELSE @]
<1>1. g \in Signals /\ g.defer = sig.defer
  BY DEF IInv, TypeOK, Signals, Sessions
<1>2. pc # "tick" /\ pc' = "idle" /\ RecoverUnlessSuppressed(g, asked)
  BY DEF ExitProcessInDispatch
<1> HIDE DEF g
<1> QED
  BY <1>1, <1>2, RecoverOrStandBack

(* An update of a screen, hooked or not, hands the return on. *)
LEMMA UpdateKeepsReturn ==
  ASSUME IInv, NEW res \in Screens, NEW late \in BOOLEAN, NEW asked \in Asks,
         ScreenUpdate(res, late, asked)
  PROVE  Keeps(ret, ret') /\ screen' \in Screens
<1>1. ret \in Returns /\ screen \in Screens /\ Inside \in BOOLEAN
  BY DEF IInv, TypeOK, Inside
<1>2. CASE hooks /\ screen # "charsel"
  <2> DEFINE before == CASE screen = "loading" ->
                              TickFrontendReturn(ret, screen, Inside, late, asked)
                         [] screen = "battle" -> ObserveUpdate(ret)
                         [] screen = "result" -> ret
             h == HandleNativeUpdateReturn(before, screen, res)
             after == TickFrontendReturn(h.r, screen, Inside, late, asked)
  <2>1. screen \in {"loading", "battle", "result"}
    BY <1>1, <1>2 DEF ScreenUpdate, Screens
  <2>2. Keeps(ret, before)
    <3>1. Keeps(ret, TickFrontendReturn(ret, screen, Inside, late, asked))
      BY <1>1, TickKeeps, Zenon
    <3>2. Keeps(ret, ObserveUpdate(ret)) /\ Keeps(ret, ret)
      BY <1>1, ObserveKeeps DEF Keeps
    <3> QED
      BY <2>1, <3>1, <3>2
  <2>3. /\ ret' = after
        /\ \/ screen' = "title"
           \/ screen' = h.res
    BY <1>2 DEF ScreenUpdate
  <2> HIDE DEF before
  <2>4. before \in Returns
    BY <2>2 DEF Keeps
  <2>5. Keeps(before, h.r) /\ h.res \in Screens
    BY <1>1, <2>4, UpdateKeeps
  <2> HIDE DEF h
  <2>6. h.r \in Returns
    BY <2>5 DEF Keeps
  <2>7. Keeps(h.r, after)
    BY <1>1, <2>6, TickKeeps, Zenon
  <2> HIDE DEF after
  <2> QED
    BY <2>2, <2>3, <2>5, <2>7 DEF Keeps, Screens
<1>3. CASE ~(hooks /\ screen # "charsel")
  BY <1>1, <1>3 DEF ScreenUpdate, Keeps
<1> QED
  BY <1>2, <1>3

(* An update of a screen keeps the invariant. *)
LEMMA UpdateKeepsInvariant ==
  ASSUME IInv, NEW res \in Screens, NEW late \in BOOLEAN, NEW asked \in Asks,
         ScreenUpdate(res, late, asked)
  PROVE  IInv'
<1>1. Keeps(ret, ret') /\ screen' \in Screens
  BY UpdateKeepsReturn
<1>2. UNCHANGED <<pc, menu, s, sig, rec, prog, hooks, async, ghost>>
  BY DEF ScreenUpdate
<1>3. TypeOK'
  BY <1>1, <1>2 DEF IInv, TypeOK, Keeps
<1>4. LatchedIsOver' /\ OwnerKnown'
  BY <1>1, <1>2 DEF IInv, LatchedIsOver, Latched, OwnerKnown, Keeps
<1>5. DeferredInTick'
  BY <1>1, <1>2 DEF IInv, DeferredInTick, ShouldSuppressLegacyGameplayExitCleanup, Keeps
<1> QED
  BY <1>2, <1>3, <1>4, <1>5 DEF IInv, TickUnlatched, NothingNoted, IdleIsOver

(* Dropping the exit latch changes nothing else. *)
LEMMA AfterSuppressKeeps ==
  ASSUME NEW g \in Signals
  PROVE  /\ AfterSuppress(g) \in Signals /\ AfterSuppress(g).defer = g.defer
         /\ AfterSuppress(g).icept \in {"no", g.icept}
BY DEF AfterSuppress, Signals

(* The title's continuation enters the menu for the return. *)
LEMMA ContinuationKeeps ==
  ASSUME IInv, NEW late \in BOOLEAN, NEW asked \in Asks,
         TitleContinuation(late, asked)
  PROVE  IInv'
<1> USE DEF IInv
<1> DEFINE r == TitleReturn(late, asked)
           mine == CompletesRecovery(r)
<1>1. Keeps(ret, r)
  <2>1. ret \in Returns /\ screen \in Screens /\ Inside \in BOOLEAN
    BY DEF TypeOK, Inside
  <2> QED
    BY <2>1, TickKeeps, Zenon DEF TitleReturn
<1>2. /\ OnTitle /\ r.own = "ContinuationPending"
      /\ ret' = [NoReturn EXCEPT !.own = "ContinuationConsumed", !.st = "Complete"]
      /\ rec' = IF mine THEN "Completed" ELSE rec
      /\ s' = [s EXCEPT !.after = FALSE, !.phase = IF mine THEN EndPhase ELSE @,
                        !.mode = IF mine THEN "local" ELSE @]
      /\ menu' = TRUE
      /\ UNCHANGED <<pc, screen, hooks, async>>
  BY DEF TitleContinuation
<1>3. Owned(ret) /\ r.owner = ret.owner
  BY <1>1, <1>2 DEF Owned, Keeps
<1>4. sig.defer = "no"
  BY <1>3 DEF DeferredInTick, ShouldSuppressLegacyGameplayExitCleanup
<1> DEFINE p == IF mine THEN prog \cup {"Consumed"} ELSE prog
           gh0 == IF mine THEN NoteSuppressed(ghost, sig) ELSE ghost
           g0 == IF mine THEN [sig EXCEPT !.defer = "no"] ELSE sig
           m == EntryMarks(TRUE, p, g0, gh0)
<1>5. prog' = m.p /\ sig' = m.g /\ ghost' = [m.gh EXCEPT !.stale = @ \/ r.owner = "async"]
  BY DEF TitleContinuation
<1>6. ghost \in Ghosts /\ sig \in Signals /\ gh0 = ghost
  BY <1>4, NotesKeep DEF TypeOK
<1>7. g0 \in Signals /\ g0.defer = "no" /\ g0.icept = sig.icept
  BY <1>4, <1>6 DEF Signals
<1>8. p \in SUBSET {"Started", "Consumed"}
  BY DEF TypeOK
<1> HIDE DEF p, gh0, g0, mine, r
<1>9. m = [p |-> p \cup {"Started"}, g |-> [g0 EXCEPT !.defer = "no"],
           gh |-> NoteSuppressed(gh0, g0)]
  BY DEF EntryMarks
<1>10. NoteSuppressed(gh0, g0) = ghost
  BY <1>6, <1>7, NotesKeep
<1> HIDE DEF m
<1>11. /\ prog' = p \cup {"Started"} /\ sig' = [g0 EXCEPT !.defer = "no"]
       /\ ghost' = [ghost EXCEPT !.stale = @ \/ r.owner = "async"]
  BY <1>5, <1>9, <1>10
<1>12. /\ sig' \in Signals /\ sig'.defer = "no" /\ sig'.icept = sig.icept
  BY <1>7, <1>11 DEF Signals
<1>13. /\ ghost' \in Ghosts /\ ghost'.bad = ghost.bad
       /\ ghost'.stale = (ghost.stale \/ ret.owner = "async")
  BY <1>3, <1>6, <1>11 DEF Ghosts
<1>14. /\ s' \in Sessions
       /\ s'.helper = s.helper /\ s'.patches = s.patches /\ s'.role = s.role
  <2>1. EndPhase \in {"Idle", "SessionEnded"}
    BY DEF EndPhase
  <2> QED
    BY <1>2, <2>1 DEF TypeOK, Sessions, Roles
<1>15. ret' \in Returns /\ ~Owned(ret')
  BY <1>2 DEF NoReturn, Returns, Owned
<1>16. rec' \in {"Idle", "MenuPending", "Completed"} /\ prog' \in SUBSET {"Started", "Consumed"}
  BY <1>2, <1>8, <1>11 DEF TypeOK
<1>17. TypeOK'
  BY <1>2, <1>12, <1>13, <1>14, <1>15, <1>16 DEF TypeOK
<1>18. ~ghost'.stale => s.helper = "none" /\ ~s.patches /\ s.role = "local"
  <2>1. ret.owner \in {"async", "disconnect"}
    BY DEF TypeOK, Returns
  <2> QED
    BY <1>3, <1>13, <2>1 DEF OwnerKnown, LatchedIsOver, Latched
<1>19. NothingNoted'
  BY <1>13 DEF NothingNoted
<1> QED
  BY <1>2, <1>12, <1>14, <1>15, <1>17, <1>18, <1>19
     DEF TickUnlatched, LatchedIsOver, IdleIsOver, OwnerKnown, DeferredInTick

(* The recovery enters the menu when no return is under way. *)
LEMMA PendingEntryKeeps ==
  ASSUME IInv, TitlePendingEntry
  PROVE  IInv'
<1> USE DEF IInv
<1> DEFINE g0 == [sig EXCEPT !.defer = "no"]
           gh0 == NoteSuppressed(ghost, sig)
           p == prog \cup {"Consumed"}
           m == EntryMarks(TRUE, p, g0, gh0)
<1>1. /\ ~Owned(ret) /\ rec = "MenuPending" /\ rec' = "Completed" /\ menu' = TRUE
      /\ s' = [s EXCEPT !.after = FALSE, !.phase = EndPhase, !.mode = "local"]
      /\ prog' = m.p /\ sig' = m.g /\ ghost' = m.gh
      /\ UNCHANGED <<pc, screen, ret, hooks, async>>
  BY DEF TitlePendingEntry
<1>2. sig.defer = "no"
  BY <1>1 DEF DeferredInTick, ShouldSuppressLegacyGameplayExitCleanup
<1>3. ghost \in Ghosts /\ sig \in Signals /\ gh0 = ghost
  BY <1>2, NotesKeep DEF TypeOK
<1>4. g0 \in Signals /\ g0.defer = "no" /\ g0.icept = sig.icept
  BY <1>3 DEF Signals
<1>5. p \in SUBSET {"Started", "Consumed"}
  BY DEF TypeOK
<1> HIDE DEF p, gh0, g0
<1>6. m = [p |-> p \cup {"Started"}, g |-> [g0 EXCEPT !.defer = "no"],
           gh |-> NoteSuppressed(gh0, g0)]
  BY DEF EntryMarks
<1>7. NoteSuppressed(gh0, g0) = ghost
  BY <1>3, <1>4, NotesKeep
<1> HIDE DEF m
<1>8. prog' = p \cup {"Started"} /\ sig' = [g0 EXCEPT !.defer = "no"] /\ ghost' = ghost
  BY <1>1, <1>6, <1>7
<1>9. sig' \in Signals /\ sig'.defer = "no" /\ sig'.icept = sig.icept
  BY <1>4, <1>8 DEF Signals
<1>10. /\ s' \in Sessions
       /\ s'.helper = s.helper /\ s'.patches = s.patches /\ s'.role = s.role
  <2>1. EndPhase \in {"Idle", "SessionEnded"}
    BY DEF EndPhase
  <2> QED
    BY <1>1, <2>1 DEF TypeOK, Sessions, Roles
<1>11. TypeOK'
  BY <1>1, <1>5, <1>8, <1>9, <1>10 DEF TypeOK
<1>12. ~ghost.stale => s.helper = "none" /\ ~s.patches /\ s.role = "local"
  BY <1>1 DEF LatchedIsOver, Latched
<1> QED
  BY <1>1, <1>8, <1>9, <1>10, <1>11, <1>12
     DEF TickUnlatched, NothingNoted, LatchedIsOver, IdleIsOver, OwnerKnown, DeferredInTick

(* The title takes a latched exit: only between frames, and only before any *)
(* menu entry.                                                              *)
LEMMA InterceptionKeeps ==
  ASSUME IInv, NEW recovered \in BOOLEAN, TitleInterception(recovered)
  PROVE  IInv'
<1> USE DEF IInv
<1>1. PICK phase \in {"Idle", "SessionEnded"} :
        phase = IF s.helper = "alive" THEN "SessionEnded" ELSE "Idle"
  OBVIOUS
<1> DEFINE c == CancelUnlessRecovered(phase, recovered)
<1>2. Cancelled(c, phase)
  BY CancelUnlessRecoveredCancels
<1>3. /\ ~menu /\ pc \in {"idle", "tick"} /\ sig.icept # "no"
      /\ ~ShouldSuppressLegacyGameplayExitCleanup /\ menu' \in BOOLEAN
      /\ s' = [c.s EXCEPT !.role = "local", !.after = FALSE]
      /\ UNCHANGED <<pc, screen, rec, ret, hooks, async>>
  BY <1>1 DEF TitleInterception, TitleFree, OnTitle, Updating
<1>4. pc = "idle" /\ ~Inside /\ sig.defer = "no"
  BY <1>3 DEF TickUnlatched, DeferredInTick, Inside
<1> DEFINE h == [c.ghost EXCEPT !.bad = IF recovered THEN @ ELSE @ \cup NoteInit(prog).bad]
           g == [c.g EXCEPT !.icept = "no"]
           m == EntryMarks(c.g.defer \in Gameplay, prog, g, h)
<1>5. IF sig.icept # "local"
      THEN prog' = m.p /\ sig' = m.g /\ ghost' = m.gh
      ELSE prog' = prog /\ sig' = g /\ ghost' = h
  BY <1>1 DEF TitleInterception
<1>6. c.g.defer \notin Gameplay
  BY <1>2, <1>4 DEF Cancelled, Gameplay
<1> HIDE DEF c, h, g
<1>7. m = [p |-> prog, g |-> g, gh |-> h]
  BY <1>6 DEF EntryMarks
<1> HIDE DEF m
<1>8. prog' = prog /\ sig' = g /\ ghost' = h
  BY <1>5, <1>7
<1>9. g \in Signals /\ g.defer = "no" /\ g.icept = "no"
  BY <1>2, <1>4 DEF Cancelled, Signals, g
<1>10. /\ s' \in Sessions /\ s'.helper = "none" /\ ~s'.patches /\ s'.role = "local"
  BY <1>2, <1>3 DEF Cancelled, Sessions, Roles
<1>11. /\ h \in Ghosts /\ h.stale = ghost.stale
       /\ "tick" \notin h.bad /\ (~ghost.stale => h.bad = {})
  <2>1. prog = {} /\ ~EntryOver(rec, {}, ret) /\ prog \in SUBSET {"Started", "Consumed"}
    BY <1>3 DEF EntryOver, ShouldSuppressLegacyGameplayExitCleanup
  <2>2. "tick" \notin NoteInit(prog).bad /\ (~ghost.stale => NoteInit(prog).bad = {})
    BY <1>4, <2>1, NotedOnce
  <2>3. NoteInit(prog) \in Ghosts
    BY <2>1, NotesKeep
  <2> QED
    BY <1>2, <2>2, <2>3 DEF Cancelled, Ghosts, h
<1>12. TypeOK'
  BY <1>3, <1>8, <1>9, <1>10, <1>11 DEF TypeOK
<1>13. ~Owned(ret) /\ ~Latched
  BY <1>3 DEF Latched, ShouldSuppressLegacyGameplayExitCleanup
<1> QED
  BY <1>3, <1>8, <1>9, <1>10, <1>11, <1>12, <1>13
     DEF TickUnlatched, NothingNoted, LatchedIsOver, Latched, IdleIsOver, OwnerKnown,
         DeferredInTick

(* The title goes back to the menu after a match. *)
LEMMA MatchEndedKeeps ==
  ASSUME IInv, TitleMatchEnded
  PROVE  IInv'
<1> USE DEF IInv
<1>1. PICK phase \in {"Idle", "SessionEnded"} :
        phase = IF s.helper = "alive" THEN "SessionEnded" ELSE "Idle"
  OBVIOUS
<1> DEFINE c == CancelSession(phase)
           suppress == ShouldSuppressLegacyGameplayExitCleanup
           g == AfterSuppress(c.g)
           m == EntryMarks(suppress \/ c.g.defer \in Gameplay, prog, g, c.ghost)
<1>2. Cancelled(c, phase)
  BY CancelCancels
<1>3. /\ ~menu /\ pc \in {"idle", "tick"} /\ screen = "title" /\ ~Owned(ret)
      /\ rec # "MenuPending"
      /\ menu' = TRUE /\ s' = [c.s EXCEPT !.after = FALSE]
      /\ prog' = m.p /\ sig' = m.g /\ ghost' = m.gh
      /\ UNCHANGED <<pc, screen, rec, ret, hooks, async>>
  BY <1>1 DEF TitleMatchEnded, TitleFree, OnTitle, Updating
<1>4. sig.defer = "no"
  BY <1>3 DEF DeferredInTick
<1> HIDE DEF c, g, suppress
<1>5. /\ g \in Signals /\ g.icept \in {"no", sig.icept}
      /\ g.defer = c.g.defer /\ (g.defer # "no" => ~suppress /\ Inside)
      /\ c.g.defer \notin Gameplay
  <2>1. c.g \in Signals /\ c.g.icept = sig.icept
    BY <1>2 DEF Cancelled
  <2>2. g \in Signals /\ g.defer = c.g.defer /\ g.icept \in {"no", c.g.icept}
    BY <2>1, AfterSuppressKeeps DEF g
  <2> QED
    BY <1>2, <1>3, <1>4, <2>1, <2>2 DEF Cancelled, Gameplay, suppress
<1>6. m.g = g /\ m.gh = c.ghost /\ m.p = IF suppress THEN prog \cup {"Started"} ELSE prog
  <2>1. CASE suppress
    <3>1. /\ m = [p |-> prog \cup {"Started"}, g |-> [g EXCEPT !.defer = "no"],
                  gh |-> NoteSuppressed(c.ghost, g)]
      BY <2>1 DEF EntryMarks
    <3>2. g.defer = "no" /\ NoteSuppressed(c.ghost, g) = c.ghost
      BY <1>2, <1>5, <2>1, NotesKeep DEF Cancelled
    <3>3. [g EXCEPT !.defer = "no"] = g
      BY <1>5, <3>2 DEF Signals
    <3> QED
      BY <2>1, <3>1, <3>2, <3>3
  <2>2. CASE ~suppress
    BY <1>5, <2>2 DEF EntryMarks
  <2> QED
    BY <2>1, <2>2
<1> HIDE DEF m
<1>7. /\ s' \in Sessions /\ s'.phase = phase
      /\ IF suppress
         THEN s'.helper = s.helper /\ s'.patches = s.patches /\ s'.role = s.role
         ELSE s'.helper = "none" /\ ~s'.patches /\ s'.role = "local"
  BY <1>2, <1>3 DEF Cancelled, Sessions, suppress
<1>8. TypeOK'
  <2>1. prog' \in SUBSET {"Started", "Consumed"}
    BY <1>3, <1>6 DEF TypeOK
  <2> QED
    BY <1>2, <1>3, <1>5, <1>6, <1>7, <2>1 DEF TypeOK, Cancelled
<1>9. NothingNoted' /\ ghost'.stale = ghost.stale
  BY <1>2, <1>3, <1>6 DEF NothingNoted, Cancelled
<1>10. suppress <=> Latched
  BY <1>3, SuppressedWhenLatched DEF suppress
<1>11. Latched' <=> Latched
  BY <1>3, <1>6, <1>10 DEF Latched
<1>12. suppress /\ ~ghost.stale => s.helper = "none" /\ ~s.patches /\ s.role = "local"
  BY <1>10 DEF LatchedIsOver
<1>13. LatchedIsOver' /\ IdleIsOver'
  BY <1>7, <1>9, <1>10, <1>11, <1>12 DEF LatchedIsOver, IdleIsOver
<1>14. DeferredInTick'
  <2>1. ~suppress => ~ShouldSuppressLegacyGameplayExitCleanup'
    BY <1>3, <1>6 DEF ShouldSuppressLegacyGameplayExitCleanup, suppress
  <2> QED
    BY <1>3, <1>5, <1>6, <1>7, <2>1 DEF DeferredInTick, Inside
<1> QED
  BY <1>3, <1>5, <1>6, <1>8, <1>9, <1>13, <1>14 DEF TickUnlatched, OwnerKnown

(* The native title. *)
LEMMA NativeTitleKeeps ==
  ASSUME IInv, NEW choice, TitleNative(choice)
  PROVE  IInv'
<1>1. /\ ~Owned(ret) /\ ~menu /\ menu' \in BOOLEAN /\ screen' \in Screens
      /\ sig' = AfterSuppress(sig)
      /\ UNCHANGED <<pc, s, rec, prog, ret, hooks, async, ghost>>
  BY DEF TitleNative, TitleFree, OnTitle, IInv, TypeOK, Screens
<1>2. sig' \in Signals /\ sig'.defer = sig.defer /\ sig'.icept \in {"no", sig.icept}
  BY <1>1, AfterSuppressKeeps DEF IInv, TypeOK
<1>3. TypeOK'
  BY <1>1, <1>2 DEF IInv, TypeOK
<1> QED
  BY <1>1, <1>2, <1>3 DEF IInv, TickUnlatched, NothingNoted, LatchedIsOver, Latched,
              IdleIsOver, OwnerKnown, DeferredInTick

--------------------------------------------------------------------------------
(* Every step keeps the invariant. *)
LEMMA Inductive == IInv /\ [Next]_vars => IInv'
<1> SUFFICES ASSUME IInv, [Next]_vars PROVE IInv'
  OBVIOUS
<1>1. CASE UNCHANGED vars
  BY <1>1 DEF vars, IInv, TypeOK, TickUnlatched, NothingNoted, LatchedIsOver, Latched,
              IdleIsOver, OwnerKnown, DeferredInTick, ShouldSuppressLegacyGameplayExitCleanup
<1>2. CASE User
  BY <1>2, UserKeeps
<1>3. CASE Outside \/ ExitWatch \/ TickFails \/ TickFailsSpectator
  BY <1>3, OutsideKeeps
<1>4. CASE FrameBegin \/ TickReturns \/ ExitProcessInTick \/ ExitProcessInTitle
  BY <1>4, FrameKeeps
<1>5. CASE PostSteps \/ \E asked \in Asks : PostStalled(asked)
  BY <1>5, PostStepsKeep
<1>6. CASE \E asked \in Asks : ExitProcessInDispatch(asked)
  BY <1>6, DispatchKeeps
<1>7. CASE TitleSteps
  BY <1>7, PendingEntryKeeps, InterceptionKeeps, MatchEndedKeeps, ContinuationKeeps
     DEF TitleSteps
<1>8. CASE \E choice \in {"menu", "play"} : TitleNative(choice)
  BY <1>8, NativeTitleKeeps
<1>9. CASE \E res \in Screens, late \in BOOLEAN, asked \in Asks : ScreenUpdate(res, late, asked)
  BY <1>9, UpdateKeepsInvariant
<1> QED
  BY <1>1, <1>2, <1>3, <1>4, <1>5, <1>6, <1>7, <1>8, <1>9 DEF Next

(* It holds in the beginning. *)
LEMMA InitIsSafe == Init => IInv
<1> SUFFICES ASSUME Init PROVE IInv
  OBVIOUS
<1>1. TypeOK
  <2>1. 0 \in 0..WatchdogGrace
    BY GraceAssumption
  <2> QED
    BY <2>1 DEF Init, TypeOK, Screens, Sessions, Signals, Roles, Returns, NoReturn, Ghosts
<1> QED
  BY <1>1 DEF Init, IInv, NoReturn, TickUnlatched, NothingNoted, LatchedIsOver, Latched, Consumed,
              IdleIsOver, OwnerKnown, DeferredInTick, Owned

(* It says what is to be shown. *)
LEMMA InvariantIsSafe == IInv => ExitSafe
<1> SUFFICES ASSUME IInv PROVE ExitSafe
  OBVIOUS
<1>1. NoInitInsideTick /\ NothingAfterMenuEntry
  BY DEF IInv, NothingNoted, NoInitInsideTick, NothingAfterMenuEntry
<1>2. TeardownArmed
  BY SuppressedWhenLatched DEF IInv, LatchedIsOver, TeardownArmed
<1>3. NoHelperAfterEnd
  BY DEF IInv, LatchedIsOver, Latched, IdleIsOver, NoHelperAfterEnd
<1> QED
  BY <1>1, <1>2, <1>3 DEF IInv, ExitSafe

(* However a session ends (quit, error, dead helper, ExitProcess, cancel or  *)
(* the end of the match), and on whatever screen: its session object is      *)
(* rebuilt outside the tick only, never again once the menu entry has begun, *)
(* and a latch of an earlier recovery leaves no teardown of a later session  *)
(* standing back.                                                            *)
THEOREM ExitSafety == Spec => []ExitSafe
BY InitIsSafe, Inductive, InvariantIsSafe, PTL DEF Spec

--------------------------------------------------------------------------------
(* A return under way stays under way, with its owner, until the menu is *)
(* entered for it.                                                       *)
ReturnKept ==
  Owned(ret) => \/ Owned(ret') /\ ret'.owner = ret.owner
                \/ Consumed(ret') /\ menu'

(* A recovery joins the return under way. *)
LEMMA RecoveryJoinsReturn ==
  ASSUME IInv, NEW g, NEW late \in BOOLEAN, NEW asked \in Asks,
         \/ BeginGameplayExitRecovery(g, late, asked)
         \/ RecoverUnlessSuppressed(g, asked)
  PROVE  ReturnKept
<1>1. PICK l \in BOOLEAN :
        \/ ret' = ret
        \/ ret' = BeginReturnToFrontend(ret, "disconnect", screen, FALSE, l, asked)
  <2>1. \/ ret' = ret
        \/ ret' = BeginReturnToFrontend(ret, "disconnect", screen, FALSE, late, asked)
        \/ ret' = BeginReturnToFrontend(ret, "disconnect", screen, FALSE, FALSE, asked)
    BY DEF BeginGameplayExitRecovery, RecoverUnlessSuppressed
  <2> QED
    BY <2>1, Zenon
<1>2. CASE ret' = ret
  BY <1>2 DEF ReturnKept
<1>3. CASE ret' # ret
  <2>1. ret \in Returns /\ screen \in Screens /\ FALSE \in BOOLEAN
    BY DEF IInv, TypeOK
  <2>2. Begun(ret, "disconnect", BeginReturnToFrontend(ret, "disconnect", screen, FALSE, l, asked))
    BY <2>1, BeginReturn, Zenon
  <2>3. Begun(ret, "disconnect", ret')
    BY <1>1, <1>3, <2>2, Zenon
  <2> QED
    BY <2>3 DEF Begun, ReturnKept
<1> QED
  BY <1>2, <1>3

(* No step loses a return: neither a second reason to leave, nor a new    *)
(* session, a hooked update, the timeouts of loading or the forced return *)
(* (frontend_return's ownership).                                         *)
THEOREM ReturnNotLost == Spec => [][ReturnKept]_vars
<1>1. ASSUME IInv, Next PROVE ReturnKept
  <2>1. CASE User
    <3>1. CASE StartSession
      BY <1>1, <3>1 DEF StartSession, ResetConsumedContinuationLatch, Owned, Consumed, ReturnKept
    <3>2. CASE \E late \in BOOLEAN, asked \in Asks : PressReturnKey(late, asked)
      BY <3>2 DEF PressReturnKey, ReturnKept
    <3> QED
      BY <2>1, <3>1, <3>2
         DEF User, UserCancel, LeaveMenu, Minimise, HandOff, LocalInit, ReturnKept
  <2>2. CASE \/ Outside \/ ExitWatch \/ TickFails \/ TickFailsSpectator
             \/ FrameBegin \/ TickReturns \/ ExitProcessInTick \/ ExitProcessInTitle
    BY <2>2 DEF Outside, HelperDies, ConsoleError, QuitRing, SpectatorEsc, ExitWatch, TickFails,
                TickFailsSpectator, FrameBegin, TickReturns, ExitProcessInTick, ExitProcessInTitle, ReturnKept
  <2>3. CASE \E asked \in Asks :
               \/ PostStalled(asked) \/ ExitProcessInDispatch(asked)
               \/ PostTickRecovery(asked) \/ PostQuitRing(asked)
               \/ PostConsoleError(asked) \/ PostSpectatorEsc(asked)
               \/ PostWatchdog(asked)
    <3>1. PICK asked \in Asks :
            \/ PostStalled(asked) \/ ExitProcessInDispatch(asked)
            \/ PostTickRecovery(asked) \/ PostQuitRing(asked)
            \/ PostConsoleError(asked) \/ PostSpectatorEsc(asked)
            \/ PostWatchdog(asked)
      BY <2>3
    <3>2. \/ ret' = ret
          \/ \E g : \/ BeginGameplayExitRecovery(g, FALSE, asked)
                    \/ RecoverUnlessSuppressed(g, asked)
      BY <3>1 DEF PostStalled, ExitProcessInDispatch, PostTickRecovery, PostQuitRing,
                  PostConsoleError, PostSpectatorEsc, PostWatchdog, FinalizeQuit
    <3> QED
      BY <1>1, <3>2, RecoveryJoinsReturn, Zenon DEF ReturnKept
  <2>4. CASE \E late \in BOOLEAN, asked \in Asks :
               PostRest(late, asked) \/ PostScheduledQuit(late, asked)
    <3>1. PICK late \in BOOLEAN, asked \in Asks :
            PostRest(late, asked) \/ PostScheduledQuit(late, asked)
      BY <2>4
    <3>2. \/ ret' = ret
          \/ ret' = TickFrontendReturn(ret, screen, FALSE, late, asked)
          \/ \E g : RecoverUnlessSuppressed(g, asked)
      BY <3>1 DEF PostRest, PostScheduledQuit, FinalizeQuit
    <3>3. Keeps(ret, TickFrontendReturn(ret, screen, FALSE, late, asked))
      <4>1. FALSE \in BOOLEAN /\ ret \in Returns /\ screen \in Screens
        BY <1>1 DEF IInv, TypeOK
      <4> QED
        BY <4>1, TickKeeps, Zenon
    <3>4. CASE ret' = ret \/ ret' = TickFrontendReturn(ret, screen, FALSE, late, asked)
      BY <3>3, <3>4 DEF Keeps, ReturnKept
    <3>5. CASE \E g : RecoverUnlessSuppressed(g, asked)
      BY <1>1, <3>5, RecoveryJoinsReturn, Zenon
    <3> QED
      BY <3>2, <3>4, <3>5
  <2>5. CASE PostFastPath \/ PostHeld
    BY <2>5 DEF PostFastPath, PostHeld, ReturnKept
  <2>6. CASE TitleSteps
    BY <2>6 DEF TitleSteps, TitlePendingEntry, TitleInterception, TitleMatchEnded, TitleFree,
                TitleContinuation, Consumed, NoReturn, ReturnKept
  <2>7. CASE \E choice \in {"menu", "play"} : TitleNative(choice)
    BY <2>7 DEF TitleNative, ReturnKept
  <2>8. CASE \E res \in Screens, late \in BOOLEAN, asked \in Asks : ScreenUpdate(res, late, asked)
    BY <1>1, <2>8, UpdateKeepsReturn DEF Keeps, ReturnKept
  <2> QED
    BY <1>1, <2>1, <2>2, <2>3, <2>4, <2>5, <2>6, <2>7, <2>8 DEF Next, PostSteps
<1>2. IInv /\ [Next]_vars => [ReturnKept]_vars
  BY <1>1
<1> QED
  BY <1>2, InitIsSafe, Inductive, PTL DEF Spec
=============================================================================
