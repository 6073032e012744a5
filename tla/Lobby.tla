--------------------------------- MODULE Lobby ---------------------------------
(***************************************************************************)
(* A room of the lobby server, as one LobbySession keeps it.               *)
(*                                                                         *)
(* The menu thread begins and ends challenges and matches by moving an     *)
(* atomic phase and queueing an action; a poll thread takes the queue,     *)
(* performs each action as an HTTP request, and polls the room in between. *)
(* The server hears of a request, or not, and its answer arrives, or not.  *)
(* A failed request is repaired by an End, or by leaving and joining anew; *)
(* both reset the phase, which the menu thread may have moved meanwhile.   *)
(***************************************************************************)
EXTENDS Integers, Sequences, FiniteSets

CONSTANTS
  MaxJoins,           \* registrations the server hands out
  PollFailureLimit,   \* kPollFailureLimit
  MaxFaults,          \* requests that are lost or refused, and expiries
  MaxStarts           \* challenges, acceptances and spectates the user begins

Regs == 1..MaxJoins
MatchPhases == {"Idle", "Challenging", "Connected", "Returning", "EndingConnected", "Ending"}
EndPhases == {"Returning", "EndingConnected", "Ending"}
Actions == {"Challenge", "PreAccept", "ConfirmAccept", "End"}
Busy == {"challenging", "playing"}
Ops == {"none", "join", "status", "challenge", "preaccept", "accept", "end", "leave"}

VARIABLES
  match,    \* MatchLifecycle and the fields beside it: phase, isMatchHost,
            \* pending challenge target, pending accept target
  spect,    \* SpectateLifecycle
  status,   \* LobbyStatus: pollState, inBattle, how the other player is shown
  flags,    \* abandonedOutgoingChallenge, abandonedIncomingChallenge
  queue,    \* m_pendingActions
  rejoin,   \* m_rejoinRequested
  stop,     \* m_shouldStop
  reg,      \* m_joinedRoom: the registration, 0 when there is none
  fails,    \* m_consecutivePollFailures
  th,       \* the poll thread: place, request and who makes it, answer,
            \* rest of the batch, what a status answer said
  menu,     \* the menu thread: its session, and the call it is inside
  srv,      \* the server: registrations, the next one, and (for the
            \* properties) how many a lost message has left behind
  faults, starts,
  crossed   \* for the properties: what the poll thread did for one match met
            \* another, which the menu thread had begun or connected meanwhile

vars == <<match, spect, status, flags, queue, rejoin, stop, reg, fails, th, menu, srv,
          faults, starts, crossed>>
shared == <<match, spect, status, flags, queue, rejoin>>   \* what both threads write
mine == <<reg, fails, th>>                                 \* the poll thread's own
world == <<srv, faults>>

NoMatch == [phase |-> "Idle", host |-> FALSE, target |-> FALSE, accept |-> FALSE]
Alive(r) == r # 0 /\ srv.live[r] \in {"idle"} \cup Busy

--------------------------------------------------------------------------------
(* MatchLifecycle: every operation is one compare-and-swap loop. *)

BeginChallenge(p) == IF p = "Idle" THEN "Challenging" ELSE p
CanConnect(p) == p \in {"Challenging", "Connected"}
Rejected(p, queueEnd) ==
  IF p \in {"Challenging", "Connected"} THEN (IF queueEnd THEN "Ending" ELSE "Idle") ELSE p
ConsumeReturn(p) == IF p = "Returning" THEN "EndingConnected" ELSE p
BeginEnd(p) ==
  CASE p = "Challenging" -> "Ending" [] p = "Connected" -> "Returning" [] OTHER -> p

IsInBattle == match.phase # "Idle" \/ spect # "Idle"

(* A reset erases a challenge or a match that the menu thread has begun; a *)
(* rejection meets one whose call has not returned, or one that connected  *)
(* after the status answer was judged.                                     *)
Wipes == match.phase \in {"Challenging", "Connected"}
WipesCall == Wipes /\ menu.call # "none"
WipesOther == Wipes /\ th.of # starts
WipesConnected == match.phase = "Connected"
HasPendingAction == queue # <<>>
HasPendingEnd == \E i \in DOMAIN queue : queue[i].do = "End"

(* An action in the queue; `of` is there for the properties: the match it  *)
(* was queued for.                                                         *)
Act(a) == [do |-> a, of |-> starts]

--------------------------------------------------------------------------------
(* The menu thread.  A call moves the phase first and fills the rest in    *)
(* under the mutex: two steps, between which the poll thread may act.      *)

MenuFree == menu.call = "none" /\ ~stop
MayStart == MenuFree /\ menu.session = "none" /\ starts < MaxStarts
            /\ status.poll = "Polling" /\ ~IsInBattle

(* PumpHostListenerObservation after the listener acknowledged. *)
SendChallenge ==
  /\ MayStart /\ status.shown = "idle"
  /\ match' = [match EXCEPT !.phase = BeginChallenge(@), !.host = TRUE]
  /\ spect' = "Idle"
  /\ menu' = [session |-> "host", call |-> "challenge"]
  /\ starts' = starts + 1
  /\ UNCHANGED <<status, flags, queue, rejoin, stop, mine, world, crossed>>

AcceptChallenge ==
  /\ MayStart /\ status.shown = "challenge"
  /\ match' = [match EXCEPT !.phase = BeginChallenge(@), !.host = FALSE]
  /\ spect' = "Idle"
  /\ menu' = [session |-> "join", call |-> "accept"]
  /\ starts' = starts + 1
  /\ UNCHANGED <<status, flags, queue, rejoin, stop, mine, world, crossed>>

QueueChallenge ==
  /\ menu.call = "challenge"
  /\ flags' = [out |-> FALSE, in |-> FALSE]
  /\ match' = [match EXCEPT !.target = TRUE]
  /\ queue' = Append(queue, Act("Challenge"))
  /\ menu' = [menu EXCEPT !.call = "none"]
  /\ UNCHANGED <<spect, status, rejoin, stop, mine, world, starts, crossed>>

QueuePreAccept ==
  /\ menu.call = "accept"
  /\ flags' = [out |-> FALSE, in |-> FALSE]
  /\ match' = [match EXCEPT !.target = FALSE, !.accept = TRUE]
  /\ status' = [status EXCEPT !.inBattle = TRUE]
  /\ queue' = Append(queue, Act("PreAccept"))
  /\ menu' = [menu EXCEPT !.call = "none"]
  /\ UNCHANGED <<spect, rejoin, stop, mine, world, starts, crossed>>

(* The first delay prompt of the session. *)
NotifyMatchConnected ==
  /\ MenuFree /\ menu.session \in {"host", "join"}
  /\ IF CanConnect(match.phase)
     THEN /\ match' = [match EXCEPT !.phase = "Connected"]
          /\ menu' = [session |-> "delay", call |-> "connected"]
     ELSE /\ menu' = [menu EXCEPT !.session = "delay"]
          /\ UNCHANGED match
  /\ UNCHANGED <<spect, status, flags, queue, rejoin, stop, mine, world, starts, crossed>>

QueueConfirmAccept ==
  /\ menu.call = "connected"
  /\ spect' = "Idle"
  /\ flags' = [out |-> FALSE, in |-> FALSE]
  /\ match' = [match EXCEPT !.target = FALSE]
  /\ status' = [status EXCEPT !.inBattle = TRUE]
  /\ queue' = Append(queue, Act("ConfirmAccept"))
  /\ menu' = [menu EXCEPT !.call = "none"]
  /\ UNCHANGED <<rejoin, stop, mine, world, starts, crossed>>

GameStarts ==
  /\ MenuFree /\ menu.session = "delay"
  /\ menu' = [menu EXCEPT !.session = "game"]
  /\ UNCHANGED <<shared, stop, mine, world, starts, crossed>>

NotifyEndMatchAgain ==
  /\ MenuFree /\ menu.session # "watch"
  /\ menu' = [session |-> "none", call |-> "end"]
  /\ match' = [match EXCEPT !.phase = BeginEnd(@)]
  /\ UNCHANGED <<spect, status, flags, queue, rejoin, stop, mine, world, starts, crossed>>

(* Cancelled by the user, ended by the peer, or back from the game; it is  *)
(* also called when nothing is left to end.                                *)
NotifyEndMatch ==
  /\ MenuFree /\ menu.session # "watch"
  /\ IF match.phase \in {"Challenging", "Connected"}
     THEN menu' = [session |-> "none", call |-> "end"]
     ELSE menu' = [menu EXCEPT !.session = "none"]
  /\ match' = [match EXCEPT !.phase = BeginEnd(@)]
  /\ status' = IF match.phase \in {"Idle", "Ending", "EndingConnected"}
               THEN [status EXCEPT !.inBattle = FALSE] ELSE status
  /\ UNCHANGED <<spect, flags, queue, rejoin, stop, mine, world, starts, crossed>>

QueueEnd ==
  /\ menu.call = "end"
  /\ match' = [match EXCEPT !.target = FALSE]
  /\ status' = [status EXCEPT !.inBattle = FALSE]
  /\ queue' = Append(queue, Act("End"))
  /\ menu' = [menu EXCEPT !.call = "none"]
  /\ UNCHANGED <<spect, flags, rejoin, stop, mine, world, starts, crossed>>

FlushDeferredEndOnReturn ==
  /\ MenuFree /\ match.phase = "Returning"
  /\ match' = [match EXCEPT !.phase = ConsumeReturn(@)]
  /\ UNCHANGED <<spect, status, flags, queue, rejoin, stop, mine, world, menu, starts, crossed>>

(* The refresh key, and the return to the lobby screen. *)
RequestRefresh ==
  /\ MenuFree /\ menu.session \notin {"game", "watch"}
  /\ spect' = IF spect = "Returning" THEN "Idle" ELSE spect
  /\ match' = [match EXCEPT !.phase = ConsumeReturn(@)]
  /\ status' = [status EXCEPT
       !.inBattle = @ /\ spect # "Returning" /\ match.phase # "Returning",
       !.poll = IF @ = "Error" THEN "Joining" ELSE @]
  /\ rejoin' = (rejoin \/ status.poll = "Error")
  /\ UNCHANGED <<flags, queue, stop, mine, world, menu, starts, crossed>>

NotifySpectateStarted ==
  /\ MayStart /\ status.shown = "playing"
  /\ spect' = "Active"
  /\ status' = [status EXCEPT !.inBattle = TRUE]
  /\ menu' = [menu EXCEPT !.session = "watch"]
  /\ starts' = starts + 1
  /\ UNCHANGED <<match, flags, queue, rejoin, stop, mine, world, crossed>>

NotifyEndSpectate(preserve) ==
  /\ MenuFree /\ menu.session = "watch"
  /\ IF spect = "Idle"
     THEN spect' = spect /\ status' = [status EXCEPT !.inBattle = FALSE]
     ELSE /\ spect' = IF preserve THEN "Returning" ELSE "Idle"
          /\ status' = [status EXCEPT !.inBattle = preserve]
  /\ menu' = [menu EXCEPT !.session = "none"]
  /\ UNCHANGED <<match, flags, queue, rejoin, stop, mine, world, starts, crossed>>

(* ConsumeAbandoned{Outgoing,Incoming}Challenge: the session is cancelled. *)
ConsumeAbandoned ==
  /\ MenuFree /\ menu.session \notin {"game", "watch"}
  /\ flags.out \/ flags.in
  /\ flags' = IF flags.out THEN [flags EXCEPT !.out = FALSE] ELSE [flags EXCEPT !.in = FALSE]
  /\ menu' = [menu EXCEPT !.session = "none"]
  /\ UNCHANGED <<match, spect, status, queue, rejoin, stop, mine, world, starts, crossed>>

(* The destructor; the menu makes no further call. *)
Shutdown ==
  /\ MenuFree /\ stop' = TRUE
  /\ UNCHANGED <<shared, mine, world, menu, starts, crossed>>

--------------------------------------------------------------------------------
(* The poll thread. *)

At(pc) == th.pc = pc
GoTo(pc) == [th EXCEPT !.pc = pc, !.of = 0, !.op = "none", !.reply = "none", !.view = "none",
                          !.gaveUp = "none"]
Request(op, from) == [th EXCEPT !.pc = "request", !.op = op, !.from = from]
Answered(op) == At("answered") /\ th.op = op
menuSide == <<menu, stop, starts>>
AfterPoll == IF th.from = "poll" THEN "wait" ELSE "act"  \* the rest of the batch after an End

(* ClearMatchLifecycleState(true). *)
ClearMatchLifecycleState ==
  /\ match' = NoMatch
  /\ spect' = "Idle"
  /\ crossed' = (crossed \/ Wipes)

(* HandleServerRemovalFailure: the server no longer knows the registration.*)
(* What is pending is judged, the room is emptied under the mutex, and only *)
(* then the phase is reset; the menu thread may act in between.            *)
Judged == IF match.phase # "Challenging" THEN "none" ELSE IF match.host THEN "out" ELSE "in"
Removal == th' = [th EXCEPT !.pc = "removed", !.gaveUp = Judged]

RemovalEmptiesRoom ==
  /\ At("removed")
  /\ status' = [poll |-> "Joining", inBattle |-> FALSE, shown |-> "none"]
  /\ queue' = <<>>
  /\ match' = [match EXCEPT !.target = FALSE]
  /\ th' = [th EXCEPT !.pc = "emptied"]
  /\ UNCHANGED <<spect, flags, rejoin, reg, fails, menuSide, world, crossed>>

HandleServerRemoval ==
  /\ At("emptied")
  /\ match' = NoMatch
  /\ spect' = "Idle"
  /\ status' = [status EXCEPT !.inBattle = FALSE]
  /\ flags' = [out |-> flags.out \/ th.gaveUp = "out", in |-> flags.in \/ th.gaveUp = "in"]
  /\ rejoin' = TRUE
  /\ crossed' = (crossed \/ WipesCall \/ (Wipes /\ (th.gaveUp = "none" \/ queue # <<>>)))
  /\ th' = IF th.op = "status" THEN GoTo(AfterPoll)
                               ELSE [th EXCEPT !.pc = "answered", !.reply = "removed"]
  /\ UNCHANGED <<queue, reg, fails, menuSide, world>>

PollThreadStarts ==
  /\ At("boot")
  /\ status' = [status EXCEPT !.poll = IF reg # 0 /\ ~stop THEN "Polling" ELSE "Joining"]
  /\ th' = IF stop THEN GoTo("done") ELSE IF reg # 0 THEN GoTo("top") ELSE Request("join", "boot")
  /\ UNCHANGED <<match, spect, flags, queue, rejoin, reg, fails, menuSide, world, crossed>>

(* The loop: take the queue, serve it, rejoin if asked to, poll, wait. *)
TakePendingActions ==
  /\ At("top")
  /\ IF stop THEN th' = GoTo("bye") /\ UNCHANGED queue
             ELSE th' = [GoTo("act") EXCEPT !.batch = queue] /\ queue' = <<>>
  /\ UNCHANGED <<match, spect, status, flags, rejoin, reg, fails, menuSide, world, crossed>>

OpOf(a) == CASE a = "Challenge" -> "challenge" [] a = "PreAccept" -> "preaccept"
             [] a = "ConfirmAccept" -> "accept" [] OTHER -> "end"

ProcessPendingAction ==
  /\ At("act") /\ th.batch # <<>> /\ ~stop
  /\ LET a == Head(th.batch).do
         rest == [th EXCEPT !.batch = Tail(@), !.of = Head(th.batch).of] IN
     IF a = "ConfirmAccept" /\ ~match.accept
     THEN th' = rest /\ UNCHANGED <<match, crossed>>
     ELSE /\ th' = [rest EXCEPT !.pc = "request", !.op = OpOf(a), !.from = "act"]
          /\ match' = IF a = "PreAccept" THEN [match EXCEPT !.accept = TRUE] ELSE match
          /\ crossed' = (crossed \/ (a = "ConfirmAccept" /\ Head(th.batch).of # starts))
  /\ UNCHANGED <<spect, status, flags, queue, rejoin, reg, fails, menuSide, world>>

BatchDone ==
  /\ At("act") /\ (th.batch = <<>> \/ stop)
  /\ th' = [GoTo(IF stop THEN "bye" ELSE "rejoin") EXCEPT !.batch = <<>>]
  /\ UNCHANGED <<shared, reg, fails, menuSide, world, crossed>>

RejoinWithoutLeave ==
  /\ At("rejoin")
  /\ rejoin' = FALSE
  /\ IF rejoin
     THEN status' = [status EXCEPT !.poll = "Joining"] /\ th' = Request("join", "rejoin")
     ELSE th' = GoTo("poll") /\ UNCHANGED status
  /\ UNCHANGED <<match, spect, flags, queue, reg, fails, menuSide, world, crossed>>

(* One identity: the old registration is left before a new one is made. *)
TryRejoinIfNeeded ==
  /\ At("rejoin")
  /\ rejoin' = FALSE
  /\ IF rejoin
     THEN /\ status' = [status EXCEPT !.poll = "Joining"]
          /\ th' = Request(IF reg # 0 THEN "leave" ELSE "join", "rejoin")
     ELSE th' = GoTo("poll") /\ UNCHANGED status
  /\ UNCHANGED <<match, spect, flags, queue, reg, fails, menuSide, world, crossed>>

PollRoom ==
  /\ At("poll")
  /\ th' = IF stop THEN GoTo("bye")
           ELSE IF status.poll = "Error" THEN GoTo("wait") ELSE Request("status", "poll")
  /\ UNCHANGED <<shared, reg, fails, menuSide, world, crossed>>

Wakes ==
  /\ At("wait") /\ th' = GoTo("top")
  /\ UNCHANGED <<shared, reg, fails, menuSide, world, crossed>>

(* The end of the thread: End when a match is open, then Leave. *)
SaysGoodbye ==
  /\ At("bye")
  /\ status' = [status EXCEPT !.poll = "Leaving"]
  /\ th' = IF reg = 0 THEN GoTo("done")
           ELSE Request(IF match.phase # "Idle" THEN "end" ELSE "leave", "bye")
  /\ UNCHANGED <<match, spect, flags, queue, rejoin, reg, fails, menuSide, world, crossed>>

(* DoJoin. *)
JoinAnswered ==
  /\ Answered("join")
  /\ IF th.reply = "ok"
     THEN /\ ClearMatchLifecycleState
          /\ reg' = srv.next - 1
          /\ fails' = 0
          /\ status' = [status EXCEPT !.poll = "Polling", !.inBattle = FALSE]
          /\ th' = GoTo(IF th.from = "boot" THEN "top" ELSE "poll")
     ELSE /\ status' = [status EXCEPT !.poll = "Error"]
          /\ th' = GoTo(IF th.from = "boot" THEN "top" ELSE "wait")
          /\ UNCHANGED <<match, spect, reg, fails, crossed>>
  /\ UNCHANGED <<flags, queue, rejoin, menuSide, world>>

LeaveUntilOk ==
  /\ Answered("leave")
  /\ th' = IF th.reply # "ok" THEN Request("leave", th.from)
           ELSE IF th.from = "bye" THEN GoTo("done") ELSE Request("join", "rejoin")
  /\ UNCHANGED <<shared, reg, fails, menuSide, world, crossed>>

LeaveAnswered ==
  /\ Answered("leave")
  /\ th' = IF th.from = "bye" THEN GoTo("done") ELSE Request("join", "rejoin")
  /\ UNCHANGED <<shared, reg, fails, menuSide, world, crossed>>

(* DoPollStatus. *)
StatusFailed ==
  /\ Answered("status") /\ th.reply \notin {"ok", "missing"}
  /\ fails' = IF th.reply = "empty" THEN fails + 1 ELSE fails
  /\ status' = [status EXCEPT !.poll =
       IF th.reply = "refused" \/ fails + 1 >= PollFailureLimit THEN "Error" ELSE "Polling"]
  /\ th' = GoTo(AfterPoll)
  /\ UNCHANGED <<match, spect, flags, queue, rejoin, crossed, reg, menuSide, world>>

(* The other player is gone from the answer while a challenge is pending.  *)
TargetLeft == /\ match.phase = "Challenging" /\ th.view = "gone"
              /\ IF match.host THEN match.target ELSE match.accept

JudgeStatus ==
  /\ Answered("status") /\ th.reply = "ok"
  /\ fails' = 0
  /\ th' = [th EXCEPT !.pc = IF TargetLeft
                             THEN (IF match.host THEN "abandonOut" ELSE "abandonIn")
                             ELSE "publish"]
  /\ UNCHANGED <<shared, reg, menuSide, world, crossed>>

AbandonOutgoing ==
  /\ At("abandonOut")
  /\ match' = [match EXCEPT !.phase = Rejected(@, TRUE)]
  /\ flags' = [flags EXCEPT !.out = TRUE]
  /\ crossed' = (crossed \/ WipesCall \/ WipesConnected)
  /\ th' = [th EXCEPT !.pc = "publishOut"]
  /\ UNCHANGED <<spect, status, queue, rejoin, reg, fails, menuSide, world>>

AbandonIncoming ==
  /\ At("abandonIn")
  /\ match' = [match EXCEPT !.phase = Rejected(@, FALSE)]
  /\ flags' = [flags EXCEPT !.in = TRUE]
  /\ crossed' = (crossed \/ WipesCall \/ WipesConnected)
  /\ th' = [th EXCEPT !.pc = "publishIn"]
  /\ UNCHANGED <<spect, status, queue, rejoin, reg, fails, menuSide, world>>

(* BuildDisplayEntries: challenges are hidden while a match is open. *)
Shown == IF IsInBattle /\ th.view = "challenge" THEN "none" ELSE th.view

PublishStatus ==
  /\ th.pc \in {"publish", "publishOut", "publishIn"}
  /\ status' = [poll |-> "Polling", inBattle |-> IsInBattle, shown |-> Shown]
  /\ match' = [match EXCEPT !.target = @ /\ ~At("publishOut"),
                            !.accept = @ /\ ~At("publishIn")]
  /\ queue' = IF At("publishOut") THEN Append(queue, Act("End")) ELSE queue
  /\ th' = GoTo(AfterPoll)
  /\ UNCHANGED <<spect, flags, rejoin, reg, fails, menuSide, world, crossed>>

(* DoChallenge and what ProcessPendingActions makes of its failure; the    *)
(* deferred accept of ConfirmAccept fails the same way, on the other flag. *)
RequestAccepted ==
  /\ th.op \in {"challenge", "preaccept", "accept"} /\ At("answered") /\ th.reply = "ok"
  /\ match' = IF th.op = "accept" THEN [match EXCEPT !.accept = FALSE] ELSE match
  /\ th' = GoTo("act")
  /\ UNCHANGED <<spect, status, flags, queue, rejoin, reg, fails, menuSide, world, crossed>>

RequestRemoved ==
  /\ th.op \in {"status", "challenge", "preaccept", "accept", "end"}
  /\ At("answered") /\ th.reply = "missing"
  /\ Removal
  /\ UNCHANGED <<shared, reg, fails, menuSide, world, crossed>>

NeverCleansUp == FALSE
CleansUp == ~rejoin                                      \* queueEnd

RequestFailedQuietly ==
  /\ At("answered") /\ th.op \in {"challenge", "accept"}
  /\ th.reply \in {"empty", "refused", "removed"}
  /\ match' = [match EXCEPT !.phase = Rejected(@, CleansUp),
                            !.accept = @ /\ th.op # "accept"]
  /\ crossed' = (crossed \/ WipesCall \/ WipesOther)
  /\ th' = [th EXCEPT !.pc = IF CleansUp THEN "failedEnd" ELSE "failed"]
  /\ UNCHANGED <<spect, status, flags, queue, rejoin, reg, fails, menuSide, world>>

RequestFailed ==
  /\ At("answered") /\ th.op \in {"challenge", "accept"}
  /\ th.reply \in {"empty", "refused", "removed"}
  /\ match' = [match EXCEPT !.phase = Rejected(@, CleansUp),
                            !.accept = @ /\ th.op # "accept"]
  /\ flags' = IF th.op = "challenge" THEN [flags EXCEPT !.out = TRUE]
                                     ELSE [flags EXCEPT !.in = TRUE]
  /\ crossed' = (crossed \/ WipesCall \/ WipesOther)
  /\ th' = [th EXCEPT !.pc = IF CleansUp THEN "failedEnd" ELSE "failed"]
  /\ UNCHANGED <<spect, status, queue, rejoin, reg, fails, menuSide, world>>

QueueCleanup ==
  /\ th.pc \in {"failed", "failedEnd"}
  /\ match' = IF th.op = "challenge" THEN [match EXCEPT !.target = FALSE] ELSE match
  /\ status' = [status EXCEPT !.inBattle = FALSE]
  /\ queue' = IF At("failedEnd") /\ ~HasPendingEnd THEN Append(queue, Act("End")) ELSE queue
  /\ th' = GoTo("act")
  /\ UNCHANGED <<spect, flags, rejoin, reg, fails, menuSide, world, crossed>>

PreAcceptFailed ==
  /\ Answered("preaccept") /\ th.reply \in {"empty", "refused", "removed"}
  /\ match' = [match EXCEPT !.phase = Rejected(@, FALSE), !.accept = FALSE]
  /\ flags' = [flags EXCEPT !.in = TRUE]
  /\ status' = [status EXCEPT !.inBattle = FALSE]
  /\ crossed' = (crossed \/ WipesCall \/ WipesOther)
  /\ th' = GoTo("act")
  /\ UNCHANGED <<spect, queue, rejoin, reg, fails, menuSide, world>>

EndClearsOnSuccess ==
  /\ Answered("end") /\ th.reply # "missing" /\ th.from = "act"
  /\ IF th.reply = "ok" THEN ClearMatchLifecycleState ELSE UNCHANGED <<match, spect, crossed>>
  /\ status' = [status EXCEPT !.inBattle = FALSE,
                              !.poll = IF th.reply = "refused" THEN "Error" ELSE @]
  /\ th' = IF th.reply # "ok" /\ reg # 0 THEN [th EXCEPT !.pc = "endFailed"]
                                         ELSE Request("status", "end")
  /\ UNCHANGED <<flags, queue, rejoin, reg, fails, menuSide, world>>

(* End: the phase is reset whatever the answer; a failed End is followed   *)
(* by a rejoin, which resets what the server shows.                        *)
EndAnswered ==
  /\ Answered("end") /\ th.reply # "missing" /\ th.from = "act"
  /\ ClearMatchLifecycleState
  /\ status' = [status EXCEPT !.inBattle = FALSE,
                              !.poll = IF th.reply = "refused" THEN "Error" ELSE @]
  /\ th' = IF th.reply # "ok" /\ reg # 0 THEN [th EXCEPT !.pc = "endFailed"]
                                         ELSE Request("status", "end")
  /\ UNCHANGED <<flags, queue, rejoin, reg, fails, menuSide, world>>

EndFailed ==
  /\ At("endFailed")
  /\ rejoin' = TRUE
  /\ status' = [status EXCEPT !.poll = "Joining"]
  /\ th' = GoTo("act")
  /\ UNCHANGED <<match, spect, flags, queue, reg, fails, menuSide, world, crossed>>

EndInsteadOfLeave ==
  /\ Answered("end") /\ th.reply # "missing" /\ th.from = "bye"
  /\ status' = [status EXCEPT !.poll = IF th.reply = "refused" THEN "Error" ELSE @]
  /\ th' = GoTo("done")
  /\ UNCHANGED <<match, spect, flags, queue, rejoin, reg, fails, menuSide, world, crossed>>

LastEndAnswered ==
  /\ Answered("end") /\ th.reply # "missing" /\ th.from = "bye"
  /\ status' = [status EXCEPT !.poll = IF th.reply = "refused" THEN "Error" ELSE @]
  /\ th' = Request("leave", "bye")
  /\ UNCHANGED <<match, spect, flags, queue, rejoin, reg, fails, menuSide, world, crossed>>

--------------------------------------------------------------------------------
(* The lobby server and the network (not in src/).  A request reaches the  *)
(* server or is lost; the answer arrives or is lost; the server may refuse.*)

Served(op) ==
  CASE op = "join"      -> [srv EXCEPT !.live[srv.next] = "idle", !.next = @ + 1]
    [] op = "challenge" -> [srv EXCEPT !.live[reg] = "challenging"]
    [] op = "accept"    -> [srv EXCEPT !.live[reg] = "playing"]
    [] op = "end"       -> [srv EXCEPT !.live[reg] = "idle"]
    [] op = "leave"     -> [srv EXCEPT !.live[reg] = "gone"]
    [] OTHER            -> srv

Known == th.op = "join" \/ Alive(reg)
Views == {"idle", "challenge", "playing", "gone"}      \* the other player, in an answer
Answer(reply) ==
  \E v \in IF th.op = "status" /\ reply = "ok" THEN Views ELSE {"none"} :
    th' = [th EXCEPT !.pc = "answered", !.reply = reply, !.view = v]
outside == <<shared, reg, fails, menuSide, crossed>>

ServerAnswers ==
  /\ At("request") /\ Known
  /\ th.op = "join" => srv.next <= MaxJoins
  /\ srv' = Served(th.op) /\ Answer("ok")
  /\ UNCHANGED <<outside, faults>>

ServerDoesNotKnow ==
  /\ At("request") /\ ~Known
  /\ Answer("missing")
  /\ UNCHANGED <<outside, world>>

AnswerLost ==
  /\ At("request") /\ Known /\ faults < MaxFaults
  /\ th.op = "join" => srv.next <= MaxJoins
  /\ srv' = [Served(th.op) EXCEPT !.lost = IF th.op = "join" THEN @ + 1 ELSE @]
  /\ Answer("empty")
  /\ faults' = faults + 1 /\ UNCHANGED outside

RequestLost ==
  /\ At("request") /\ faults < MaxFaults
  /\ \E r \in {"empty", "refused"} : Answer(r)
  /\ srv' = [srv EXCEPT !.lost = IF th.op = "leave" THEN @ + 1 ELSE @]
  /\ faults' = faults + 1 /\ UNCHANGED outside

(* The room is closed, or full. *)
JoinRefused ==
  /\ At("request") /\ th.op = "join"
  /\ Answer("refused")
  /\ UNCHANGED <<outside, world>>

ServerExpires(r) ==
  /\ Alive(r) /\ faults < MaxFaults
  /\ srv' = [srv EXCEPT !.live[r] = "gone"]
  /\ faults' = faults + 1
  /\ UNCHANGED <<shared, mine, menuSide, crossed>>

(* The other player may be seen doing anything; here it takes us up. *)
OtherAccepts ==
  /\ reg # 0 /\ srv.live[reg] = "challenging"
  /\ srv' = [srv EXCEPT !.live[reg] = "playing"]
  /\ UNCHANGED <<shared, mine, menuSide, faults, crossed>>

--------------------------------------------------------------------------------
Init ==
  /\ match = NoMatch /\ spect = "Idle"
  /\ status = [poll |-> "NotJoined", inBattle |-> FALSE, shown |-> "none"]
  /\ flags = [out |-> FALSE, in |-> FALSE]
  /\ queue = <<>> /\ rejoin = FALSE /\ stop = FALSE /\ fails = 0
  /\ reg \in {0, 1}                                    \* m_hasPrejoinedRoom
  /\ th = [pc |-> "boot", op |-> "none", from |-> "boot", reply |-> "none",
           batch |-> <<>>, view |-> "none", of |-> 0, gaveUp |-> "none"]
  /\ menu = [session |-> "none", call |-> "none"]
  /\ srv = [live |-> [r \in Regs |-> IF r = reg THEN "idle" ELSE "never"],
            next |-> reg + 1, lost |-> 0]
  /\ faults = 0 /\ starts = 0 /\ crossed = FALSE

Menu ==
  \/ SendChallenge \/ AcceptChallenge \/ NotifyMatchConnected \/ GameStarts \/ NotifyEndMatch
  \/ FlushDeferredEndOnReturn \/ RequestRefresh \/ NotifySpectateStarted
  \/ \E preserve \in BOOLEAN : NotifyEndSpectate(preserve)
  \/ ConsumeAbandoned \/ Shutdown
MenuCall == QueueChallenge \/ QueuePreAccept \/ QueueConfirmAccept \/ QueueEnd
PollThread ==
  \/ PollThreadStarts \/ TakePendingActions \/ ProcessPendingAction \/ BatchDone
  \/ TryRejoinIfNeeded \/ PollRoom \/ Wakes \/ SaysGoodbye \/ JoinAnswered \/ LeaveAnswered
  \/ StatusFailed \/ JudgeStatus \/ AbandonOutgoing \/ AbandonIncoming \/ PublishStatus
  \/ RequestAccepted \/ RequestRemoved \/ RemovalEmptiesRoom \/ HandleServerRemoval
  \/ RequestFailed \/ QueueCleanup \/ PreAcceptFailed
  \/ EndAnswered \/ EndFailed \/ LastEndAnswered
Server == ServerAnswers \/ ServerDoesNotKnow \/ AnswerLost \/ RequestLost \/ JoinRefused
Others == OtherAccepts \/ \E r \in Regs : ServerExpires(r)

Next == Menu \/ MenuCall \/ PollThread \/ Server \/ Others

(* The poll thread runs, a request ends (each has a timeout), and a call   *)
(* of the menu thread returns.  The user need not do anything.             *)
Fairness == WF_vars(PollThread) /\ WF_vars(Server) /\ WF_vars(MenuCall)
Spec == Init /\ [][Next]_vars /\ Fairness

--------------------------------------------------------------------------------
TypeOK ==
  /\ match \in [phase : MatchPhases, host : BOOLEAN, target : BOOLEAN, accept : BOOLEAN]
  /\ spect \in {"Idle", "Active", "Returning"}
  /\ status.poll \in {"NotJoined", "Joining", "Polling", "Error", "Leaving"}
  /\ Len(queue) <= 4 * MaxStarts /\ \A i \in DOMAIN queue : queue[i].do \in Actions
  /\ reg \in 0..MaxJoins /\ fails \in 0..(MaxFaults + 1) /\ th.op \in Ops
  /\ menu.session \in {"none", "host", "join", "delay", "game", "watch"}

(* The poll thread has nothing left to do for the room it is in. *)
Settled == /\ At("wait") /\ queue = <<>> /\ ~rejoin /\ ~stop /\ status.poll = "Polling"
           /\ menu.call = "none"

(* What the server shows of us has an owner: when a challenge or a match   *)
(* of ours stands in the room, the client has not forgotten it (whatever   *)
(* request or answer was lost), unless a reset erased a match begun while  *)
(* it ran.                                                                 *)
ServerMatchOwned ==
  Settled /\ Alive(reg) /\ srv.live[reg] \in Busy => match.phase # "Idle" \/ crossed

(* A session whose challenge the lobby gave up is told so: it is not left  *)
(* hosting, or joining, for nobody.                                        *)
NoForgottenSession ==
  menu.session \in {"host", "join"} /\ match.phase = "Idle" /\ menu.call = "none" /\ ~stop
    => flags.out \/ flags.in \/ crossed

(* "A player has one registration": the old one is left before a new one   *)
(* is made; a further one is the trace of a lost Leave, or of a join whose *)
(* answer was lost.                                                        *)
OneRegistration == Cardinality({r \in Regs : Alive(r)}) <= 1 + srv.lost

(* The obligation to end a match is kept: while the phase says so, an End  *)
(* is queued, being queued, or under way, or the room is joined anew, from *)
(* whichever thread the ending came.                                       *)
EndOwed ==
  match.phase \in EndPhases /\ ~At("done") =>
    \/ \E i \in DOMAIN queue : queue[i].do = "End"
    \/ menu.call = "end" \/ th.pc \in {"publishOut", "failedEnd", "emptied", "bye"}
    \/ \E i \in DOMAIN th.batch : th.batch[i].do = "End"
    \/ th.op \in {"end", "leave", "join"} \/ rejoin \/ stop

(* The session says goodbye: when the thread's loop is over, no            *)
(* registration is left, the one received by a join under way included.    *)
(* (Stopped before its first step, the thread returns without a goodbye,   *)
(* and a room joined beforehand keeps its registration.)                   *)
NothingLeftBehind ==
  At("done") /\ status.poll = "Leaving" /\ faults = 0 => \A r \in Regs : ~Alive(r)

(* Every ended match is released, whatever the server answers to its End,  *)
(* so that the user can challenge again.                                   *)
EndIsReleased == match.phase \in EndPhases ~> (match.phase \notin EndPhases \/ At("done"))

(* A stopped session does end: its goodbye does not wait on a server that  *)
(* does not answer, or no longer knows the player.                         *)
StopEnds == stop ~> At("done")

(* Client and server agree on who is in the room and in a match, whatever   *)
(* request or answer is lost.                                               *)
LobbySafe ==
  /\ TypeOK /\ ServerMatchOwned /\ NoForgottenSession /\ OneRegistration /\ EndOwed
  /\ NothingLeftBehind
================================================================================
