--------------------------------- MODULE Rooms ---------------------------------
(***************************************************************************)
(* The Player Rooms screen, the lobby screen and the session behind them.  *)
(*                                                                         *)
(* The screens run on the UI thread; a room list request, a join or create *)
(* request and the closing of a room's session each run on a thread of     *)
(* their own.  A request is tagged with a generation, so that what it      *)
(* brings is dropped when the user has left meanwhile; its phase is        *)
(* Running until a result is published and Idle once that was taken.       *)
(***************************************************************************)
EXTENDS Integers, FiniteSetsExt

CONSTANTS
  MaxRooms,     \* public rooms a list may hold
  Slots         \* kVisiblePublicRoomSlots

ASSUME RoomsAssumption == MaxRooms \in Nat /\ Slots \in Nat \ {0}

VARIABLES
  ui,       \* the UI thread: menu, view, list, session, shutdown, return refresh
  rq,       \* g_refreshRequest: phase, current generation, found, early (for
            \* the properties: begun while a session was being closed)
  act,      \* g_roomActionRequest: phase
  rw, aw    \* the threads serving them

roomsVars == <<ui, rq, act, rw, aw>>

Results == {"Succeeded", "Failed"}
Phases == {"Idle", "Running"} \cup Results
All == [ui |-> ui, rq |-> rq, act |-> act, rw |-> rw, aw |-> aw]
Becomes(s) == ui' = s.ui /\ rq' = s.rq /\ act' = s.act /\ rw' = s.rw /\ aw' = s.aw

--------------------------------------------------------------------------------
(* The list on screen. *)

MaxListScroll(n) == Max({0, n - Slots})
Visible(s) == IF s.ui.rooms = 0 THEN 1 ELSE Min({s.ui.rooms - s.ui.scroll, Slots})
RebuildMenuEntries(s) == [s EXCEPT !.ui.slots = IF s.ui.view = "Join" THEN Visible(s) ELSE 0]
SwitchView(s, v) == RebuildMenuEntries([s EXCEPT !.ui.view = v])

(* A request that has a result is, once that was dropped, Running again:   *)
(* the phase says "in flight" until Reset.                                 *)
DiscardResult(p) == IF p \in Results THEN "Running" ELSE p
InvalidateNothing(s) == s
InvalidateRefreshResults(s) ==
  [s EXCEPT !.rq.current = FALSE, !.rq.phase = DiscardResult(@), !.rq.found = 0]
InvalidateRoomActionResults(s) == [s EXCEPT !.act = DiscardResult(@)]

(* LaunchRoomWorker: `ok` says whether the thread could be made. *)
Launch(s, ok) ==
  IF ok THEN [s EXCEPT !.rq.phase = "Running", !.rq.current = TRUE,
                       !.rq.early = (s.ui.shut = "Running"), !.rw = TRUE]
        ELSE [s EXCEPT !.rq.phase = "Idle"]

KeepScroll(s) == s.ui.scroll
ScrollAfter(s) ==
  IF s.rq.phase = "Succeeded" THEN Min({s.ui.scroll, MaxListScroll(s.rq.found)})
  ELSE IF s.ui.rooms = 0 THEN 0 ELSE s.ui.scroll

PumpDropsStale(s, ok) ==
  IF s.rq.phase \notin Results THEN s
  ELSE RebuildMenuEntries([s EXCEPT !.rq.phase = "Idle", !.rq.found = 0])

(* PumpRefreshResult; a stale result is dropped, and a refresh that was    *)
(* waiting for the request to end is begun.                                *)
PumpRefreshResult(s, ok) ==
  IF s.rq.phase \notin Results THEN s ELSE
  LET taken == [s EXCEPT !.rq.phase = "Idle", !.rq.found = 0]
      shown == IF ~s.rq.current THEN taken
               ELSE RebuildMenuEntries([taken EXCEPT
                      !.ui.scroll = ScrollAfter(s),
                      !.ui.rooms = IF s.rq.phase = "Succeeded" THEN s.rq.found ELSE @])
  IN IF s.ui.ret = "RefreshPending" THEN Launch([shown EXCEPT !.ui.ret = "Idle"], ok) ELSE shown

StartAsyncRefresh(s, ok) ==
  LET t == PumpRefreshResult(s, ok) IN IF t.rq.phase # "Idle" THEN t ELSE Launch(t, ok)

(* StartAsyncJoinRoom and StartAsyncCreateRoom. *)
StartRoomAction(s, ok) ==
  LET t == PumpRefreshResult(s, ok) IN
  IF t.act # "Idle" THEN t ELSE IF ok THEN [t EXCEPT !.act = "Running", !.aw = TRUE] ELSE t

EnterRooms(s, ok) ==
  LET t == PumpRefreshResult(s, ok) IN
  RebuildMenuEntries(IF t.ui.ret = "WaitingForShutdown" THEN t ELSE StartAsyncRefresh(t, ok))

(* LeaveMenu; the list worker may publish after the pump: `late`. *)
LeaveRooms(s, ok, late) ==
  LET t == IF late THEN s ELSE PumpRefreshResult(s, ok) IN
  SwitchView(InvalidateRoomActionResults(InvalidateRefreshResults(t)), "Root")

--------------------------------------------------------------------------------
(* Closing a session. *)

NotifyLobbySessionShutdownStarted(s) ==
  InvalidateRefreshResults([s EXCEPT !.ui.ret = "WaitingForShutdown"])

NotifyLobbySessionShutdownCompleted(s, ok) ==
  IF s.ui.ret = "Idle" THEN s
  ELSE IF s.rq.phase # "Idle" THEN [s EXCEPT !.ui.ret = "RefreshPending"]
  ELSE StartAsyncRefresh([s EXCEPT !.ui.ret = "Idle"], ok)

PumpLobbySessionShutdown(s, ok) ==
  IF s.ui.shut # "Completed" THEN s
  ELSE LET t == [s EXCEPT !.ui.shut = "Idle", !.ui.toRooms = FALSE] IN
       IF s.ui.toRooms THEN NotifyLobbySessionShutdownCompleted(t, ok) ELSE t

BeginLobbySessionShutdown(s, toRooms, ok) ==
  LET t == PumpLobbySessionShutdown(s, ok)
      closing == [t EXCEPT !.ui.bg = FALSE, !.ui.shut = "Running", !.ui.toRooms = toRooms,
                           !.ui.session = "none"]
  IN IF t.ui.session = "none" THEN t
     ELSE IF toRooms THEN NotifyLobbySessionShutdownStarted(closing) ELSE closing

--------------------------------------------------------------------------------
(* SwitchToMenu. *)

ClosesSessionToMainOnly(s, m) ==
  s.ui.menu = "Lobby" /\ m = "Main" /\ s.ui.session # "none" /\ ~s.ui.bg
ClosesSession(s, m) ==
  s.ui.menu = "Lobby" /\ m # "Lobby" /\ s.ui.session # "none" /\ ~s.ui.bg

SwitchToMenu(s, m, ok, late) ==
  LET pumped == PumpLobbySessionShutdown(s, ok)
      left == IF pumped.ui.menu = "PlayerRooms" /\ m \notin {"PlayerRooms", "Lobby"}
              THEN LeaveRooms(pumped, ok, late) ELSE pumped
      closed == IF ClosesSession(left, m)
                THEN BeginLobbySessionShutdown(
                       left, m = "PlayerRooms" /\ left.ui.session = "room", ok)
                ELSE left
      there == [closed EXCEPT !.ui.menu = m, !.ui.bg = @ /\ m # "Lobby"]
  IN CASE m = "PlayerRooms" -> EnterRooms(there, ok)
       [] m = "Lobby" /\ there.ui.session = "none" ->
            [there EXCEPT !.ui.session = IF there.ui.pending THEN "room" ELSE "global",
                          !.ui.pending = FALSE]
       [] OTHER -> there

PumpRoomActionForgets(s, ok) ==
  LET t == [s EXCEPT !.act = "Idle"] IN
  IF s.act = "Succeeded" THEN SwitchToMenu(t, "Lobby", ok, FALSE) ELSE t

(* PumpRoomActionResult: a joined room is entered at once. *)
PumpRoomActionResult(s, ok) ==
  LET t == [s EXCEPT !.act = "Idle"] IN
  IF s.act = "Succeeded" THEN SwitchToMenu([t EXCEPT !.ui.pending = TRUE], "Lobby", ok, FALSE)
                         ELSE t

--------------------------------------------------------------------------------
(* The UI thread.  Every frame of the menu begins with the pump of the     *)
(* closing session; on the rooms screen with the pumps of both requests.   *)

InMenu == ui.menu \in {"Main", "PlayerRooms", "Lobby"}
Frame(ok) == PumpLobbySessionShutdown(All, ok)

(* HandleInput, without input. *)
RoomsFrame(ok) ==
  /\ ui.menu = "PlayerRooms"
  /\ LET s == PumpRefreshResult(Frame(ok), ok) IN
     Becomes(IF s.act \in Results THEN PumpRoomActionResult(s, ok) ELSE s)

OtherFrame(ok) ==
  /\ ui.menu \in {"Main", "Lobby"}
  /\ Becomes(Frame(ok))

Scroll(d) ==
  /\ ui.menu = "PlayerRooms" /\ ui.view = "Join"
  /\ ui.scroll + d \in 0..MaxListScroll(ui.rooms)
  /\ Becomes(RebuildMenuEntries([All EXCEPT !.ui.scroll = @ + d]))

(* ExecuteAction: what changes the rooms waits for a room being left, and  *)
(* everything waits for a join under way.                                  *)
MayExecute(s) == s.act = "Idle"
MayChange(s) == MayExecute(s) /\ s.ui.ret # "WaitingForShutdown"

AtRooms(ok) == PumpRefreshResult(Frame(ok), ok)

OpenView(ok, v) ==
  /\ ui.menu = "PlayerRooms" /\ MayChange(AtRooms(ok))
  /\ Becomes(SwitchView(AtRooms(ok), v))
RefreshList(ok) ==
  /\ ui.menu = "PlayerRooms" /\ MayChange(AtRooms(ok))
  /\ Becomes(StartAsyncRefresh(AtRooms(ok), ok))
CreateRoom(ok) ==
  /\ ui.menu = "PlayerRooms" /\ ui.view = "Create" /\ MayChange(AtRooms(ok))
  /\ Becomes(StartRoomAction(AtRooms(ok), ok))
JoinRoom(ok, i) ==
  /\ ui.menu = "PlayerRooms" /\ ui.view = "Join" /\ i \in 0..(ui.slots - 1)
  /\ MayChange(AtRooms(ok))
  /\ LET s == AtRooms(ok) IN
     Becomes(IF s.ui.scroll + i < s.ui.rooms THEN StartRoomAction(s, ok) ELSE s)
BackFromRooms(ok, late) ==
  /\ ui.menu = "PlayerRooms" /\ MayExecute(AtRooms(ok))
  /\ LET s == AtRooms(ok) IN
     Becomes(IF s.ui.view = "Root" THEN SwitchToMenu(s, "Main", ok, late)
             ELSE SwitchView(s, "Root"))

(* The main menu: OpenLobby and OpenPlayerRooms, from the entry or from a  *)
(* pending action once the room was left.                                  *)
Home(s) == IF s.ui.session = "room" THEN "PlayerRooms" ELSE "Lobby"
CanOpenAlways(s) == TRUE
CanOpen(s) == s.ui.shut = "Idle"
OpenScreen(s, m, ok) ==
  SwitchToMenu(s, IF s.ui.session # "none" THEN "Lobby" ELSE m, ok, FALSE)

Open(ok, m) ==
  /\ ui.menu = "Main" /\ m \in {"Lobby", "PlayerRooms"}
  /\ LET s == Frame(ok) IN
     /\ s.ui.session = "none" \/ m = Home(s)
     /\ CanOpen(s)
     /\ Becomes(OpenScreen(s, m, ok))

(* RequestStopHostingConfirm, answered with yes: another room, or none.    *)
LeaveRoomFor(ok, m) ==
  /\ ui.menu = "Main" /\ ui.session # "none" /\ m # Home(All)
  /\ LET s == Frame(ok) IN
     Becomes([BeginLobbySessionShutdown(s, FALSE, ok) EXCEPT !.ui.leave = m])

PendingRoomLeave(ok) ==
  /\ InMenu /\ ui.leave # "none"
  /\ LET s == Frame(ok)
         t == [s EXCEPT !.ui.leave = "none"] IN
     /\ s.ui.shut = "Idle"
     /\ Becomes(IF s.ui.menu = "Main" THEN OpenScreen(t, ui.leave, ok) ELSE t)

BackFromLobby(ok) ==
  /\ ui.menu = "Lobby"
  /\ LET s == Frame(ok) IN
     Becomes(SwitchToMenu(s, IF s.ui.session = "room" THEN "PlayerRooms" ELSE "Main", ok, FALSE))

(* The room stays open while the user is elsewhere. *)
BackgroundLobby(ok) ==
  /\ ui.menu = "Lobby" /\ ui.session # "none"
  /\ Becomes(SwitchToMenu([Frame(ok) EXCEPT !.ui.bg = TRUE], "Main", ok, FALSE))

(* `keepHost`: a hosting session keeps what it runs in, as does a room in  *)
(* the background.                                                         *)
LeaveNetplayMenu(ok, keepHost) ==
  /\ ui.menu = "Main"
  /\ LET s == Frame(ok)
         t == IF keepHost \/ s.ui.bg THEN s ELSE BeginLobbySessionShutdown(s, FALSE, ok) IN
     Becomes([t EXCEPT !.ui.menu = "Title"])

EnterNetplayMenu(ok) ==
  /\ ui.menu \in {"Title", "Match"}
  /\ LET m == IF ui.session # "none" THEN "Lobby" ELSE "Main" IN
     Becomes(SwitchToMenu([All EXCEPT !.ui.menu = m], m, ok, FALSE))

(* HandoffConnectedSessionToVsHumanState, and the way back above. *)
MatchStarts ==
  /\ ui.menu = "Lobby" /\ ui.session # "none"
  /\ Becomes([All EXCEPT !.ui.menu = "Match"])

(* The process exit waits for a session being closed, and closes its own.  *)
ProcessExit(ok) ==
  /\ ui.menu # "Exit" /\ ui.shut # "Running"
  /\ LET s == PumpLobbySessionShutdown(All, ok) IN
     Becomes([s EXCEPT !.ui.menu = "Exit", !.ui.session = "none"])

--------------------------------------------------------------------------------
(* The threads. *)

RefreshWorker ==
  /\ rw /\ rw' = FALSE
  /\ \E p \in Results, n \in 0..MaxRooms :
       rq' = [rq EXCEPT !.phase = p, !.found = IF p = "Succeeded" THEN n ELSE 0]
  /\ UNCHANGED <<ui, act, aw>>

RoomActionWorker ==
  /\ aw /\ aw' = FALSE
  /\ act' \in Results
  /\ UNCHANGED <<ui, rq, rw>>

ShutdownThread ==
  /\ ui.shut = "Running"
  /\ ui' = [ui EXCEPT !.shut = "Completed"]
  /\ UNCHANGED <<rq, act, rw, aw>>

--------------------------------------------------------------------------------
RoomsInit ==
  /\ ui = [menu |-> "Title", view |-> "Root", rooms |-> 0, scroll |-> 0, slots |-> 0,
           session |-> "none", bg |-> FALSE, pending |-> FALSE,
           shut |-> "Idle", toRooms |-> FALSE, ret |-> "Idle", leave |-> "none"]
  /\ rq = [phase |-> "Idle", current |-> TRUE, early |-> FALSE, found |-> 0]
  /\ act = "Idle" /\ rw = FALSE /\ aw = FALSE

Frames == \E ok \in BOOLEAN : RoomsFrame(ok) \/ OtherFrame(ok) \/ PendingRoomLeave(ok)
Screens == {"Lobby", "PlayerRooms"}
User ==
  \/ \E d \in {-1, 1} : Scroll(d)
  \/ MatchStarts
  \/ \E ok \in BOOLEAN :
       \/ \E v \in {"Join", "Create"} : OpenView(ok, v)
       \/ RefreshList(ok) \/ CreateRoom(ok) \/ BackFromLobby(ok) \/ BackgroundLobby(ok)
       \/ EnterNetplayMenu(ok) \/ ProcessExit(ok)
       \/ \E keepHost \in BOOLEAN : LeaveNetplayMenu(ok, keepHost)
       \/ \E i \in 0..(Slots - 1) : JoinRoom(ok, i)
       \/ \E late \in BOOLEAN : BackFromRooms(ok, late)
       \/ \E m \in Screens : Open(ok, m)
       \/ \E m \in Screens \cup {"Host"} : LeaveRoomFor(ok, m)
Workers == RefreshWorker \/ RoomActionWorker \/ ShutdownThread
RoomsNext == User \/ Frames \/ Workers

(* Frames go on while the menu is open and the game's window has the       *)
(* focus; every request has a timeout.                                     *)
RoomsFairness == /\ WF_roomsVars(Frames) /\ WF_roomsVars(RefreshWorker)
                 /\ WF_roomsVars(RoomActionWorker) /\ WF_roomsVars(ShutdownThread)
RoomsSpec == RoomsInit /\ [][RoomsNext]_roomsVars /\ RoomsFairness

--------------------------------------------------------------------------------
RoomsTypeOK ==
  /\ rq.phase \in Phases /\ act \in Phases /\ rq.found \in 0..MaxRooms
  /\ ui.scroll \in 0..MaxListScroll(ui.rooms) /\ ui.slots \in 0..Slots
  /\ ui.ret \in {"Idle", "WaitingForShutdown", "RefreshPending"}
  /\ ui.shut \in {"Idle", "Running", "Completed"}
  /\ aw => act = "Running"

(* One presence at a time: a room is entered only after the previous one   *)
(* has been left, the server having been told.                             *)
OneSession == ui.session # "none" => ui.shut # "Running"

(* No room without a screen: the user is in a room only while its screen   *)
(* or a match of it is shown, or it is kept in the background knowingly.   *)
NoHiddenRoom == ui.session # "none" => ui.menu \in {"Lobby", "Match"} \/ ui.bg

(* A slot on the screen stands for a room of the list. *)
SlotsExist == ui.view = "Join" /\ ui.rooms > 0 => ui.slots >= 1 /\ ui.scroll + ui.slots <= ui.rooms

(* Until a room that was left for Player Rooms is closed and the list is   *)
(* requested anew, nothing on its way is shown: it may count the user      *)
(* there.  And no list is requested while a session is being closed.       *)
(* (A room left through the stop-hosting answer drops no request: a list   *)
(* from before it may show until the next one comes.)                      *)
NoListOfLeftRoom == (ui.ret # "Idle" => ~rq.current) /\ ~rq.early

(* The phase says "in flight" and no thread is there to end it. *)
Stuck == rq.phase = "Running" /\ ~rw

(* Back from a room, the list is requested anew, once the room is left and *)
(* whatever request was under way has ended (unless the request is stuck). *)
ReturnRefreshes ==
  ui.menu = "PlayerRooms" /\ ui.ret # "Idle"
    ~> ui.ret = "Idle" \/ ui.menu # "PlayerRooms" \/ Stuck

(* A room that was joined is entered. *)
JoinedIsEntered == act = "Succeeded" ~> (act # "Succeeded" /\ ui.session = "room") \/ ui.menu = "Exit"

(* The user is in one room at most, sees it, and is not shown a list from   *)
(* before it was left for the rooms screen.                                 *)
RoomsSafe == RoomsTypeOK /\ OneSession /\ NoHiddenRoom /\ SlotsExist /\ NoListOfLeftRoom
================================================================================
