-------------------------------- MODULE MCMenus --------------------------------
(***************************************************************************)
(* What goes on while the players are in the menus, and has to come to an  *)
(* end: the exchange of colors (PaletteExchange), the rooms (Rooms), the   *)
(* attachment to the overlay's block (OverlayAttach) and the override of   *)
(* the options screen's Protocol row (HostProtocol).  A behaviour runs one *)
(* of the four; the others stay in an initial state.                       *)
(* The constants of the three that are extended get their values in        *)
(* MCMenus.cfg.                                                            *)
(***************************************************************************)
EXTENDS OverlayAttach, Rooms, HostProtocol

CONSTANT NoValue      \* PaletteExchange: no row, no sequence number

VARIABLES
  part,
  \* PaletteExchange
  modded, enabled, round, inSelect, staged, choice, picks, ch, shown, toHelper, toGame, net,
  faults

--------------------------------------------------------------------------------
Palette == INSTANCE PaletteExchange WITH
  Rows <- {"stock", "custom"}, Stock <- "stock", None <- NoValue, Probes <- 1, RingCap <- 6,
  NetCap <- 2, SeqSpace <- 8, MaxRounds <- 1, MaxPicks <- 1, MaxFaults <- 0, Switching <- FALSE

paletteVars == <<modded, enabled, round, inSelect, staged, choice, picks, ch, shown, toHelper,
                 toGame, net, faults>>
allVars == <<part, vars, roomsVars, protocolVars, paletteVars>>

Attaches(A) == part = "attach" /\ A /\ UNCHANGED <<part, roomsVars, protocolVars, paletteVars>>
InRooms(A) == part = "rooms" /\ A /\ UNCHANGED <<part, vars, protocolVars, paletteVars>>
Overrides(A) == part = "override" /\ A /\ UNCHANGED <<part, vars, roomsVars, paletteVars>>
Colors(A) == part = "palette" /\ A /\ UNCHANGED <<part, vars, roomsVars, protocolVars>>

PartsInit ==
  /\ part \in {"palette", "rooms", "attach", "override"}
  /\ Init /\ RoomsInit /\ ProtocolInit /\ Palette!Init
  /\ part # "override" => ini = Absent
  /\ part # "palette" => modded = [p \in Palette!Peers |-> TRUE]
PartsNext ==
  Attaches(Next) \/ InRooms(RoomsNext) \/ Overrides(ProtocolNext) \/ Colors(Palette!Next)

(* The fairness of the four, each over its own variables. *)
PartsSpec ==
  /\ PartsInit /\ [][PartsNext]_allVars
  /\ \A p \in Palette!Peers :
       /\ WF_paletteVars(part = "palette" /\ Palette!Poll(p))
       /\ WF_paletteVars(part = "palette" /\ Palette!EndFrame(p, TRUE))
       /\ WF_paletteVars(part = "palette" /\ Palette!EndFrameDisabled(p))
       /\ WF_paletteVars(part = "palette" /\ Palette!Flush(p))
       /\ WF_paletteVars(part = "palette" /\ Palette!Deliver(p))
  /\ WF_roomsVars(part = "rooms" /\ Frames)
  /\ WF_roomsVars(part = "rooms" /\ RefreshWorker)
  /\ WF_roomsVars(part = "rooms" /\ RoomActionWorker)
  /\ WF_roomsVars(part = "rooms" /\ ShutdownThread)
  /\ \A p \in Processes : WF_vars(part = "attach" /\ pc[p] \in Attaching /\ Attach(p))
  /\ WF_protocolVars(part = "override" /\ FileStep)
  /\ SF_protocolVars(part = "override" /\ TickRestores)
  /\ WF_protocolVars(part = "override" /\ (PrepareFailed \/ WriteIni \/ LaunchHelper))

--------------------------------------------------------------------------------
(* Players who stay in the character select see each other's current row    *)
(* (PaletteExchange).                                                       *)
RowsShown == Palette!RowsShown

(* What was asked for comes: back from a room the list is requested anew     *)
(* (Rooms, ReturnRefreshes), the game's attachment returns (OverlayAttach,   *)
(* AttachEnds), the override of a session that has ended is taken back       *)
(* (HostProtocol, OverrideEnds), each unless the player turns to something   *)
(* else.                                                                     *)
RequestsEnd ==
  (\/ part = "rooms" /\ ui.menu = "PlayerRooms" /\ ui.ret # "Idle"
   \/ part = "attach" /\ pc["game"] \in Attaching
   \/ part = "override" /\ Unneeded)
  ~> (\/ part = "rooms" /\ (ui.ret = "Idle" \/ ui.menu # "PlayerRooms" \/ Stuck)
      \/ part = "attach" /\ pc["game"] \notin Attaching
      \/ part = "override" /\ (~Active \/ start \notin {"ended", "running"}))

(* What was accepted is reached: a joined room is entered (Rooms,            *)
(* JoinedIsEntered), the helper's attachment returns.                        *)
AcceptancesEnd ==
  (\/ part = "rooms" /\ act = "Succeeded"
   \/ part = "attach" /\ pc["helper"] \in Attaching)
  ~> (\/ part = "rooms" /\ (act # "Succeeded" /\ ui.session = "room")
      \/ part = "rooms" /\ ui.menu = "Exit"
      \/ part = "attach" /\ pc["helper"] \notin Attaching)

(* Both: rooms, block and override leave no request and no acceptance open.  *)
MenusLive == RequestsEnd /\ AcceptancesEnd
================================================================================
