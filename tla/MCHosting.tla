------------------------------- MODULE MCHosting -------------------------------
(***************************************************************************)
(* Hosting, and other parts that are checked without fairness: the color   *)
(* exchange under faults, the lobby's requests and the battle log.  A      *)
(* behaviour runs one of the four; the others stay in an initial state.    *)
(* Only hosting's constants get their values in MCHosting.cfg.             *)
(***************************************************************************)
EXTENDS Hosting

CONSTANT NoValue      \* PaletteExchange: no row, no sequence number

VARIABLES
  part,
  \* PaletteExchange
  modded, enabled, round, inSelect, staged, choice, picks, ch, shown, toHelper, toGame, net,
  faults,
  \* Transport
  in, remembered, wh, kept, th,
  \* BattleLog (summary: its shown)
  file, ui, active, draft, found, summary

--------------------------------------------------------------------------------
(* Transport: what the INI, the environment and the system say. *)
Plain == [base |-> "none", proxy |-> "none", proxyDiffers |-> TRUE, envInet |-> "unset",
          iniInet |-> "unset", envTls |-> "unset", iniTls |-> "unset", os |-> "modern", tls |-> TRUE]
MCSettings ==
  {Plain, [Plain EXCEPT !.proxy = "http"], [Plain EXCEPT !.base = "bad"],
   [Plain EXCEPT !.proxy = "https", !.proxyDiffers = FALSE],
   [Plain EXCEPT !.base = "https", !.proxy = "http"],
   [Plain EXCEPT !.iniTls = "yes", !.envInet = "yes", !.proxy = "http"],
   [Plain EXCEPT !.iniTls = "yes", !.envTls = "no", !.iniInet = "yes", !.proxy = "https"],
   [Plain EXCEPT !.os = "xp", !.tls = FALSE], [Plain EXCEPT !.os = "wine", !.proxy = "http"],
   [Plain EXCEPT !.iniInet = "bad", !.os = "xp"]}

(* BattleLog: no file, a damaged one with every kind of line, a small one. *)
Set(p, q, key) == [kind |-> "set", names |-> <<p, q>>, key |-> key]
Game(c, d, x, y, s, t) ==
  [kind |-> "game", char |-> <<c, d>>, rounds |-> <<x, y>>, score |-> <<s, t>>]
Blank == [kind |-> "blank"]
Junk == [kind |-> "junk"]
MCFiles ==
  {<<>>,
   <<Game("A", "B", 2, 0, 1, 0), Set("me", "rival", 1), Game("A", "B", 2, 1, 1, 0), Junk,
     Game("A", "B", 0, 2, 1, 1), Game("B", "B", 2, 0, 2, 1), Game("A", "B", 2, 0, 3, 1), Blank,
     Game("B", "B", 2, 0, 9, 0),
     Set("rival", "me", 3), Set("rival", "other", 2), Game("A", "A", 2, 0, 1, 0)>>,
   <<Set("rival", "me", 1), Game("B", "A", 2, 1, 1, 0), Blank, Set("me", "other", 1),
     Game("B", "A", 2, 1, 1, 0), Game("B", "A", 2, 0, 2, 0)>>}

Palette == INSTANCE PaletteExchange WITH
  Rows <- {"stock", "custom"}, Stock <- "stock", None <- NoValue, Probes <- 1, RingCap <- 1,
  NetCap <- 1, SeqSpace <- 8, MaxRounds <- 2, MaxPicks <- 0, MaxFaults <- 1, Switching <- TRUE
Transport == INSTANCE Transport WITH Settings <- MCSettings, MaxRequests <- 2
BattleLog == INSTANCE BattleLog WITH
  Files <- MCFiles, Names <- {"", "rival"}, HideEmpty <- TRUE, SetRows <- 2, GameRows <- 2,
  MaxFields <- 2, MaxEdits <- 2, shown <- summary

paletteVars == <<modded, enabled, round, inSelect, staged, choice, picks, ch, shown, toHelper,
                 toGame, net, faults>>
transportVars == <<in, remembered, wh, kept, th>>
logVars == <<file, ui, active, draft, found, summary>>
allVars == <<part, vars, paletteVars, transportVars, logVars>>

Host(A) ==
  part = "hosting" /\ A /\ UNCHANGED <<part, paletteVars, transportVars, logVars>>
Colors(A) ==
  part = "palette" /\ A /\ UNCHANGED <<part, vars, transportVars, logVars>>
Request(A) ==
  part = "transport" /\ A /\ UNCHANGED <<part, vars, paletteVars, logVars>>
Log(A) ==
  part = "battlelog" /\ A /\ UNCHANGED <<part, vars, paletteVars, transportVars>>

PartsInit ==
  /\ part \in {"hosting", "palette", "transport", "battlelog"}
  /\ Init /\ Palette!Init /\ Transport!Init /\ BattleLog!Init
  /\ part # "palette" => modded = [p \in Palette!Peers |-> TRUE]
  /\ part # "transport" => in = Plain
PartsNext ==
  \/ Host(Next) \/ Colors(Palette!Next)
  \/ Request(Transport!Next) \/ Log(BattleLog!Next)
PartsSpec == PartsInit /\ [][PartsNext]_allVars

--------------------------------------------------------------------------------
(* The colors received are of this character select, and a peer without the *)
(* mod is left alone (PaletteExchange).                                     *)
ColorsSafe == part = "palette" => Palette!ColorsSafe

(* A request to the lobby gets its own answer, by permitted ways only       *)
(* (Transport).                                                             *)
TransportSafe == part = "transport" => Transport!TransportSafe

(* The battle log's rows, page, cursor and summary are of the log as last   *)
(* read under the filter in force (BattleLog).                              *)
BattleLogSafe == part = "battlelog" => BattleLog!BattleLogSafe
================================================================================
