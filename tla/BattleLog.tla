------------------------------- MODULE BattleLog -------------------------------
(***************************************************************************)
(* The battle log screens: the log file Revival keeps, parsed into sets    *)
(* and their games; the filter; the browser of the matching sets, newest   *)
(* first; a set's games; and the summary box.                              *)
(*                                                                         *)
(* The screens run on the game's thread, one input at a time.  A view has  *)
(* a list and a pane of actions; the cursor's place among the actions and  *)
(* among the filter's fields decides nothing but which of them is next, so *)
(* it is not kept: any of them may be.  Of the statistics the counts are    *)
(* kept, and not the durations, the rates and the favourite characters.    *)
(***************************************************************************)
EXTENDS Integers, SequencesExt, FiniteSetsExt

CONSTANTS
  Files,        \* what the log file may hold when it is read
  Names,        \* what the user may type as a player's name
  HideEmpty,    \* the setting HideEmptySetsInBattleLogByDefault
  SetRows,      \* kBattleLogVisibleSessionRows
  GameRows,     \* kBattleLogVisibleGameRows
  MaxFields,    \* bound: fields of a draft that are not at their default
  MaxEdits      \* bound: fields of a draft that differ from the filter in force

VARIABLES
  file,     \* document.sourcePath's lines when they were last read
  ui,       \* view, filterReturnView, summaryMode, panes and rows, pages, edit
  active,   \* activeFilter
  draft,    \* draftFilter
  found,    \* filteredSessionIndices
  shown     \* summary

vars == <<file, ui, active, draft, found, shown>>

Me == "me"                                   \* currentNickname
Lists == {"Browser", "Filters", "SetDetail"} \* views with a list and actions

--------------------------------------------------------------------------------
(* The file.  A line is a set's header, a game's row, blank or neither.    *)

TakeLine(acc, line) ==
  CASE line.kind = "blank" -> [acc EXCEPT !.open = FALSE]
    [] line.kind = "set" ->
         [sets |-> Append(acc.sets, [names |-> line.names, key |-> line.key, games |-> <<>>]),
          open |-> TRUE]
    [] line.kind = "game" /\ acc.open ->
         [acc EXCEPT !.sets[Len(acc.sets)].games =
            Append(@, [char |-> line.char, rounds |-> line.rounds, score |-> line.score])]
    [] OTHER -> acc
IgnoreBlank(acc, line) == IF line.kind = "blank" THEN acc ELSE TakeLine(acc, line)
ParseLine(acc, line) == TakeLine(acc, line)
ParseBattleLogDocument(f) == FoldLeft(ParseLine, [sets |-> <<>>, open |-> FALSE], f).sets
Document == [f \in Files |-> ParseBattleLogDocument(f)]

CharacterOptions(sets) ==
  {"All", "Unknown"} \cup UNION {{g.char[side] : side \in 1..2} :
                                   g \in UNION {ToSet(sets[k].games) : k \in DOMAIN sets}}

--------------------------------------------------------------------------------
(* The filter.  A name or a character is looked for on either side, but    *)
(* all of them on the same one.                                            *)

AnyFilter ==
  [player |-> "", opponent |-> "", playerChar |-> "All", opponentChar |-> "All",
   status |-> IF HideEmpty THEN "Played" ELSE "Any", games |-> "Any", switches |-> "Any"]
Mine == [AnyFilter EXCEPT !.player = Me]

MatchSetStatus(set, flt) ==
  CASE flt.status = "Played" -> set.games # <<>>
    [] flt.status = "Empty" -> set.games = <<>>
    [] OTHER -> TRUE
MatchGameCount(set, flt) ==
  LET n == Len(set.games)
  IN CASE flt.games = "One" -> n = 1
       [] flt.games = "TwoToThree" -> n \in 2..3
       [] flt.games = "FourPlus" -> n >= 4
       [] OTHER -> TRUE
Switched(set, side) == Cardinality({set.games[k].char[side] : k \in DOMAIN set.games}) > 1
MatchCharacterSwitches(set, flt) ==
  CASE flt.switches = "Stable" -> \A side \in 1..2 : ~Switched(set, side)
    [] flt.switches = "Swapped" -> \E side \in 1..2 : Switched(set, side)
    [] OTHER -> TRUE
MatchOrientationNames(set, flt, side) ==
  flt.player \in {"", set.names[side]} /\ flt.opponent \in {"", set.names[3 - side]}
FirstPlayersCharacter(game, flt, side) == flt.playerChar \in {"All", game.char[1]}
MatchOrientationCharacters(game, flt, side) ==
  flt.playerChar \in {"All", game.char[side]} /\ flt.opponentChar \in {"All", game.char[3 - side]}
NoCharacter(flt) == flt.playerChar = "All" /\ flt.opponentChar = "All"
SessionMatchesFilter(set, flt) ==
  /\ MatchSetStatus(set, flt) /\ MatchGameCount(set, flt) /\ MatchCharacterSwitches(set, flt)
  /\ \/ flt.player = "" /\ flt.opponent = "" /\ NoCharacter(flt)
     \/ \E side \in 1..2 :
          /\ MatchOrientationNames(set, flt, side)
          /\ NoCharacter(flt) \/ \E k \in DOMAIN set.games :
                                   MatchOrientationCharacters(set.games[k], flt, side)

AsIs(flt, sets) == flt
Sanitized(flt, sets) ==
  LET Known(c) == IF c \in CharacterOptions(sets) THEN c ELSE "All"
  IN [flt EXCEPT !.playerChar = Known(@), !.opponentChar = Known(@)]

(* Newest first; sets of one time stay in the file's order. *)
Newer(sets, i, j) == sets[i].key > sets[j].key \/ (sets[i].key = sets[j].key /\ i < j)
FilteredSessionIndices(sets, flt) ==
  SetToSortSeq({k \in DOMAIN sets : SessionMatchesFilter(sets[k], flt)},
               LAMBDA i, j : Newer(sets, i, j))

--------------------------------------------------------------------------------
(* The summary box. *)

NoSummary == [sets |-> 0, empty |-> 0, games |-> 0, gameWins |-> 0, gameLosses |-> 0,
              setWins |-> 0, setLosses |-> 0, recent |-> 0, opponent |-> "", latest |-> 0]
AccumulatePerspective(sum, set, side) ==
  IF set.games = <<>> THEN [sum EXCEPT !.sets = @ + 1, !.empty = @ + 1]
  ELSE LET them == 3 - side
           final == Last(set.games).score
           Won(a, b) == Cardinality({k \in DOMAIN set.games :
                                       set.games[k].rounds[a] > set.games[k].rounds[b]})
       IN [sum EXCEPT !.sets = @ + 1,
             !.games = @ + Len(set.games),
             !.gameWins = @ + Won(side, them), !.gameLosses = @ + Won(them, side),
             !.setWins = @ + (IF final[side] > final[them] THEN 1 ELSE 0),
             !.setLosses = @ + (IF final[side] < final[them] THEN 1 ELSE 0)]
AccumulateAggregate(sum, set) ==
  [sum EXCEPT !.sets = @ + 1, !.empty = @ + (IF set.games = <<>> THEN 1 ELSE 0),
              !.games = @ + Len(set.games)]

(* `focus` is the player whose sets are summed from that player's side;    *)
(* a set without that player counts for no side.                           *)
Summed(sets, focus, sum, k) ==
  LET set == sets[k]
      sides == {side \in 1..2 : focus # "" /\ set.names[side] = focus}
      dated == IF set.key < sum.latest THEN sum
               ELSE [sum EXCEPT !.latest = set.key, !.recent = k,
                       !.opponent = IF sides = {} THEN "both" ELSE set.names[3 - Min(sides)]]
  IN IF sides = {} THEN AccumulateAggregate(dated, set)
     ELSE AccumulatePerspective(dated, set, Min(sides))
SummaryOver(sets, indices, focus) ==
  FoldLeft(LAMBDA sum, k : Summed(sets, focus, sum, k), NoSummary, indices)

OwnSets(sets) == SelectSeq([k \in DOMAIN sets |-> k],
                           LAMBDA k : Me \in {sets[k].names[1], sets[k].names[2]})
SummaryFor(mode, sets, indices, flt) ==
  CASE mode = "Profile" -> SummaryOver(sets, OwnSets(sets), Me)
    [] mode = "FullLog" -> SummaryOver(sets, [k \in DOMAIN sets |-> k], "")
    [] mode = "Search" ->
         SummaryOver(sets, indices, IF flt.player # "" THEN flt.player ELSE flt.opponent)

--------------------------------------------------------------------------------
(* The screens: a state is handed from one helper to the next. *)

All == [file |-> file, ui |-> ui, active |-> active, draft |-> draft, found |-> found,
        shown |-> shown]
Becomes(s) ==
  /\ file' = s.file /\ ui' = s.ui /\ active' = s.active /\ draft' = s.draft
  /\ found' = s.found /\ shown' = s.shown
Sets(s) == Document[s.file]
Games(s) == IF s.ui.opened \in DOMAIN Sets(s) THEN Len(Sets(s)[s.ui.opened].games) ELSE 0

Pages(n, rows) == IF n <= 0 THEN 1 ELSE (n + rows - 1) \div rows
BrowserPageCount(s) == Pages(Len(s.found), SetRows)
DetailPageCount(s) == Pages(Games(s), GameRows)
Rows(n, page, rows) == Max({1, Min({n - page * rows, rows})})
SelectableCount(s, v) ==
  IF v = "Browser" THEN Rows(Len(s.found), s.ui.page, SetRows)
  ELSE Rows(Games(s), s.ui.gamePage, GameRows)

(* SetSelection on a row of the view's list, on the list's remembered row  *)
(* (-1), or on its actions.                                                *)
Unclamped(s, v, row) == row
ClampSelection(s, v, row) == Max({0, Min({row, SelectableCount(s, v) - 1})})
SelectRow(s, row) ==
  LET v == s.ui.view
      there == [s EXCEPT !.ui.pane = [@ EXCEPT ![v] = "list"]]
  IN CASE v = "Browser" -> [there EXCEPT !.ui.row = ClampSelection(s, v, row)]
       [] v = "SetDetail" -> [there EXCEPT !.ui.gameRow = ClampSelection(s, v, row)]
       [] OTHER -> there
SelectActions(s) == [s EXCEPT !.ui.pane = [@ EXCEPT ![s.ui.view] = "actions"]]
Remembered(s) == IF s.ui.view = "Browser" THEN s.ui.row ELSE s.ui.gameRow
SetSelectionKept(s) ==
  IF s.ui.view \notin Lists \/ s.ui.pane[s.ui.view] = "actions" THEN s
  ELSE SelectRow(s, Remembered(s))
SelectFirst(s) == IF s.ui.view \in Lists THEN SelectRow(s, 0) ELSE s

(* What a view leaves behind and the next entry to it overwrites is        *)
(* forgotten: a filter's draft, the opened set, the pages and rows.        *)
Forgotten(s) ==
  LET v == s.ui.view
      detail == IF v = "SetDetail" THEN s
                ELSE [s EXCEPT !.ui = [@ EXCEPT !.opened = 0, !.gamePage = 0, !.gameRow = 0,
                                                !.pane["SetDetail"] = "list"]]
      filters == IF v = "Filters" THEN detail
                 ELSE [detail EXCEPT !.draft = s.active, !.ui.pane["Filters"] = "list",
                                     !.ui.back = "Summary"]
  IN IF v = "Summary"
     THEN [filters EXCEPT !.ui = [@ EXCEPT !.page = 0, !.row = 0, !.pane["Browser"] = "list"]]
     ELSE filters

Shows(s, v) == [s EXCEPT !.ui.edit = "none", !.ui.view = v]
SwitchViewEarly(s, v) == Forgotten(Shows(SelectFirst(s), v))
SwitchView(s, v) == Forgotten(SelectFirst(Shows(s, v)))
SwitchBack(s, v) == Forgotten(SetSelectionKept(Shows(s, v)))

RefreshDisplayedSummary(s) ==
  [s EXCEPT !.shown = SummaryFor(s.ui.mode, Sets(s), s.found, s.active)]
RebuildFilteredSessionIndices(s) ==
  LET flt == Sanitized(s.active, Sets(s))
      listed == [s EXCEPT !.active = flt, !.found = FilteredSessionIndices(Sets(s), flt)]
      browser == [listed EXCEPT !.ui.page = Min({@, BrowserPageCount(listed) - 1})]
      paged == [browser EXCEPT !.ui.gamePage = Min({@, DetailPageCount(browser) - 1})]
  IN RefreshDisplayedSummary(paged)
OnlyRead(s, f) == RefreshDisplayedSummary([s EXCEPT !.file = f])
RefreshParsedDocument(s, f) ==
  LET read == [s EXCEPT !.file = f]
  IN RebuildFilteredSessionIndices([read EXCEPT !.draft = Sanitized(@, Sets(read))])

HasSearchSummaryFilter(s) == s.active \notin {Mine, AnyFilter}
ModeAfterApply(s) ==
  IF HasSearchSummaryFilter(s) THEN "Search"
  ELSE IF s.active = AnyFilter THEN "FullLog" ELSE "Profile"
ModeOnly(s) == [s EXCEPT !.ui.mode = ModeAfterApply(s)]
NewMode(s) == RefreshDisplayedSummary([s EXCEPT !.ui.mode = ModeAfterApply(s)])

--------------------------------------------------------------------------------
Closed ==
  [view |-> "closed", back |-> "Summary", mode |-> "Profile",
   pane |-> [v \in Lists |-> "list"], row |-> 0, gameRow |-> 0, page |-> 0, gamePage |-> 0,
   opened |-> 0, edit |-> "none"]
Reset ==
  [file |-> <<>>, ui |-> Closed, active |-> AnyFilter, draft |-> AnyFilter, found |-> <<>>,
   shown |-> NoSummary]
Init ==
  /\ file = <<>> /\ ui = Closed /\ active = AnyFilter /\ draft = AnyFilter /\ found = <<>>
  /\ shown = NoSummary

EnterMenu ==
  /\ ui.view = "closed"
  /\ \E f \in Files :
       Becomes([RefreshParsedDocument([Reset EXCEPT !.active = Mine, !.draft = Mine], f)
                  EXCEPT !.ui.view = "Summary"])

Ready(v) == ui.view = v /\ ui.edit = "none"

(* The summary view. *)
CycleSummaryMode ==
  /\ Ready("Summary")
  /\ Becomes(RefreshDisplayedSummary(
       [All EXCEPT !.ui.mode = IF @ = "Profile" THEN "FullLog" ELSE "Profile"]))
Browse(s) == SwitchView(RebuildFilteredSessionIndices([s EXCEPT !.ui.page = 0]), "Browser")
BrowseMine ==
  /\ Ready("Summary")
  /\ Becomes(Browse(
       IF ui.mode = "Search" THEN All
       ELSE [All EXCEPT !.active = Mine, !.draft = Mine, !.ui.mode = "Profile"]))
BrowseAll ==
  /\ Ready("Summary")
  /\ Becomes(Browse([All EXCEPT !.active = AnyFilter, !.draft = AnyFilter,
                                !.ui.mode = "FullLog"]))
Refresh ==
  /\ Ready("Summary")
  /\ \E f \in Files : Becomes(RefreshParsedDocument(All, f))

(* The filters. *)
SearchFilters ==
  /\ Ready("Summary") \/ (Ready("Browser") /\ ui.pane["Browser"] = "actions")
  /\ Becomes(SwitchView([All EXCEPT !.ui.back = ui.view,
                                    !.draft = Sanitized(active, Sets(All))], "Filters"))
InFields == Ready("Filters") /\ ui.pane["Filters"] = "list"
InFilterActions == Ready("Filters") /\ ui.pane["Filters"] = "actions"
Options(field) ==
  CASE field \in {"playerChar", "opponentChar"} -> CharacterOptions(Sets(All))
    [] field = "status" -> {"Any", "Played", "Empty"}
    [] field = "games" -> {"Any", "One", "TwoToThree", "FourPlus"}
    [] field = "switches" -> {"Any", "Stable", "Swapped"}
Few(flt) ==
  /\ Cardinality({f \in DOMAIN flt : flt[f] # AnyFilter[f]}) <= MaxFields
  /\ Cardinality({f \in DOMAIN flt : flt[f] # active[f]}) <= MaxEdits
CycleField ==
  /\ InFields
  /\ \E f \in {"playerChar", "opponentChar", "status", "games", "switches"} :
       \E option \in Options(f) \ {draft[f]} :
         /\ Few([draft EXCEPT ![f] = option])
         /\ Becomes([All EXCEPT !.draft[f] = option])
BeginEdit ==
  InFields /\ \E field \in {"player", "opponent"} : Becomes([All EXCEPT !.ui.edit = field])
(* Return takes what was typed. *)
CommitEdit ==
  /\ ui.edit # "none"
  /\ \E text \in Names :
       /\ Few([draft EXCEPT ![ui.edit] = text])
       /\ Becomes([All EXCEPT !.draft[ui.edit] = text, !.ui.edit = "none"])
CancelEdit == ui.edit # "none" /\ Becomes([All EXCEPT !.ui.edit = "none"])
ApplyFilters ==
  /\ InFilterActions
  /\ LET flt == Sanitized(draft, Sets(All))
         s == NewMode(RebuildFilteredSessionIndices(
                [All EXCEPT !.draft = flt, !.active = flt, !.ui.page = 0]))
     IN Becomes(SwitchView(s, ui.back))
ResetFilters == InFilterActions /\ Becomes([All EXCEPT !.draft = AnyFilter])

(* The lists: the other pane, another row, another page. *)
TogglePane ==
  /\ ui.view \in Lists /\ ui.edit = "none"
  /\ Becomes(IF ui.pane[ui.view] = "actions" THEN SelectRow(All, Remembered(All))
             ELSE SelectActions(All))
VerticalNavigation ==
  /\ ui.view \in {"Browser", "SetDetail"} /\ ui.pane[ui.view] = "list"
  /\ \E delta \in {-1, 1} :
       LET n == SelectableCount(All, ui.view)
       IN Becomes(SelectRow(All, (Remembered(All) + delta + n) % n))
TurnPage ==
  /\ ui.view \in {"Browser", "SetDetail"}
  /\ \E delta \in {-1, 1} :
       \/ /\ ui.view = "Browser" /\ ui.page + delta \in 0..(BrowserPageCount(All) - 1)
          /\ Becomes(SetSelectionKept([All EXCEPT !.ui.page = @ + delta]))
       \/ /\ ui.view = "SetDetail" /\ ui.gamePage + delta \in 0..(DetailPageCount(All) - 1)
          /\ Becomes(SetSelectionKept([All EXCEPT !.ui.gamePage = @ + delta]))
SlotSession(s, row) ==
  LET at == s.ui.page * SetRows + row + 1 IN IF at \in DOMAIN s.found THEN s.found[at] ELSE 0
OpenSet ==
  /\ ui.view = "Browser" /\ ui.pane["Browser"] = "list"
  /\ SlotSession(All, ui.row) # 0
  /\ Becomes(SwitchView([All EXCEPT !.ui.opened = SlotSession(All, ui.row), !.ui.gamePage = 0],
                        "SetDetail"))

(* HandleCancel: from Escape, from the cancel button or from Back, which   *)
(* is one of the actions.  Out of the summary the menu is left.            *)
Cancelled(s) ==
  IF s.ui.view = "Summary" THEN Reset
  ELSE IF s.ui.pane[s.ui.view] = "list" THEN SelectActions(s)
  ELSE SwitchBack(s, CASE s.ui.view = "Browser" -> "Summary"
                   [] s.ui.view = "Filters" -> s.ui.back
                   [] s.ui.view = "SetDetail" -> "Browser")
HandleCancel ==
  /\ ui.view # "closed" /\ ui.edit = "none"
  /\ Becomes(Cancelled(All))

Next ==
  \/ EnterMenu \/ CycleSummaryMode \/ BrowseMine \/ BrowseAll \/ Refresh
  \/ SearchFilters \/ CycleField \/ BeginEdit \/ CommitEdit \/ CancelEdit
  \/ ApplyFilters \/ ResetFilters
  \/ TogglePane \/ VerticalNavigation \/ TurnPage \/ OpenSet \/ HandleCancel
Spec == Init /\ [][Next]_vars

--------------------------------------------------------------------------------
Filters == [player : Names \cup {"", Me}, opponent : Names \cup {"", Me},
            playerChar : STRING, opponentChar : STRING, status : {"Any", "Played", "Empty"},
            games : {"Any", "One", "TwoToThree", "FourPlus"}, switches : {"Any", "Stable", "Swapped"}]

(* Types: a filter's characters are some the log has. *)
TypeOK ==
  /\ file \in Files /\ active \in Filters /\ draft \in Filters
  /\ {active.playerChar, active.opponentChar, draft.playerChar, draft.opponentChar}
       \subseteq CharacterOptions(Sets(All))
  /\ ui.view \in Lists \cup {"Summary", "closed"} /\ ui.back \in {"Summary", "Browser"}
  /\ ui.mode \in {"Profile", "FullLog", "Search"}
  /\ ui.edit # "none" => ui.view = "Filters"

(* ParseBattleLogDocument: a set has the rows between its header and the   *)
(* next header or blank line, and no row is counted for another set.       *)
RowsUnderTheirHeader ==
  LET heads == SelectSeq([k \in DOMAIN file |-> k], LAMBDA k : file[k].kind = "set")
      End(k) == Min({Len(file) + 1} \cup {j \in (k + 1)..Len(file) :
                                            file[j].kind \in {"set", "blank"}})
      Under(k) == SelectSeq(SubSeq(file, k + 1, End(k) - 1), LAMBDA l : l.kind = "game")
  IN /\ Len(heads) = Len(Sets(All))
     /\ \A i \in DOMAIN heads :
          LET games == Sets(All)[i].games
          IN /\ Len(games) = Len(Under(heads[i]))
             /\ \A j \in DOMAIN games : games[j].score = Under(heads[i])[j].score

(* RebuildFilteredSessionIndices: the browser lists exactly the matching   *)
(* sets of the log as last read, newest first, whichever views, edits and  *)
(* refreshes came between.                                                 *)
BrowserListsTheFilter ==
  ui.view # "closed" =>
    /\ IsInjective(found)
    /\ ToSet(found) = {k \in DOMAIN Sets(All) : SessionMatchesFilter(Sets(All)[k], active)}
    /\ \A i, j \in DOMAIN found : i < j => Sets(All)[found[i]].key >= Sets(All)[found[j]].key

(* SessionMatchesFilter, AccumulatePerspectiveSummary: whether Revival     *)
(* logged a player on the left or on the right changes neither which sets  *)
(* are found nor what is counted for the player.                           *)
Flip(t) == <<t[2], t[1]>>
Flipped(set) ==
  [set EXCEPT !.names = Flip(@),
              !.games = [k \in DOMAIN @ |-> [char |-> Flip(@[k].char), score |-> Flip(@[k].score),
                                             rounds |-> Flip(@[k].rounds)]]]
SidesAreEqual ==
  \A k \in DOMAIN Sets(All) :
    LET set == Sets(All)[k]
    IN /\ SessionMatchesFilter(Flipped(set), active) = SessionMatchesFilter(set, active)
       /\ set.names[1] # set.names[2] =>
            SummaryOver(<<Flipped(set)>>, <<1>>, Me) = SummaryOver(<<set>>, <<1>>, Me)

(* The cursor is on a row that is there (the first, when there is none)    *)
(* and the page shown exists, after any paging, filtering and refresh.     *)
CursorOnARow ==
  /\ ui.view # "closed" => ui.page < BrowserPageCount(All)
  /\ ui.view = "SetDetail" => ui.gamePage < DetailPageCount(All)
  /\ ui.view \in {"Browser", "SetDetail"} /\ ui.pane[ui.view] = "list" =>
       Remembered(All) < SelectableCount(All, ui.view)

(* While a set's games are shown, the browser's cursor stays on that set:  *)
(* Back returns to it.                                                     *)
BackIsTheOpenedSet ==
  ui.view = "SetDetail" => SlotSession(All, ui.row) = ui.opened

(* RefreshDisplayedSummary: the summary box shows the chosen summary of    *)
(* the log as last read and of the filter in force.                        *)
SummaryIsCurrent ==
  ui.view # "closed" => shown = SummaryFor(ui.mode, Sets(All), found, active)

(* What the battle log shows is the log as last read under the filter in    *)
(* force, and its cursor is on a row of it.                                 *)
BattleLogSafe ==
  /\ TypeOK /\ RowsUnderTheirHeader /\ BrowserListsTheFilter /\ SidesAreEqual
  /\ CursorOnARow /\ BackIsTheOpenedSet /\ SummaryIsCurrent
================================================================================
