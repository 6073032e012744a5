------------------------------ MODULE HostProtocol ------------------------------
(***************************************************************************)
(* The temporary override of the user's Network.Protocol preference.       *)
(*                                                                         *)
(* A Host session of one address family writes that family into            *)
(* EfzRevival.ini just before it launches the helper, and puts the user's  *)
(* value back once the helper has announced a matching listener.  The      *)
(* preference is the user's and outlives the game, so a recovery marker    *)
(* (a second file) is committed before the INI is touched and removed      *)
(* after it is put back; whoever next touches the INI recovers from it.    *)
(*                                                                         *)
(* Every file operation is one step and can fail; the game can die between *)
(* any two of them.  The helper announces listeners through a mailbox      *)
(* (serial, family, port, pid); here one announcement, and one read, is    *)
(* one step, and ListenerMailbox takes the two apart.                      *)
(***************************************************************************)
EXTENDS Integers, Sequences, TLC

CONSTANTS
  Odd,            \* any other text a user may have typed there
  MaxStarts,      \* bound on Host sessions started
  MaxListens,     \* bound on the listeners a helper announces
  MaxTrouble      \* bound on failed file operations, deaths of the game and
                  \* edits of the INI in another program, together

\* The two families as they are spelt in the INI, and the key missing.
IPv4 == "IPv4"
IPv6 == "IPv6"
Absent == "absent"

Families == {IPv4, IPv6}
Values == Families \cup {Odd, Absent}
Port == 1           \* the port of the session, in the session's status
OtherPort == 2      \* any other port the helper may print

NoMarker == [orig |-> Absent, exp |-> Absent]
Markers == [orig : Values, exp : Families] \cup {NoMarker}

VARIABLES
  ini,      \* Network.Protocol in EfzRevival.ini
  marker,   \* the recovery marker file
  up,       \* the game runs (its memory exists)
  ov,       \* g_temporaryHostProtocolOverride
  pend,     \* the pending override PrepareTemporaryHostProtocolOverride builds
  ops,      \* the file operations still to do under g_temporaryHostProtocolMutex
  start,    \* where StartSession is
  helper,   \* the pid of the session's helper (0: none)
  slot,     \* the listener mailbox
  editor,   \* the options screen's copy of the Protocol line
  pref,     \* what the user wants the INI to say (not in the program)
  said,     \* the announcements made by helpers (not in the program)
  budget    \* starts and troubles left

protocolVars == <<ini, marker, up, ov, pend, ops, start, helper, slot, editor, pref, said,
                  budget>>
file == <<ini, marker>>
mail == <<slot, said>>

NoSlot == [serial |-> 0, family |-> Absent, port |-> 0, pid |-> 0]
Inactive ==
  [state |-> "Inactive", prev |-> Absent, written |-> IPv4, cand |-> NoSlot, mature |-> FALSE]
Idle == ops = <<>>
Active == ov.state # "Inactive"

(* What a value of the INI means: anything that is no family is IPv4. *)
FamilyOf(v) == IF v \in Families THEN v ELSE IPv4

ProtocolInit ==
  /\ ini \in {IPv6, Absent}
  /\ pref = ini
  /\ marker = NoMarker
  /\ up = TRUE
  /\ ov = Inactive
  /\ pend = [prev |-> Absent, written |-> IPv4]
  /\ ops = <<>>
  /\ start = "none"
  /\ helper = 0
  /\ slot = NoSlot
  /\ editor = [open |-> FALSE, keep |-> Absent]
  /\ said = {}
  /\ budget = [starts |-> MaxStarts, trouble |-> MaxTrouble]

Spend(what) == budget[what] > 0 /\ budget' = [budget EXCEPT ![what] = @ - 1]
Then(steps) == ops' = steps \o Tail(ops)
At(step) == ops # <<>> /\ Head(ops) = step
\* Leaves the n operations at the head of the list undone.
Skip(n) == ops' = SubSeq(ops, n + 1, Len(ops))

---------------------------------------------------------------------------
(* File operations.  A write is a write, a flush and a read back: it can   *)
(* fail without effect or after it took effect.                            *)

WriteOk(v) == ini' = v /\ UNCHANGED budget
WriteFails(v) == ini' \in {ini, v} /\ Spend("trouble")

RemoveMarkerOk == marker' = NoMarker /\ UNCHANGED budget

(* RestoreTemporaryHostProtocolOverride: nothing to do, or the INI cannot  *)
(* be read, or somebody else has changed it, or the value is put back.     *)
RestoreSteps ==
  IF ini # ov.written THEN <<"unmark", "clear">> ELSE <<"putBack", "unmark", "clear">>

Restore ==
  /\ At("restore")
  /\ \/ /\ Active
        /\ Then(RestoreSteps)
        /\ UNCHANGED budget
     \/ /\ ~Active
        /\ Then(<<>>)
        /\ UNCHANGED budget
     \/ /\ Active
        /\ Spend("trouble")
        /\ Then(<<>>)
  /\ UNCHANGED <<file, up, ov, pend, start, helper, mail, editor, pref>>

PutBack ==
  /\ At("putBack")
  /\ \/ WriteOk(ov.prev) /\ Then(<<>>)
     \/ WriteFails(ov.prev) /\ Skip(3)
  /\ UNCHANGED <<marker, up, ov, pend, start, helper, mail, editor, pref>>

Unmark ==
  /\ At("unmark")
  /\ \/ RemoveMarkerOk /\ Then(<<>>)
     \/ Spend("trouble") /\ Skip(2) /\ UNCHANGED marker
  /\ UNCHANGED <<ini, up, ov, pend, start, helper, mail, editor, pref>>

Clear ==
  /\ At("clear")
  /\ ov' = Inactive
  /\ Then(<<>>)
  /\ UNCHANGED <<file, up, pend, start, helper, mail, editor, pref, budget>>

(* RecoverProtocolOverrideFromMarkerUnlocked, when no override of this     *)
(* process is active.  A failure ends the operation it was part of.        *)
RecoverSteps == IF ini = marker.exp THEN <<"putOrig", "unmarkRec">> ELSE <<"unmarkRec">>

Recover ==
  /\ At("recover")
  /\ \/ /\ marker # NoMarker
        /\ Then(RecoverSteps)
        /\ UNCHANGED budget
     \/ /\ marker = NoMarker
        /\ Then(<<>>)
        /\ UNCHANGED budget
     \/ Spend("trouble") /\ ops' = <<>>
  /\ UNCHANGED <<file, up, ov, pend, start, helper, mail, editor, pref>>

PutOrig ==
  /\ At("putOrig")
  /\ \/ WriteOk(marker.orig) /\ Then(<<>>)
     \/ WriteFails(marker.orig) /\ ops' = <<>>
  /\ UNCHANGED <<marker, up, ov, pend, start, helper, mail, editor, pref>>

UnmarkRecovered ==
  /\ At("unmarkRec")
  /\ \/ RemoveMarkerOk /\ Then(<<>>)
     \/ Spend("trouble") /\ ops' = <<>> /\ UNCHANGED marker
  /\ UNCHANGED <<ini, up, ov, pend, start, helper, mail, editor, pref>>

---------------------------------------------------------------------------
(* PrepareTemporaryHostProtocolOverride: take back an older override and   *)
(* recover from an older marker, or give up; snapshot the preference;      *)
(* commit the marker (a temporary file moved over the marker's name);      *)
(* write the family; only then record the override.                        *)

PrepareStepsUnrecovered == <<"restore", "reject", "snapshot", "mark", "writeTemp", "begin">>
PrepareStepsMarkLate == <<"restore", "reject", "recover", "snapshot", "writeTemp", "mark", "begin">>
PrepareSteps == <<"restore", "reject", "recover", "snapshot", "mark", "writeTemp", "begin">>

StartSession(f) ==
  /\ up /\ Idle /\ start \in {"none", "ended"}
  /\ Spend("starts")
  /\ start' = "preparing"
  /\ pend' = [prev |-> Absent, written |-> f]
  /\ ops' = PrepareSteps
  /\ slot' = NoSlot
  /\ UNCHANGED <<file, up, ov, helper, editor, pref, said>>

RejectIfActive ==
  /\ At("reject")
  /\ IF Active THEN ops' = <<>> ELSE Then(<<>>)
  /\ UNCHANGED <<file, up, ov, pend, start, helper, mail, editor, pref, budget>>

Snapshot ==
  /\ At("snapshot")
  /\ \/ pend' = [pend EXCEPT !.prev = ini] /\ Then(<<>>) /\ UNCHANGED budget
     \/ Spend("trouble") /\ ops' = <<>> /\ UNCHANGED pend
  /\ UNCHANGED <<file, up, ov, start, helper, mail, editor, pref>>

MarkerForSwapped(p) == [orig |-> p.written, exp |-> p.prev]
MarkerFor(p) == [orig |-> p.prev, exp |-> p.written]

WriteMarker ==
  /\ At("mark")
  /\ \/ /\ marker' = MarkerFor(pend)
        /\ Then(<<>>)
        /\ UNCHANGED budget
     \/ Spend("trouble") /\ ops' = <<>> /\ UNCHANGED marker
  /\ UNCHANGED <<ini, up, ov, pend, start, helper, mail, editor, pref>>

WriteTemporary ==
  /\ At("writeTemp")
  /\ \/ WriteOk(pend.written) /\ Then(<<>>)
     \/ WriteFails(pend.written) /\ ops' = <<"recover">>
  /\ UNCHANGED <<marker, up, ov, pend, start, helper, mail, editor, pref>>

Begin ==
  /\ At("begin")
  /\ ov' = [state |-> "AwaitingListener", prev |-> pend.prev, written |-> pend.written,
            cand |-> NoSlot, mature |-> FALSE]
  /\ start' = "prepared"
  /\ Then(<<>>)
  /\ UNCHANGED <<file, up, pend, helper, mail, editor, pref, budget>>

(* Prepare returned false: the session fails before anything was launched. *)
PrepareFailed ==
  /\ up /\ Idle /\ start = "preparing"
  /\ start' = "ended"
  /\ UNCHANGED <<file, up, ov, pend, ops, helper, mail, editor, pref, budget>>

(* WriteIni: nothing but the listed keys, and only under the override of   *)
(* this family; a key that cannot be written takes the override back.      *)
WriteIni ==
  /\ up /\ Idle /\ start = "prepared"
  /\ \/ /\ Active /\ ov.written = pend.written
        /\ start' = "written"
        /\ UNCHANGED <<ops, budget>>
     \/ /\ ~(Active /\ ov.written = pend.written)
        /\ start' = "ended"
        /\ ops' = <<"restore">>
        /\ UNCHANGED budget
     \/ /\ Spend("trouble")
        /\ start' = "ended"
        /\ ops' = <<"restore", "restore">>
  /\ UNCHANGED <<file, up, ov, pend, helper, mail, editor, pref>>

(* The shared block is reset and the helper launched; a launch that fails  *)
(* takes the override back (TemporaryHostProtocolFailureGuard).            *)
LaunchHelper ==
  /\ up /\ start = "written"
  /\ \/ /\ start' = "running"
        /\ helper' = 1
        /\ slot' = NoSlot
        /\ said' = {}
        /\ UNCHANGED <<ops, budget>>
     \/ /\ Idle
        /\ Spend("trouble")
        /\ start' = "ended"
        /\ ops' = <<"restore">>
        /\ UNCHANGED <<helper, slot, said>>
  /\ UNCHANGED <<file, up, ov, pend, editor, pref>>

---------------------------------------------------------------------------
(* The mailbox. *)

(* NoteConsolePromptLine recognises a listener line the helper printed. *)
HelperListens(f, p) ==
  /\ helper # 0 /\ slot.serial < 2 * MaxListens
  /\ slot' = [serial |-> slot.serial + 2, family |-> f, port |-> p, pid |-> helper]
  /\ said' = said \cup {<<f, p>>}
  /\ UNCHANGED <<file, up, ov, pend, ops, start, helper, editor, pref, budget>>

(* ReadHostListenerObservation finds something published. *)
Readable == slot.serial > 0

(* HandleTemporaryHostProtocolListenerAckImpl: a coherent observation is   *)
(* no candidate unless it is this session's.                               *)
MatchesFamilyOnly == slot.family = ov.written
Matches == slot.family = ov.written /\ helper # 0 /\ slot.pid = helper /\ slot.port = Port

HandleListenerAck(handoff) ==
  /\ up /\ Idle /\ Active /\ start \in {"running", "ended"}
  /\ Readable
  /\ \/ /\ ~Matches
        /\ ov' = [ov EXCEPT !.state = "AwaitingListener", !.cand = NoSlot, !.mature = FALSE]
        /\ UNCHANGED ops
     \/ /\ Matches
        /\ LET same == ov.state = "Stabilizing" /\ ov.cand = slot IN
             /\ ov' = IF same THEN ov
                      ELSE [ov EXCEPT !.state = "Stabilizing", !.cand = slot, !.mature = FALSE]
             /\ ops' = IF handoff \/ (same /\ ov.mature) THEN <<"restore">> ELSE <<>>
  /\ UNCHANGED <<file, up, pend, start, helper, mail, editor, pref, budget>>

(* A candidate has been seen for 100 ms. *)
CandidateMatures ==
  /\ ov.state = "Stabilizing" /\ ~ov.mature
  /\ ov' = [ov EXCEPT !.mature = TRUE]
  /\ UNCHANGED <<file, up, pend, ops, start, helper, mail, editor, pref, budget>>

---------------------------------------------------------------------------
(* The session ends. *)

(* The helper exits by itself. *)
HelperExits ==
  /\ helper # 0
  /\ helper' = 0
  /\ UNCHANGED <<file, up, ov, pend, ops, start, slot, editor, pref, said, budget>>

(* Tick: a terminal phase, or a helper that has ended before it announced  *)
(* its listener, takes the override back, on every tick until it is gone.  *)
SessionOverByPhase == start = "ended"
SessionOver == start = "ended" \/ (start = "running" /\ helper = 0)

TickRestores ==
  /\ up /\ Idle /\ Active /\ SessionOver
  /\ ops' = <<"restore">>
  /\ UNCHANGED <<file, up, ov, pend, start, helper, mail, editor, pref, budget>>

(* CancelSession: the observation is cleared, the override taken back and  *)
(* the helper terminated.                                                  *)
CancelSession ==
  /\ up /\ Idle /\ start = "running"
  /\ slot' = NoSlot
  /\ ops' = <<"restore", "kill">>
  /\ UNCHANGED <<file, up, ov, pend, start, helper, editor, pref, said, budget>>

KillHelper ==
  /\ At("kill")
  /\ helper' = 0
  /\ start' = "ended"
  /\ Then(<<>>)
  /\ UNCHANGED <<file, up, ov, pend, slot, editor, pref, said, budget>>

(* ShutdownHost and EmergencyShutdownHost, then the process is gone. *)
ShutdownHost ==
  /\ up /\ Idle /\ start \in {"none", "running", "ended"}
  /\ ops' = <<"restore", "kill", "exit">>
  /\ UNCHANGED <<file, up, ov, pend, start, helper, mail, editor, pref, budget>>

(* The game's memory is gone; only the files, and a helper, are left. *)
GameGone ==
  /\ up' = FALSE
  /\ ov' = Inactive
  /\ pend' = [prev |-> Absent, written |-> IPv4]
  /\ ops' = <<>>
  /\ start' = "none"
  /\ helper' = 0
  /\ slot' = NoSlot
  /\ editor' = [open |-> FALSE, keep |-> Absent]
  /\ UNCHANGED <<file, pref, said>>

Exit == At("exit") /\ GameGone /\ UNCHANGED budget

Crash == up /\ Spend("trouble") /\ GameGone

(* InitializeHost recovers first thing. *)
InitializeHost ==
  /\ ~up
  /\ up' = TRUE
  /\ ops' = <<"recover">>
  /\ UNCHANGED <<file, ov, pend, start, helper, mail, editor, pref, budget>>

---------------------------------------------------------------------------
(* The options screen, which keeps the text of the whole INI and writes it *)
(* back whole; both accesses hold the override's mutex.                    *)

BeginOptionsIniAccess(then) == IF Active THEN <<then>> ELSE <<"recover", then>>

OpenOptions ==
  /\ up /\ Idle /\ ~editor.open
  /\ ops' = BeginOptionsIniAccess("load")
  /\ UNCHANGED <<file, up, ov, pend, start, helper, mail, editor, pref, budget>>

\* While an override is active the screen shows and keeps the user's value.
ShownValueRaw == ini
ShownValue == IF Active THEN IF ov.prev = Absent THEN IPv4 ELSE ov.prev ELSE ini

LoadItemsFromIni ==
  /\ At("load")
  /\ editor' = [open |-> TRUE, keep |-> ShownValue]
  /\ Then(<<>>)
  /\ UNCHANGED <<file, up, ov, pend, start, helper, mail, pref, budget>>

\* Saving is refused while an override is active.
MayWrite == ~Active

SaveOptions ==
  /\ up /\ Idle /\ editor.open /\ MayWrite
  /\ ops' = BeginOptionsIniAccess("save")
  /\ UNCHANGED <<file, up, ov, pend, start, helper, mail, editor, pref, budget>>

(* SaveItemsToDisk: the Protocol line as it was loaded, or the family the  *)
(* user picked.  Without a Protocol line there is nothing to pick.         *)
SaveItemsToDisk ==
  /\ At("save")
  /\ \E v \in {editor.keep} \cup (IF editor.keep = Absent THEN {} ELSE Families) :
       \/ /\ ini' = v
          /\ pref' = v
          /\ editor' = [editor EXCEPT !.keep = v]
          /\ UNCHANGED budget
       \/ Spend("trouble") /\ UNCHANGED <<ini, pref, editor>>
  /\ Then(<<>>)
  /\ UNCHANGED <<marker, up, ov, pend, start, helper, mail>>

CloseOptions ==
  /\ up /\ Idle /\ editor.open
  /\ editor' = [open |-> FALSE, keep |-> Absent]
  /\ UNCHANGED <<file, up, ov, pend, ops, start, helper, mail, pref, budget>>

(* The user edits the INI in another program.  Typing the very value a     *)
(* marker expects cannot be told from the override and counts as none; the *)
(* screen's older copy of the file is discarded by the user.               *)
UserEdits(v) ==
  /\ Idle /\ ~editor.open /\ v # ini
  /\ Spend("trouble")
  /\ ini' = v
  /\ pref' = IF marker # NoMarker /\ v = marker.exp THEN marker.orig ELSE v
  /\ UNCHANGED <<marker, up, ov, pend, ops, start, helper, mail, editor>>

---------------------------------------------------------------------------
FileStep ==
  \/ Restore \/ PutBack \/ Unmark \/ Clear
  \/ Recover \/ PutOrig \/ UnmarkRecovered
  \/ RejectIfActive \/ Snapshot \/ WriteMarker \/ WriteTemporary \/ Begin
  \/ KillHelper \/ Exit \/ LoadItemsFromIni \/ SaveItemsToDisk

ProtocolNext ==
  \/ FileStep
  \/ \E f \in Families : StartSession(f)
  \/ PrepareFailed \/ WriteIni \/ LaunchHelper
  \/ \E f \in Families, p \in {Port, OtherPort} : HelperListens(f, p)
  \/ \E handoff \in BOOLEAN : HandleListenerAck(handoff)
  \/ CandidateMatures
  \/ HelperExits \/ TickRestores \/ CancelSession \/ ShutdownHost
  \/ Crash \/ InitializeHost
  \/ OpenOptions \/ SaveOptions \/ CloseOptions
  \/ \E v \in Values \ {Absent} : UserEdits(v)

(* Every call returns.  The frame loop ticks while the game runs and waits  *)
(* for the mutex: it cannot be shut out of it by the options screen.        *)
ProtocolFairness ==
  /\ WF_protocolVars(FileStep)
  /\ SF_protocolVars(TickRestores)
  /\ WF_protocolVars(PrepareFailed \/ WriteIni \/ LaunchHelper)

ProtocolSpec == ProtocolInit /\ [][ProtocolNext]_protocolVars /\ ProtocolFairness

---------------------------------------------------------------------------
ProtocolTypeOK ==
  /\ ini \in Values /\ pref \in Values
  /\ marker \in Markers
  /\ ov.state \in {"Inactive", "AwaitingListener", "Stabilizing"}
  /\ ov.prev \in Values /\ ov.written \in Families
  /\ start \in {"none", "preparing", "prepared", "written", "running", "ended"}
  /\ slot.serial \in Nat /\ slot.family \in Families \cup {Absent}
  /\ ~up => Idle /\ ~Active

(* Whenever EfzRevival.ini does not say what the user wants, the recovery  *)
(* marker on disk says what to put back and what is there meanwhile: a     *)
(* crash at any point between two file operations loses nothing.           *)
MarkerGuardsPreference ==
  FamilyOf(ini) # FamilyOf(pref) =>
    /\ marker # NoMarker
    /\ marker.exp = ini
    /\ FamilyOf(marker.orig) = FamilyOf(pref)

(* An active override remembers the user's preference, never the value of  *)
(* an earlier override that was still in the file.                         *)
OverrideKeepsPreference ==
  Active /\ ini = ov.written => FamilyOf(ov.prev) = FamilyOf(pref)

(* The override is taken back on an acknowledgement only when the helper   *)
(* of this session announced a listener of the written family on the       *)
(* session's port, never on an announcement left over from another one.    *)
AckIsOwnListener ==
  ov.state = "Stabilizing" =>
    ov.cand.family = ov.written /\ <<ov.written, Port>> \in said

(* The options screen never keeps (and so never writes back) the temporary *)
(* value instead of the user's.  (If the user edited the file during the   *)
(* override the screen still shows the value from before it.)              *)
EditorShowsPreference ==
  [][editor'.open /\ ~editor.open /\ (Active => ini = ov.written)
       => FamilyOf(editor'.keep) = FamilyOf(pref)]_protocolVars

(* Once the session is over, or its helper has ended, the override is      *)
(* taken back, unless the game dies first.                                 *)
Unneeded == Active /\ (start = "ended" \/ (start = "running" /\ helper = 0))
OverrideEnds == Unneeded ~> (~Active \/ start \notin {"ended", "running"})

(* The user's preference survives the override: on disk by the marker, in   *)
(* memory by the override, until its own listener is up.                    *)
PreferenceSafe ==
  /\ ProtocolTypeOK /\ MarkerGuardsPreference /\ OverrideKeepsPreference /\ AckIsOwnListener
=============================================================================
