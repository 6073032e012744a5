-------------------------- MODULE PaletteExchange --------------------------
(***************************************************************************)
(* Online custom colors between the two players: OverlayChannel's          *)
(* handshake and palette rows (overlay_channel.cpp, palette_store.cpp),    *)
(* the character-select hooks that drive it (palette_charselect.cpp), the  *)
(* helper's piggyback transport (overlay_helper_hooks.cpp) and the network *)
(* between the helpers. Each player has two processes: the game runs Poll, *)
(* EndFrame and EnterSelect on its game thread, the helper Flush and       *)
(* Deliver on Revival's network threads. The two rings of each block are   *)
(* the bounded queues OverlayRing is shown to implement.                   *)
(*                                                                         *)
(* Rows stand for whole PaletteBlobBody values (character, slot, colors);  *)
(* malformed frames, spectators and the loopback transport are left out.   *)
(* Milliseconds are abstracted to whether an interval has elapsed.         *)
(***************************************************************************)
EXTENDS Naturals, Sequences, SequencesExt

\* The counts are positive, the bounds at least 0.
CONSTANTS
    Rows,       \* rows a player can select
    None,       \* no row, or no sequence number, stored
    Probes,     \* kMaxHelloProbes
    RingCap,    \* frames a ring holds (kRingSlots - 1)
    NetCap,     \* bound: datagrams in flight per direction
    SeqSpace,   \* 2^16, the row sequence numbers
    MaxRounds,  \* bound: character selects of a session
    MaxPicks,   \* bound: changes of selection in a session
    MaxFaults,  \* bound: datagrams the network loses or repeats
    Switching,  \* whether a player turns OnlineCustomColors off
    Stock       \* the row selected at first, one of Rows

\* Host is side 0, join side 1 (DeriveSideSource).
Peers == {"host", "join"}
Other(p) == IF p = "host" THEN "join" ELSE "host"

VARIABLES
    modded,     \* whether the mod runs on that side at all (fixed)
    enabled,    \* its OnlineCustomColors setting
    round,      \* character selects entered so far; also m_nonce
    inSelect,   \* g_csObj # 0
    staged,     \* that side has left the portrait (InStageFlow)
    choice,     \* the row of its current selection
    picks,      \* changes of choice so far (bounds the model)
    ch,         \* OverlayChannel and its palette store; a stored row also
                \* records the round it was sent in (of), for the properties
    shown,      \* g_matchRow of the other side
    toHelper, toGame,   \* the rings of its IPC block
    net,        \* datagrams on their way to it
    faults      \* losses and repetitions so far (bounds the model)

player == <<modded, round, inSelect, staged, choice, picks>>
vars == <<modded, enabled, round, inSelect, staged, choice, picks, ch, shown,
          toHelper, toGame, net, faults>>

Idle == [state |-> "Idle", hellos |-> 0, local |-> None, outSeq |-> 0, pending |-> FALSE,
         remote |-> None, lastIn |-> None]

Frame(kind, side, nonce, row, seq) ==
    [kind |-> kind, side |-> side, nonce |-> nonce, row |-> row, seq |-> seq]
Hello(p, n) == Frame("Hello", p, n, None, 0)
Ack(p, n) == Frame("Ack", p, n, None, 0)

\* Faulty variant: the ring is never full.
HasRoomAlways(ring) == TRUE

\* ipc::Push: a full ring refuses the frame.
HasRoom(ring) == Len(ring) < RingCap
Push(ring, f) == IF HasRoom(ring) THEN Append(ring, f) ELSE ring

Init ==
    /\ modded \in [Peers -> BOOLEAN]
    /\ enabled = modded
    /\ round = [p \in Peers |-> 0]
    /\ inSelect = [p \in Peers |-> FALSE]
    /\ staged = [p \in Peers |-> FALSE]
    /\ choice = [p \in Peers |-> Stock]
    /\ picks = 0
    /\ ch = [p \in Peers |-> Idle]
    /\ shown = [p \in Peers |-> None]
    /\ toHelper = [p \in Peers |-> << >>]
    /\ toGame = [p \in Peers |-> << >>]
    /\ net = [p \in Peers |-> << >>]
    /\ faults = 0

-----------------------------------------------------------------------------
(* Character select *)

\* Faulty variant: what the last character select left behind stays queued.
DiscardNothing(p) == UNCHANGED toGame

\* DiscardInboundFrames
DiscardInbound(p) == toGame' = [toGame EXCEPT ![p] = << >>]

\* OverlayChannel::Begin after End, and ResetPaletteExchangeForRematch.
Begin(p) == ch' = [ch EXCEPT ![p] =
                IF enabled[p] THEN [Idle EXCEPT !.state = "Probing"] ELSE Idle]

(***************************************************************************)
(* HookInit. The two games enter a character select in either order but    *)
(* play the match before it together, so the first one to enter finds the  *)
(* previous round's datagrams long delivered.                              *)
(***************************************************************************)
PreviousRoundOver(p) ==
    \/ round[Other(p)] > round[p]
    \/ /\ round[Other(p)] = round[p] /\ ~inSelect[Other(p)]
       /\ \A q \in Peers : toHelper[q] = << >> /\ net[q] = << >>

EnterSelect(p) ==
    /\ ~inSelect[p] /\ round[p] < MaxRounds
    /\ PreviousRoundOver(p)
    /\ inSelect' = [inSelect EXCEPT ![p] = TRUE]
    /\ round' = [round EXCEPT ![p] = @ + 1]
    /\ staged' = [staged EXCEPT ![p] = FALSE]
    /\ IF modded[p]
       THEN DiscardInbound(p) /\ Begin(p) /\ shown' = [shown EXCEPT ![p] = None]
       ELSE UNCHANGED <<toGame, ch, shown>>
    /\ UNCHANGED <<modded, enabled, choice, picks, toHelper, net, faults>>

\* Both players have confirmed and the screen changes; TickGameThread drops g_csObj.
LeaveSelect(p) ==
    /\ inSelect[p] /\ staged[p]
    /\ staged[Other(p)] /\ round[Other(p)] = round[p]
    /\ inSelect' = [inSelect EXCEPT ![p] = FALSE]
    /\ UNCHANGED <<modded, enabled, round, staged, choice, picks, ch, shown, toHelper, toGame, net, faults>>

\* The player moves to another character or color, or toggles EDIT COLOR.
Pick(p, row) ==
    /\ inSelect[p] /\ ~staged[p] /\ picks < MaxPicks
    /\ row # choice[p]
    /\ choice' = [choice EXCEPT ![p] = row]
    /\ picks' = picks + 1
    /\ UNCHANGED <<modded, enabled, round, inSelect, staged, ch, shown, toHelper, toGame, net, faults>>

\* The side confirms its character and goes on to the stage flow.
Stage(p) ==
    /\ inSelect[p] /\ inSelect[Other(p)] /\ round[p] = round[Other(p)]
    /\ ~staged[p]
    /\ staged' = [staged EXCEPT ![p] = TRUE]
    /\ UNCHANGED <<modded, enabled, round, inSelect, choice, picks, ch, shown, toHelper, toGame, net, faults>>

\* The setting is switched off.
Disable(p) ==
    /\ Switching /\ enabled[p]
    /\ enabled' = [enabled EXCEPT ![p] = FALSE]
    /\ UNCHANGED <<player, ch, shown, toHelper, toGame, net, faults>>

-----------------------------------------------------------------------------
(* The game thread's frame: PiggybackPoll one frame at a time, then
   OverlayChannel::Tick and ProcessSide for both sides. *)

Active(p) == inSelect[p] /\ ch[p].state # "Idle"

\* Faulty variant: rows are taken in order of arrival.
AnyNewer(seq, last) == TRUE

\* Store::SeqNewer: serial-number arithmetic.
SeqNewer(seq, last) ==
    LET distance == (seq + SeqSpace - last) % SeqSpace
    IN  distance # 0 /\ distance < SeqSpace \div 2

\* Store::AcceptInbound; a copy of the own row relayed back is never read.
AcceptInbound(p, c, f) ==
    IF f.side # p /\ (c.lastIn = None \/ SeqNewer(f.seq, c.lastIn))
    THEN [c EXCEPT !.remote = [row |-> f.row, of |-> f.nonce], !.lastIn = f.seq]
    ELSE c

\* OnInboundDatagram's effect on the channel.
Received(p, c, f) ==
    CASE f.kind = "Hello" -> [c EXCEPT !.state = "Confirmed"]
      [] f.kind = "Ack" -> IF f.nonce = round[p]
                           THEN [c EXCEPT !.state = "Confirmed"] ELSE c
      [] f.kind = "Row" -> AcceptInbound(p, c, f)

\* What it sends: an Ack for a Hello, and the host's relay of the other side's row.
Replied(p, f) ==
    CASE f.kind = "Hello" -> Push(toHelper[p], Ack(p, f.nonce))
      [] f.kind = "Row" /\ p = "host" /\ f.side # p -> Push(toHelper[p], f)
      [] OTHER -> toHelper[p]

Poll(p) ==
    /\ Active(p) /\ toGame[p] # << >>
    /\ LET f == Head(toGame[p])
       IN  /\ ch' = [ch EXCEPT ![p] = Received(p, @, f)]
           /\ toHelper' = [toHelper EXCEPT ![p] = Replied(p, f)]
    /\ toGame' = [toGame EXCEPT ![p] = Tail(@)]
    /\ UNCHANGED <<player, enabled, shown, net, faults>>

\* Tick while probing: the next Hello, or the peer is taken for unmodded.
TickProbing(p, c) ==
    IF c.hellos >= Probes THEN [c EXCEPT !.state = "VanillaPeer"]
    ELSE [c EXCEPT !.hellos = IF HasRoom(toHelper[p]) THEN @ + 1 ELSE @]

\* Store::SetLocalRow for the current selection.
SetLocalRow(p, c) ==
    IF c.local = choice[p] THEN c
    ELSE [c EXCEPT !.local = choice[p], !.outSeq = (@ + 1) % SeqSpace, !.pending = TRUE]

\* Faulty variant: rows go out before the handshake is done.
SendsRowUnconfirmed(c) == c.pending

\* SubmitLocalPaletteRow gets past its early returns.
SendsRow(c) == c.pending /\ c.state = "Confirmed"

\* The row stays pending when the ring refuses it.
Submitted(p, c) == [c EXCEPT !.pending = ~HasRoom(toHelper[p])]

(***************************************************************************)
(* Tick, then ProcessSide of both sides, once Poll has found the ring      *)
(* empty. due says whether GetTickCount has moved kHelloIntervalMs past    *)
(* the last Hello or kPaletteSendMinIntervalMs past the last row; Hello    *)
(* and row exclude each other, so one flag serves both. Without a due      *)
(* frame the tick only notes the selection and the peer's row.             *)
(***************************************************************************)
TickAndProcess(p, due) ==
    LET c == ch[p]
        d == IF staged[p] THEN c ELSE SetLocalRow(p, c)
    IN  /\ \/ /\ due /\ c.state = "Probing"
              /\ ch' = [ch EXCEPT ![p] = TickProbing(p, d)]
              /\ toHelper' = IF c.hellos >= Probes THEN toHelper
                             ELSE [toHelper EXCEPT ![p] = Push(@, Hello(p, round[p]))]
           \/ /\ due /\ ~staged[p] /\ SendsRow(d)
              /\ ch' = [ch EXCEPT ![p] = Submitted(p, d)]
              /\ toHelper' = [toHelper EXCEPT ![p] =
                    Push(@, Frame("Row", p, round[p], d.local, d.outSeq))]
           \/ /\ due => c.state # "Probing" /\ (staged[p] \/ ~SendsRow(d))
              /\ ch' = [ch EXCEPT ![p] = d]
              /\ UNCHANGED toHelper
        /\ shown' = IF staged[Other(p)] THEN shown ELSE [shown EXCEPT ![p] = c.remote]

EndFrame(p, due) ==
    /\ Active(p) /\ toGame[p] = << >>
    /\ enabled[p]
    /\ TickAndProcess(p, due)
    /\ UNCHANGED <<player, enabled, toGame, net, faults>>

\* Tick with the setting off: End.
EndFrameDisabled(p) ==
    /\ Active(p) /\ toGame[p] = << >>
    /\ ~enabled[p]
    /\ ch' = [ch EXCEPT ![p] = Idle]
    /\ UNCHANGED <<player, enabled, shown, toHelper, toGame, net, faults>>

-----------------------------------------------------------------------------
(* The helpers and the network *)

\* CapturePeerAndFlush on one of Revival's own sends.
Flush(p) ==
    /\ toHelper[p] # << >> /\ Len(net[Other(p)]) < NetCap
    /\ toHelper' = [toHelper EXCEPT ![p] = Tail(@)]
    /\ net' = [net EXCEPT ![Other(p)] = Append(@, Head(toHelper[p]))]
    /\ UNCHANGED <<player, enabled, ch, shown, toGame, faults>>

\* ObserveRecvCompletion; an unmodded side ignores the datagram. UDP reorders,
\* and now and then repeats or loses one.
Arrives(p, f) ==
    toGame' = IF modded[p] THEN [toGame EXCEPT ![p] = Push(@, f)] ELSE toGame

Deliver(p) ==
    \E i \in DOMAIN net[p] :
        /\ Arrives(p, net[p][i])
        /\ net' = [net EXCEPT ![p] = RemoveAt(@, i)]
        /\ UNCHANGED <<player, enabled, ch, shown, toHelper, faults>>

Repeat(p) ==
    \E i \in DOMAIN net[p] :
        /\ faults < MaxFaults /\ faults' = faults + 1
        /\ Arrives(p, net[p][i])
        /\ UNCHANGED <<player, enabled, ch, shown, toHelper, net>>

Lose(p) ==
    \E i \in DOMAIN net[p] :
        /\ faults < MaxFaults /\ faults' = faults + 1
        /\ net' = [net EXCEPT ![p] = RemoveAt(@, i)]
        /\ UNCHANGED <<player, enabled, ch, shown, toHelper, toGame>>

Game(p) ==
    \/ EnterSelect(p) \/ LeaveSelect(p) \/ Stage(p) \/ Disable(p)
    \/ (\E row \in Rows : Pick(p, row))
    \/ Poll(p) \/ (\E due \in BOOLEAN : EndFrame(p, due)) \/ EndFrameDisabled(p)

Network(p) == Flush(p) \/ Deliver(p) \/ Repeat(p) \/ Lose(p)

Next == \E p \in Peers : Game(p) \/ Network(p)

(***************************************************************************)
(* Frames keep being rendered while a character select is shown, the       *)
(* intervals elapse, Revival keeps sending, and datagrams that are not     *)
(* lost arrive.                                                            *)
(***************************************************************************)
Fairness == \A p \in Peers :
    /\ WF_vars(Poll(p)) /\ WF_vars(EndFrame(p, TRUE)) /\ WF_vars(EndFrameDisabled(p))
    /\ WF_vars(Flush(p)) /\ WF_vars(Deliver(p))

Spec == Init /\ [][Next]_vars /\ Fairness

-----------------------------------------------------------------------------
(* Types; the rings and the network stay within their bounds. *)
Stored == [row : Rows, of : 1 .. MaxRounds] \cup {None}

Channel == [state : {"Idle", "Probing", "Confirmed", "VanillaPeer"},
            hellos : 0 .. Probes, local : Rows \cup {None}, outSeq : 0 .. SeqSpace - 1, pending : BOOLEAN,
            remote : Stored, lastIn : (0 .. SeqSpace - 1) \cup {None}]

TypeOK ==
    /\ ch \in [Peers -> Channel]
    /\ choice \in [Peers -> Rows] /\ shown \in [Peers -> Stored]
    /\ round \in [Peers -> 0 .. MaxRounds] /\ picks \in 0 .. MaxPicks
    /\ \A p \in Peers : /\ Len(toHelper[p]) <= RingCap /\ Len(toGame[p]) <= RingCap
                        /\ Len(net[p]) <= NetCap

(***************************************************************************)
(* A stored peer row was sent in this round's character select: nothing    *)
(* left over from the previous match is taken for the opponent's current   *)
(* colors, and no old sequence number blocks the new ones.                 *)
(***************************************************************************)
FreshRow ==
    \A p \in Peers : ch[p].remote # None => ch[p].remote.of = round[p]

(* An unmodded peer is only ever sent Hello probes
   (docs/HOW_IT_WORKS.md: "staying silent against unmodded peers"). *)
SilentToVanilla ==
    \A p \in Peers : ~modded[Other(p)] =>
        \A f \in Range(toHelper[p]) \cup Range(net[Other(p)]) : f.kind = "Hello"

(* Both players stay on their portraits with the feature on. *)
Settled ==
    \A p \in Peers : inSelect[p] /\ enabled[p] /\ ~staged[p] /\ round[p] = round[Other(p)]

(***************************************************************************)
(* docs/HOW_IT_WORKS.md, "Online custom colors": "each player's EDIT COLOR *)
(* palette is shared and shown on both screens". Whatever the order of     *)
(* entry, of handshake frames and of datagrams, players who stay in the    *)
(* character select end up seeing each other's current row.                *)
(***************************************************************************)
RowsShown ==
    <>[]Settled => <>[](\A p \in Peers : shown[p] # None /\ shown[p].row = choice[Other(p)])

(* Rows are of this character select, and a peer without the mod is left    *)
(* alone.                                                                   *)
ColorsSafe == TypeOK /\ FreshRow /\ SilentToVanilla
=============================================================================
