----------------------------- MODULE ListenerMailbox -----------------------------
(***************************************************************************)
(* The words of the shared block through which the helper announces a       *)
(* listener: a serial, the family, the port and its pid, each written and   *)
(* read on its own.  The publisher makes the serial odd, writes, and makes  *)
(* it even; the reader takes the words between two equal even serials.  The *)
(* game clears the words outside that protocol: before a session starts,    *)
(* and on a cancel, when the helper still lives and may be publishing.      *)
(*                                                                         *)
(* A killed helper is gone at once, anywhere in a publication.  Clearing    *)
(* and reading exclude each other (session_bridge.cpp's g_mutex).  What an  *)
(* announcement is used for is HostProtocol's and Hosting's subject.        *)
(***************************************************************************)
EXTENDS Integers, Sequences

CONSTANTS
  Families, Ports,  \* what a listener line can name
  NoFamily,         \* 0 in the family's word
  MaxHelpers,       \* bound: helpers started
  MaxLines          \* bound: listener lines a helper prints

VARIABLES
  slot,      \* the four words
  pub,       \* the publication under way: its words and the next one, or <<>>
  game,      \* the session: place, whether its start is to be aborted
  helper,    \* the live helper's pid, or 0
  last,      \* the last pid given out
  read,      \* the words read so far, or <<>>
  got,       \* the observation last accepted, or Cleared
  said       \* the announcements of the session's helper, in order

mailboxVars == <<slot, pub, game, helper, last, read, got, said>>

Announcement == [family : Families, port : Ports, pid : 1 .. MaxHelpers]
Cleared == [serial |-> 0, family |-> NoFamily, port |-> 0, pid |-> 0]
Words == <<"serial", "family", "port", "pid">>

--------------------------------------------------------------------------------
(* The helper: PublishHostListenerObservation.                                *)

(* Mutant: both steps of the serial come first. *)
UpFront == <<"serial", "serial", "family", "port", "pid">>
Published == <<"serial", "family", "port", "pid", "serial">>

HelperListens(a) ==
  /\ helper # 0 /\ pub = <<>> /\ Len(said) < MaxLines
  /\ a.pid = helper
  /\ pub' = <<[words |-> a, next |-> 1]>>
  /\ said' = Append(said, a)
  /\ UNCHANGED <<slot, game, helper, last, read, got>>

PublishHostListenerObservation ==
  /\ pub # <<>>
  /\ LET p == pub[1]
         w == Published[p.next]
     IN /\ slot' = [slot EXCEPT ![w] = IF w = "serial" THEN @ + 1 ELSE p.words[w]]
        /\ pub' = IF p.next = Len(Published) THEN <<>> ELSE <<[p EXCEPT !.next = @ + 1]>>
  /\ UNCHANGED <<game, helper, last, read, got, said>>

Ends == helper' = 0 /\ pub' = <<>> /\ said' = <<>>

HelperEnds ==
  /\ helper # 0
  /\ Ends
  /\ UNCHANGED <<slot, game, last, read, got>>

--------------------------------------------------------------------------------
(* The game.  A place is <<"clear", k, next>> while word k is to be cleared.   *)

Place(at) == game' = [game EXCEPT !.at = at]

StartSession ==
  /\ game.at = <<"idle">> /\ helper = 0 /\ last < MaxHelpers
  /\ Place(<<"clear", 1, "start">>)
  /\ got' = Cleared
  /\ UNCHANGED <<slot, pub, helper, last, read, said>>

ClearHostListenerObservation ==
  /\ game.at[1] = "clear"
  /\ slot' = [slot EXCEPT ![Words[game.at[2]]] = Cleared[Words[game.at[2]]]]
  /\ Place(IF game.at[2] < Len(Words) THEN <<"clear", game.at[2] + 1, game.at[3]>> ELSE <<game.at[3]>>)
  /\ UNCHANGED <<pub, helper, last, read, got, said>>

(* ResetHostSharedBlockForSession, then the helper runs.                        *)
Spawn ==
  /\ game.at = <<"start">> /\ ~game.abort
  /\ slot' = Cleared
  /\ helper' = last + 1 /\ last' = last + 1
  /\ Place(<<"started">>)
  /\ UNCHANGED <<pub, read, got, said>>

(* A cancel while the worker still starts the session aborts it later.          *)
CancelSession ==
  /\ read = <<>>
  /\ \/ game.at = <<"running">> /\ Place(<<"clear", 1, "kill">>)
     \/ game.at \in {<<"start">>, <<"started">>} /\ ~game.abort
        /\ game' = [at |-> <<"clear", 1, game.at[1]>>, abort |-> TRUE]
  /\ UNCHANGED <<slot, pub, helper, last, read, got, said>>

Kill ==
  /\ game.at = <<"kill">> \/ (game.at = <<"start">> /\ game.abort)
  /\ Ends
  /\ game' = [at |-> <<"idle">>, abort |-> FALSE]
  /\ UNCHANGED <<slot, last, read, got>>

(* The worker's result: a session, or a helper to be ended.                     *)
(* Mutant: the abort is forgotten. *)
StartGoesOn ==
  /\ game.at = <<"started">>
  /\ game' = [at |-> <<"running">>, abort |-> FALSE]
  /\ UNCHANGED <<slot, pub, helper, last, read, got, said>>
StartCompletes ==
  /\ game.at = <<"started">>
  /\ Place(IF game.abort THEN <<"kill">> ELSE <<"running">>)
  /\ UNCHANGED <<slot, pub, helper, last, read, got, said>>

(* A session ends on its own with its helper; its mailbox is left as it is.       *)
SessionOver ==
  /\ game.at = <<"running">> /\ helper = 0 /\ read = <<>>
  /\ Place(<<"idle">>)
  /\ UNCHANGED <<slot, pub, helper, last, read, got, said>>

--------------------------------------------------------------------------------
(* ReadHostListenerObservation.                                               *)

ReadSerial ==
  /\ game.at = <<"running">> /\ read = <<>>
  /\ slot.serial > 0 /\ slot.serial % 2 = 0
  /\ read' = <<slot.serial>>
  /\ UNCHANGED <<slot, pub, game, helper, last, got, said>>

ReadWord ==
  /\ Len(read) \in 1 .. 3
  /\ read' = Append(read, slot[Words[Len(read) + 1]])
  /\ UNCHANGED <<slot, pub, game, helper, last, got, said>>

(* Accepted with the serial it began with, a family, and the pid of the session   *)
(* (GetHostListenerObservation, HandleTemporaryHostProtocolListenerAckImpl).      *)
(* Mutant: the serial is not read again. *)
CoherentAtFirst == read[2] \in Families
Coherent == slot.serial = read[1] /\ read[2] \in Families

Accept ==
  /\ Len(read) = 4
  /\ got' = IF Coherent /\ read[4] = last
            THEN [serial |-> read[1], family |-> read[2], port |-> read[3], pid |-> read[4]]
            ELSE got
  /\ read' = <<>>
  /\ UNCHANGED <<slot, pub, game, helper, last, said>>

--------------------------------------------------------------------------------

MailboxInit ==
  /\ slot = Cleared /\ pub = <<>> /\ helper = 0 /\ last = 0
  /\ game = [at |-> <<"idle">>, abort |-> FALSE]
  /\ read = <<>> /\ got = Cleared /\ said = <<>>

MailboxNext ==
  \/ \E a \in Announcement : HelperListens(a)
  \/ PublishHostListenerObservation \/ HelperEnds
  \/ StartSession \/ ClearHostListenerObservation \/ Spawn \/ CancelSession \/ Kill
  \/ StartCompletes \/ SessionOver
  \/ ReadSerial \/ ReadWord \/ Accept

MailboxSpec == MailboxInit /\ [][MailboxNext]_mailboxVars

--------------------------------------------------------------------------------
(* Properties.                                                                *)

MailboxTypeOK ==
  /\ slot.serial \in 0 .. 2 * MaxLines /\ slot.family \in Families \cup {NoFamily}
  /\ slot.port \in Ports \cup {0} /\ slot.pid \in 0 .. MaxHelpers
  /\ helper \in {0, last}

Content(o) == [family |-> o.family, port |-> o.port, pid |-> o.pid]

(* What a session accepts while its helper lives is one announcement of that      *)
(* helper, never words of two, of another session, or of a half cleared mailbox.   *)
AcceptedWasSaid ==
  game.at = <<"running">> /\ helper # 0 /\ got # Cleared =>
    \E i \in DOMAIN said : Content(got) = said[i]

(* Once its last announcement is written, a running session finds it: no clear     *)
(* leaves the serial with the wrong parity (ClearHostListenerObservation sets the  *)
(* serial to 0 in the middle of a publication that goes on).                       *)
AnnouncedIsReadable ==
  game.at = <<"running">> /\ pub = <<>> /\ said # <<>> =>
    slot.serial > 0 /\ slot.serial % 2 = 0 /\ Content(slot) = said[Len(said)]

(* What the game reads from the mailbox was announced, and what was         *)
(* announced is read.                                                       *)
MailboxSafe == MailboxTypeOK /\ AcceptedWasSaid /\ AnnouncedIsReadable
================================================================================
