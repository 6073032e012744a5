--------------------------- MODULE OverlayAttach ---------------------------
(***************************************************************************)
(* How the game and the helper come to share the overlay IPC block         *)
(* (overlay_ipc.cpp Attach and Detach). Launched together they race: the   *)
(* one that creates the mapping zeroes it and stamps magic, then version;  *)
(* the other waits for the stamp. The mapping lives as long as one of the  *)
(* two holds it. Either process may die at any step and be started again.  *)
(* The two attached flags are left out: nothing reads them.                *)
(***************************************************************************)
EXTENDS Naturals

CONSTANT MaxSpins   \* the retry loop's bound (200 in the code)

Processes == {"game", "helper"}

VARIABLES
    holders,        \* processes holding the mapping open
    magic, version, \* whether the block carries the stamps
    pc,             \* step of each process's Attach
    created,        \* whether its CreateFileMapping made the mapping
    spins           \* its retries so far

vars == <<holders, magic, version, pc, created, spins>>

Attaching == {"opened", "zero", "magic", "version", "check", "spin"}

Init ==
    /\ holders = {} /\ magic = FALSE /\ version = FALSE
    /\ pc = [p \in Processes |-> "off"]
    /\ created = [p \in Processes |-> FALSE]
    /\ spins = [p \in Processes |-> 0]

\* The last handle closed: the mapping, and with it the stamps, is gone.
Release(p) ==
    /\ holders' = holders \ {p}
    /\ magic' = (magic /\ holders' # {})
    /\ version' = (version /\ holders' # {})

Become(p, step) == pc' = [pc EXCEPT ![p] = step]

\* CreateFileMapping; a failure ends Attach at once.
Create(p) ==
    /\ pc[p] = "off"
    /\ \/ /\ holders' = holders \cup {p}
          /\ created' = [created EXCEPT ![p] = (holders = {})]
          /\ Become(p, "opened")
          /\ spins' = [spins EXCEPT ![p] = 0]
       \/ Become(p, "failed") /\ UNCHANGED <<holders, created, spins>>
    /\ UNCHANGED <<magic, version>>

\* MapViewOfFile; on failure the handle is closed.
Map(p) ==
    /\ pc[p] = "opened"
    /\ \/ /\ Become(p, IF created[p] THEN "zero" ELSE "check")
          /\ UNCHANGED <<holders, magic, version>>
       \/ Become(p, "failed") /\ Release(p)
    /\ UNCHANGED <<created, spins>>

\* The creator: memset, then the two stamps.
Zero(p) ==
    /\ pc[p] = "zero"
    /\ magic' = FALSE /\ version' = FALSE
    /\ Become(p, "magic")
    /\ UNCHANGED <<holders, created, spins>>

StampMagic(p) ==
    /\ pc[p] = "magic"
    /\ magic' = TRUE
    /\ Become(p, "version")
    /\ UNCHANGED <<holders, version, created, spins>>

StampVersion(p) ==
    /\ pc[p] = "version"
    /\ version' = TRUE
    /\ Become(p, "attached")
    /\ UNCHANGED <<holders, magic, created, spins>>

\* Faulty variant: the version is not looked at.
StampedMagicOnly == magic

\* Both stamps are in place.
Stamped == magic /\ version

\* The joiner's first look.
Check(p) ==
    /\ pc[p] = "check"
    /\ Become(p, IF Stamped THEN "attached" ELSE "spin")
    /\ UNCHANGED <<holders, magic, version, created, spins>>

\* Faulty variant: the loop does not count.
RetryForever(p) == UNCHANGED <<spins, pc>>

\* One more retry, Sleep(1) included.
Retry(p) == spins' = [spins EXCEPT ![p] = @ + 1] /\ UNCHANGED pc

\* Faulty variant: the loop runs once too often.
MoreRetriesOffByOne(p) == spins[p] <= MaxSpins

MoreRetries(p) == spins[p] < MaxSpins

\* The retry loop: done when stamped, given up on a non-zero magic.
Spin(p) ==
    /\ pc[p] = "spin"
    /\ MoreRetries(p)
    /\ \/ Stamped /\ Become(p, "attached") /\ UNCHANGED <<holders, magic, version, spins>>
       \/ ~Stamped /\ magic /\ Become(p, "failed") /\ Release(p) /\ UNCHANGED spins
       \/ ~magic /\ Retry(p) /\ UNCHANGED <<holders, magic, version>>
    /\ UNCHANGED created

SpinTimeout(p) ==
    /\ pc[p] = "spin"
    /\ ~MoreRetries(p)
    /\ Become(p, "failed")
    /\ Release(p)
    /\ UNCHANGED <<created, spins>>

\* Only the helper detaches: no import could be patched, or Uninstall.
Detach(p) ==
    /\ p = "helper" /\ pc[p] = "attached"
    /\ Become(p, "off")
    /\ Release(p)
    /\ UNCHANGED <<created, spins>>

\* The process ends, the system closes its handle, a new one is started.
Die(p) ==
    /\ pc[p] # "off"
    /\ Become(p, "off")
    /\ Release(p)
    /\ created' = [created EXCEPT ![p] = FALSE]
    /\ spins' = [spins EXCEPT ![p] = 0]

Attach(p) == Create(p) \/ Map(p) \/ Zero(p) \/ StampMagic(p) \/ StampVersion(p)
             \/ Check(p) \/ Spin(p) \/ SpinTimeout(p)

Next == \E p \in Processes : Attach(p) \/ Detach(p) \/ Die(p)

\* A thread inside Attach keeps running; Sleep(1) returns.
Fairness == \A p \in Processes : WF_vars(pc[p] \in Attaching /\ Attach(p))

Spec == Init /\ [][Next]_vars /\ Fairness

-----------------------------------------------------------------------------
(* Types; the retries stay within the loop's bound. *)
TypeOK ==
    /\ holders \subseteq Processes
    /\ magic \in BOOLEAN /\ version \in BOOLEAN
    /\ pc \in [Processes -> Attaching \cup {"off", "attached", "failed"}]
    /\ created \in [Processes -> BOOLEAN]
    /\ spins \in [Processes -> 0 .. MaxSpins]

(* A process that attached works on a stamped block, and no creator is still
   about to zero it: frames queued after Attach cannot be wiped. *)
AttachedSeesStamp ==
    \A p \in Processes : pc[p] = "attached" =>
        /\ p \in holders /\ magic /\ version
        /\ \A q \in Processes : pc[q] \notin {"zero", "magic", "version"}

(* Attach returns, whatever happens to the process that creates the block. *)
AttachEnds ==
    \A p \in Processes : pc[p] \in Attaching ~> pc[p] \notin Attaching

(* The attachment keeps its types and sees a stamped block.                 *)
AttachSafe == TypeOK /\ AttachedSeesStamp
=============================================================================
