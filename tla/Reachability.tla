----------------------------- MODULE Reachability ------------------------------
(***************************************************************************)
(* What the mod finds out about the network before it hosts or joins: a     *)
(* background scan of what each address family can do on this machine, its  *)
(* cache, the discovery of the public address (three web services asked at  *)
(* once, then perhaps the other family), and the choice among the addresses *)
(* a host name resolves to.                                                 *)
(*                                                                          *)
(* An address is its family and scope.  The probes of a scan are local      *)
(* calls: they and the time stamp are one step.  Ages are counted in ticks  *)
(* and stop at MaxAge + 1; the 32-bit tick count is subtracted modulo 2^32, *)
(* which agrees with that for ages below 49 days.                           *)
(***************************************************************************)
EXTENDS Integers, Sequences, FiniteSets, SequencesExt

CONSTANTS
  Networks,      \* the states of the machine's network: functions from families
  MaxAge,        \* kLocalNetworkCapabilityCacheMaxAgeMs, in ticks
  MaxChanges,    \* bound: changes of the network
  MaxCandidates  \* bound: addresses a host name resolves to

VARIABLES
  net,           \* what the probes of a scan meet, per family
  stable,        \* ticks since the network last changed
  changes,       \* changes so far
  scan,          \* g_pendingLocalNetworkCapabilityScan: absent, running or a snapshot
  cache,         \* g_cachedLocalNetworkCapability, its age, or absent
  disc           \* one discovery: its caller's task, its three threads, its result

vars == <<net, stable, changes, scan, cache, disc>>

Families == {"IPv4", "IPv6"}
Alternate(f) == CHOOSE g \in Families : g # f
Services == <<"api", "ident", "tnedi">>
Sources == {Services[i] : i \in 1 .. Len(Services)}
Scopes == {"None", "Loopback", "LinkLocal", "Private", "Global"}

--------------------------------------------------------------------------------
(* The scan of one family: the wildcard bind, the addresses to bind to, and *)
(* a connected datagram socket that shows route and source address.         *)

UsableSource(f, scope) == scope = "Global" \/ (f = "IPv4" /\ scope = "Private")

ScanFamily(f, p) ==
  CASE p.listener = "definitive" -> "HardUnavailable"
    [] p.listener = "transient" -> "Unknown"
    [] p.listener = "ok" /\ p.route = "ok" ->
         IF p.source = "None" THEN "Unknown"
         ELSE IF UsableSource(f, p.source) THEN "Routable" ELSE "LocalOnly"
    [] OTHER ->
         IF p.route = "definitive" \/ p.strongest \in {"Loopback", "LinkLocal"}
         THEN "LocalOnly" ELSE "Unknown"

(* Mutant: a family whose state is not known is not asked for. *)
OnlyRoutable(state) == state = "Routable"
CanAttemptGlobalPublicDiscovery(state) == state \in {"Routable", "Unknown"}

NoSnapshot == [f \in Families |-> "absent"]
Unknown == [f \in Families |-> "Unknown"]
(* Mutant: ages are not bounded. *)
GrownFreely(age) == age + 1
Grown(age) == IF age > MaxAge THEN age ELSE age + 1

(* A scan reads the network; without Winsock, or after an exception, both    *)
(* families are Unknown.  A discovery under way is of no concern to it: the  *)
(* model lets a scan end before or after one.                                *)
RunScan ==
  /\ scan.at = "running" /\ disc.pc = "idle"
  /\ \E snap \in {Unknown, [f \in Families |-> ScanFamily(f, net[f])]} :
       scan' = [at |-> "done", age |-> 0, snap |-> snap]
  /\ UNCHANGED <<net, stable, changes, cache, disc>>

(* Mutant: a snapshot counts from when it is fetched. *)
PromoteAsNew(c) == IF scan.at = "done" THEN [age |-> 0, snap |-> scan.snap] ELSE c
PromoteCompletedScan(c) ==
  IF scan.at = "done" THEN [age |-> scan.age, snap |-> scan.snap] ELSE c

IsFresh(c) == c.snap # NoSnapshot /\ c.age <= MaxAge

(* EnsureLocalNetworkCapabilityScanScheduled, on entering the menu, before a *)
(* discovery and after a failed listener.  A scan that cannot be started is  *)
(* tried again at the next occasion.                                         *)
EnsureScanScheduled(c) ==
  /\ cache' = c
  /\ LET free == scan.at # "running" IN
     IF free /\ ~IsFresh(c)
     THEN scan' \in {[at |-> "running"], [at |-> "none"]}
     ELSE scan' = IF free THEN [at |-> "none"] ELSE scan

EnterNetplayMenu ==
  /\ disc.pc = "idle"
  /\ EnsureScanScheduled(PromoteCompletedScan(cache))
  /\ UNCHANGED <<net, stable, changes, disc>>

--------------------------------------------------------------------------------
(* A discovery.  For the properties: `late`, an address was taken although the *)
(* caller had cancelled; `asked`, the families asked for.                      *)

NoAddress == [family |-> "none", scope |-> "None"]
At(x) == [at |-> x, addr |-> NoAddress]
Idle ==
  [pc |-> "idle", preferred |-> "IPv4", family |-> "IPv4", allow |-> FALSE,
   snap |-> NoSnapshot, cancel |-> FALSE, src |-> [s \in Sources |-> At("off")],
   late |-> FALSE, asked |-> {}, result |-> NoAddress, effective |-> "IPv4", fallback |-> FALSE]

(* Asks for the address of a family, unless a snapshot says it is in vain.   *)
TryFamily(d, f) ==
  LET skip == d.snap # NoSnapshot /\ ~CanAttemptGlobalPublicDiscovery(d.snap[f]) IN
  [d EXCEPT !.pc = IF skip THEN "missed" ELSE "asking", !.family = f,
            !.src = [s \in Sources |-> At(IF skip THEN "off" ELSE "begin")],
            !.asked = IF skip THEN @ ELSE @ \cup {f}]

(* Mutant: a cached snapshot is used whatever its age. *)
UseCache(c) == c.snap
TryGetFreshSnapshot(c) == IF IsFresh(c) THEN c.snap ELSE NoSnapshot

(* BeginHostDiscovery hands over a fresh snapshot; a lobby session gives none *)
(* and allows the other family.                                               *)
BeginHostDiscovery ==
  /\ disc.pc = "idle"
  /\ LET c == PromoteCompletedScan(cache) IN
     /\ EnsureScanScheduled(c)
     /\ \E f \in Families, allow \in BOOLEAN :
          disc' = TryFamily([Idle EXCEPT !.preferred = f, !.effective = f, !.allow = allow,
                                         !.snap = TryGetFreshSnapshot(c)], f)
  /\ UNCHANGED <<net, stable, changes>>

BeginLobbyDiscovery ==
  /\ disc.pc = "idle"
  /\ \E f \in Families :
       disc' = TryFamily([Idle EXCEPT !.preferred = f, !.effective = f, !.allow = TRUE], f)
  /\ UNCHANGED <<net, stable, changes, scan, cache>>

Cancel ==
  /\ disc.pc \in {"asking", "missed"} /\ ~disc.cancel
  /\ disc' = [disc EXCEPT !.cancel = TRUE]
  /\ UNCHANGED <<net, stable, changes, scan, cache>>

(* A request thread looks at the cancel flag before it asks and when it has   *)
(* an answer.                                                                  *)
AskSource(s) ==
  /\ disc.pc = "asking" /\ disc.src[s].at = "begin"
  /\ disc' = [disc EXCEPT !.src[s] = At(IF disc.cancel THEN "failed" ELSE "asked")]
  /\ UNCHANGED <<net, stable, changes, scan, cache>>

Replies == {[family |-> f, scope |-> "Global"] : f \in Families}
             \cup {[family |-> f, scope |-> "Private"] : f \in Families}

(* Mutant: any address is good. *)
AcceptAny(r) == TRUE
TryAcceptPublicIpResponse(r) == r.family = disc.family /\ r.scope = "Global"

SourceAnswers(s) ==
  /\ disc.pc = "asking" /\ disc.src[s].at = "asked"
  /\ \/ disc' = [disc EXCEPT !.src[s] = At("failed")]
     \/ \E r \in Replies :
          disc' = [disc EXCEPT
            !.src[s] = IF ~disc.cancel /\ TryAcceptPublicIpResponse(r)
                       THEN [at |-> "resolved", addr |-> r] ELSE At("failed")]
  /\ UNCHANGED <<net, stable, changes, scan, cache>>

Ended(x) == x.at \in {"failed", "resolved"}
FirstResolved(d) ==
  LET ok == SelectSeq(Services, LAMBDA s : d.src[s].at = "resolved")
  IN IF ok = <<>> THEN NoAddress ELSE d.src[ok[1]].addr

(* Mutant: what was resolved counts although the caller has cancelled. *)
ResolvedAnyway(d) == FirstResolved(d) # NoAddress
Resolved(d) == FirstResolved(d) # NoAddress /\ ~d.cancel

(* The three threads are joined. *)
JoinSources ==
  /\ disc.pc = "asking" /\ \A s \in Sources : Ended(disc.src[s])
  /\ disc' = IF Resolved(disc)
             THEN [disc EXCEPT !.pc = "done", !.result = FirstResolved(disc), !.late = disc.cancel,
                               !.effective = disc.family,
                               !.fallback = disc.family # disc.preferred]
             ELSE [disc EXCEPT !.pc = "missed"]
  /\ UNCHANGED <<net, stable, changes, scan, cache>>

(* Mutant: the preferred family is kept although nothing can bind to it. *)
KeepPreferred(d) == FALSE
HostOnAlternate(d) ==
  /\ d.snap # NoSnapshot
  /\ d.snap[d.preferred] = "HardUnavailable"
  /\ d.snap[Alternate(d.preferred)] # "HardUnavailable"

(* Mutant: the other family's other family is tried, and so on. *)
GoesOnForEver(d) == d.allow
GoesOn(d) == d.family = d.preferred /\ d.allow

(* A family yielded no address: the discovery was cancelled, or goes on to    *)
(* the other family, or ends without one.                                     *)
FamilyMissed ==
  /\ disc.pc = "missed"
  /\ disc' =
       IF disc.cancel THEN [disc EXCEPT !.pc = "cancelled"]
       ELSE IF GoesOn(disc) THEN TryFamily(disc, Alternate(disc.family))
       ELSE IF disc.family # disc.preferred /\ HostOnAlternate(disc)
            THEN [disc EXCEPT !.pc = "done", !.effective = disc.family, !.fallback = TRUE]
       ELSE [disc EXCEPT !.pc = "done"]
  /\ UNCHANGED <<net, stable, changes, scan, cache>>

(* The caller has taken the result (or dropped a cancelled one). *)
TakeResult ==
  /\ disc.pc \in {"done", "cancelled"}
  /\ disc' = Idle
  /\ UNCHANGED <<net, stable, changes, scan, cache>>

--------------------------------------------------------------------------------
(* ResolveRemoteEndpoint on the addresses a name resolves to, in their order:  *)
(* IPv4 first, the first of a family that the probe does not rule out; empty   *)
(* when there is none.                                                         *)

Usable(c) == ~c.unavailable
FirstOf(q) == IF q = <<>> THEN <<>> ELSE <<q[1]>>
(* Mutant: only the first address of a family is looked at. *)
FirstOfFamily(cands, f) ==
  LET seen == SelectSeq(cands, LAMBDA c : c.family = f) IN FirstOf(seen)
OfFamily(cands, f) == SelectSeq(cands, LAMBDA c : c.family = f)
ResolveRemoteEndpoint(cands) ==
  LET order == SelectSeq(OfFamily(cands, "IPv4") \o OfFamily(cands, "IPv6"), Usable)
  IN FirstOf(order)

Candidates == [family : Families, unavailable : BOOLEAN]
CandidateLists == UNION {[1 .. n -> Candidates] : n \in 0 .. MaxCandidates}

--------------------------------------------------------------------------------
(* A discovery reads neither the clock nor the network once it has begun:      *)
(* both move on before and after it.                                           *)
Tick ==
  /\ disc.pc = "idle"
  /\ stable' = Grown(stable)
  /\ cache' = [cache EXCEPT !.age = Grown(@)]
  /\ scan' = IF scan.at = "done" THEN [scan EXCEPT !.age = Grown(@)] ELSE scan
  /\ UNCHANGED <<net, changes, disc>>

(* The user plugs a cable, joins another network, starts a VPN. *)
NetworkChanges ==
  /\ disc.pc = "idle" /\ changes < MaxChanges
  /\ net' \in Networks \ {net}
  /\ stable' = 0 /\ changes' = changes + 1
  /\ UNCHANGED <<scan, cache, disc>>

Init ==
  /\ net \in Networks /\ stable = 0 /\ changes = 0
  /\ scan = [at |-> "none"]
  /\ cache = [age |-> 0, snap |-> NoSnapshot]
  /\ disc = Idle

Discovery ==
  \/ \E s \in Sources : AskSource(s) \/ SourceAnswers(s)
  \/ JoinSources \/ FamilyMissed

Next ==
  \/ RunScan \/ EnterNetplayMenu \/ BeginHostDiscovery \/ BeginLobbyDiscovery
  \/ Discovery \/ Cancel \/ TakeResult \/ Tick \/ NetworkChanges

Spec == Init /\ [][Next]_vars

(* The operating system runs the request threads, and every request ends: the *)
(* services are asked with timeouts (kPublicIpTimeoutMs).                      *)
Fairness == WF_vars(Discovery)
LiveSpec == Spec /\ Fairness

--------------------------------------------------------------------------------
TypeOK ==
  /\ net \in Networks /\ stable \in 0 .. MaxAge + 1 /\ changes \in 0 .. MaxChanges
  /\ scan.at \in {"none", "running", "done"}
  /\ cache.age \in 0 .. MaxAge + 1
  /\ disc.pc \in {"idle", "asking", "missed", "done", "cancelled"}
  /\ disc.asked \subseteq Families
  /\ \A s \in Sources : disc.src[s].at \in {"off", "begin", "asked", "failed", "resolved"}

Reaches(f) ==
  net[f].listener = "ok" /\ net[f].route = "ok" /\ UsableSource(f, net[f].source)

(* A family that reaches the Internet is always asked for its address before a  *)
(* discovery does without one, if the network had not changed for longer than   *)
(* the cache may be old: neither an old snapshot nor a probe that failed in     *)
(* passing makes it skip the family.                                            *)
ReachableFamilyAsked ==
  disc.pc = "done" /\ disc.result = NoAddress /\ stable > MaxAge =>
    \A f \in {disc.preferred} \cup (IF disc.allow THEN Families ELSE {}) :
      Reaches(f) => f \in disc.asked

(* The address handed out is a global one of the family reported as effective,  *)
(* and the fallback flag says whether that is the preferred family.             *)
AddressFitsFamily ==
  disc.pc = "done" =>
    /\ disc.result # NoAddress =>
         disc.result.family = disc.effective /\ disc.result.scope = "Global"
    /\ disc.fallback <=> disc.effective # disc.preferred

(* A discovery cancelled before its last request ended hands out no address.    *)
CancelledHasNoAddress == ~disc.late /\ (disc.pc = "cancelled" => disc.result = NoAddress)

(* Where the other family is allowed, the listener is not sent to a family the  *)
(* snapshot found unavailable while the other one was not.                      *)
NotHostedOnDeadFamily ==
  disc.pc = "done" /\ disc.allow /\ disc.snap # NoSnapshot
    /\ disc.snap[disc.effective] = "HardUnavailable" =>
      disc.snap[Alternate(disc.effective)] = "HardUnavailable"

(* Resolution fails only when every address is ruled out, and takes an IPv6     *)
(* address only when every IPv4 address is.                                     *)
ResolutionIsBest ==
  \A cands \in CandidateLists :
    LET ok == {i \in 1 .. Len(cands) : Usable(cands[i])}
        r == ResolveRemoteEndpoint(cands)
    IN /\ (r = <<>>) <=> (ok = {})
       /\ ok # {} =>
            /\ \E i \in ok : cands[i] = r[1]
            /\ r[1].family = "IPv6" => \A i \in ok : cands[i].family = "IPv6"

(* A discovery that was begun ends, cancelled or not. *)
DiscoveryEnds == (disc.pc = "asking") ~> (disc.pc \in {"done", "cancelled"})

(* A discovery asks every family that works, and hands out an address that  *)
(* fits or none.                                                            *)
ReachabilitySafe ==
  /\ TypeOK /\ ReachableFamilyAsked /\ AddressFitsFamily /\ CancelledHasNoAddress
  /\ NotHostedOnDeadFamily /\ ResolutionIsBest
================================================================================
