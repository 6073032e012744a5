------------------------------- MODULE MCOverlay -------------------------------
(***************************************************************************)
(* The rings between game and helper (OverlayRing) and the addresses under *)
(* which the two machines find each other (Reachability).  A behaviour     *)
(* runs one of the two; the other stays in an initial state.               *)
(***************************************************************************)
EXTENDS OverlayRing

VARIABLES
  part,
  net, stable, changes, scan, cache, disc       \* Reachability

--------------------------------------------------------------------------------
(* A healthy network of both families, one without IPv6, one without IPv4. *)
Probe(l, strongest, r, src) ==
  [listener |-> l, strongest |-> strongest, route |-> r, source |-> src]
Net(four, six) == [f \in {"IPv4", "IPv6"} |-> IF f = "IPv4" THEN four ELSE six]
MCNetworks ==
  {Net(Probe("ok", "Private", "ok", "Private"), Probe("ok", "Global", "ok", "Global")),
   Net(Probe("ok", "Loopback", "other", "None"), Probe("definitive", "None", "other", "None")),
   Net(Probe("definitive", "None", "other", "None"), Probe("ok", "LinkLocal", "definitive", "None"))}

Reach == INSTANCE Reachability WITH
  Networks <- MCNetworks, MaxAge <- 1, MaxChanges <- 1, MaxCandidates <- 3

reachVars == <<net, stable, changes, scan, cache, disc>>
allVars == <<part, vars, reachVars>>

Ring(A) == part = "ring" /\ A /\ UNCHANGED <<part, reachVars>>
Reaching(A) == part = "reach" /\ A /\ UNCHANGED <<part, vars>>

PartsInit ==
  /\ part \in {"ring", "reach"} /\ Init /\ Reach!Init
  /\ part # "reach" => net = CHOOSE n \in MCNetworks : TRUE
PartsNext == Ring(Next) \/ Reaching(Reach!Next)

(* The fairness of Reachability, over its own variables. *)
PartsSpec ==
  /\ PartsInit /\ [][PartsNext]_allVars
  /\ WF_reachVars(part = "reach" /\ Reach!Discovery)

--------------------------------------------------------------------------------
(* A discovery asks every family that works, and hands out an address that  *)
(* fits or none (Reachability).                                             *)
ReachabilitySafe == part = "reach" => Reach!ReachabilitySafe

(* Reachability: a discovery that was begun ends. *)
DiscoveryEnds == part = "reach" /\ disc.pc = "asking" ~> disc.pc \in {"done", "cancelled"}
================================================================================
