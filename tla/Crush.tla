-------------------------------- MODULE Crush --------------------------------
(***************************************************************************)
(* CRUSH placement (rebalance/crush.rs) of the replicas of one partition:  *)
(* the attempts of select_replicas, the rounds of select_nodes_of_type     *)
(* with their rejections and loopbacks, in a topology of fault zones or in *)
(* a flat one.                                                             *)
(*                                                                         *)
(* The hash of a round is left open: a draw returns any child it could     *)
(* return.  The rounds and the inputs of the hash are therefore not kept;  *)
(* what is kept of a failure is the loopback it counts as.                 *)
(***************************************************************************)
EXTENDS Naturals, Sequences, FiniteSets

CONSTANTS
  Instances,      \* the configured instances
  ZoneOf,         \* the fault zone of each instance
  Counts,         \* the replica counts that are asked for
  MaxRetry,       \* MAX_RETRY
  MaxLoopback     \* MAX_LOOPBACK_COUNT

ASSUME CrushAssumption ==
  /\ Instances # {} /\ Counts \subseteq Nat
  /\ MaxRetry \in Nat \ {0} /\ MaxLoopback \in Nat

Root == "root"
Zones == {ZoneOf[i] : i \in Instances}

ASSUME NodesAssumption == Zones \cap Instances = {} /\ Root \notin Zones \cup Instances

VARIABLES
  liveInstances,
  flat,           \* the fault zone type is the end node type
  replicas,       \* replica_count
  call,           \* the call of select_nodes_of_type that runs
  tries,          \* attempts of select_replicas that fell short
  zones,          \* zones of this attempt that still get an end node
  selectedZones,
  nodes,          \* the preference list
  pc

crushVars == <<liveInstances, flat, replicas, call, tries, zones, selectedZones, nodes, pc>>

Chosen(s) == {s[k] : k \in DOMAIN s}

-----------------------------------------------------------------------------
(* TopologyTree.                                                           *)

Children(n) ==
  CASE n = Root /\ flat  -> Instances
    [] n = Root /\ ~flat -> Zones
    [] OTHER             -> {i \in Instances : ZoneOf[i] = n}

\* The live instances at or below a node: its weight, in units of the default.
Weight(n) ==
  IF n \in Instances THEN {n} \cap liveInstances
  ELSE {i \in liveInstances : n \in {Root, ZoneOf[i]}}

Unavailable(n) == Weight(n) = {}

\* choose_child: some child of positive weight has the highest score; when every
\* score is zero the first straw is returned, whatever its weight.
Draws(n) == Children(n)

-----------------------------------------------------------------------------
(* select_nodes_of_type: call.left counts the nodes still to look for.        *)

Call(parent, count, excluded) ==
  [parent |-> parent, left |-> count, excluded |-> excluded, selected |-> <<>>,
   rejected |-> {}, loopbacks |-> 0]

Searching == pc = "search" /\ call.left > 0

Taken(c) == c \in Chosen(call.selected) \cup call.excluded

AllEliminated(rejected) ==
  \A c \in Children(call.parent) : Unavailable(c) \/ c \in Chosen(call.selected) \cup rejected

\* 'origin: start again from the parent, or give the replica up.
Loopback ==
  call' = IF call.loopbacks = MaxLoopback
          THEN [call EXCEPT !.left = call.left - 1, !.rejected = {}, !.loopbacks = 0]
          ELSE [call EXCEPT !.rejected = {}, !.loopbacks = call.loopbacks + 1]

DrawTaken(c) ==
  /\ Searching /\ c \in Draws(call.parent) /\ Taken(c)
  /\ IF AllEliminated(call.rejected \cup {c}) THEN Loopback
     ELSE call' = [call EXCEPT !.rejected = call.rejected \cup {c}]
  /\ UNCHANGED <<liveInstances, flat, replicas, tries, zones, selectedZones, nodes, pc>>

DrawUnavailable(c) ==
  /\ Searching /\ c \in Draws(call.parent) /\ ~Taken(c) /\ Unavailable(c)
  /\ Loopback
  /\ UNCHANGED <<liveInstances, flat, replicas, tries, zones, selectedZones, nodes, pc>>

DrawNew(c) ==
  /\ Searching /\ c \in Draws(call.parent) /\ ~Taken(c) /\ ~Unavailable(c)
  /\ call' = [call EXCEPT !.selected = Append(call.selected, c), !.left = call.left - 1,
                          !.rejected = {}, !.loopbacks = 0]
  /\ UNCHANGED <<liveInstances, flat, replicas, tries, zones, selectedZones, nodes, pc>>

-----------------------------------------------------------------------------
(* select_replicas and add_replicas_for_attempt.                           *)

\* The first call of an attempt: zones not used yet, or instances not used yet.
FirstCall(count, used) == Call(Root, count, used)

\* Mutant: there is one attempt too many.
EndAttemptLate(list, used) ==
  /\ nodes' = list
  /\ IF Len(list) >= replicas \/ tries + 1 > MaxRetry
     THEN pc' = "done" /\ UNCHANGED call
     ELSE pc' = "search" /\ call' = FirstCall(replicas - Len(list), IF flat THEN Chosen(list) ELSE used)
  /\ tries' = IF Len(list) >= replicas THEN tries ELSE tries + 1

\* The end of an attempt.
EndAttempt(list, used) ==
  /\ nodes' = list
  /\ IF Len(list) >= replicas \/ tries + 1 >= MaxRetry
     THEN pc' = "done" /\ UNCHANGED call
     ELSE pc' = "search" /\ call' = FirstCall(replicas - Len(list), IF flat THEN Chosen(list) ELSE used)
  /\ tries' = IF Len(list) >= replicas THEN tries ELSE tries + 1

FlatCallReturns ==
  /\ pc = "search" /\ call.left = 0 /\ flat
  /\ EndAttempt(nodes \o call.selected, selectedZones)
  /\ UNCHANGED <<liveInstances, flat, replicas, zones, selectedZones>>

\* Mutant: the zones of an attempt are not remembered for the next one.
ZoneCallReturnsForgetful ==
  /\ pc = "search" /\ call.left = 0 /\ ~flat /\ call.parent = Root
  /\ IF call.selected = <<>> THEN EndAttempt(nodes, selectedZones) /\ UNCHANGED zones
     ELSE /\ zones' = Tail(call.selected)
          /\ call' = Call(Head(call.selected), 1, {})
          /\ UNCHANGED <<nodes, tries, pc>>
  /\ UNCHANGED <<liveInstances, flat, replicas, selectedZones>>

\* The zones are known: one end node is looked for in each.
ZoneCallReturns ==
  /\ pc = "search" /\ call.left = 0 /\ ~flat /\ call.parent = Root
  /\ selectedZones' = selectedZones \cup Chosen(call.selected)
  /\ IF call.selected = <<>> THEN EndAttempt(nodes, selectedZones) /\ UNCHANGED zones
     ELSE /\ zones' = Tail(call.selected)
          /\ call' = Call(Head(call.selected), 1, {})
          /\ UNCHANGED <<nodes, tries, pc>>
  /\ UNCHANGED <<liveInstances, flat, replicas>>

EndNodeCallReturns ==
  /\ pc = "search" /\ call.left = 0 /\ ~flat /\ call.parent # Root
  /\ IF zones = <<>>
     THEN EndAttempt(nodes \o call.selected, selectedZones) /\ UNCHANGED zones
     ELSE /\ nodes' = nodes \o call.selected
          /\ zones' = Tail(zones)
          /\ call' = Call(Head(zones), 1, {})
          /\ UNCHANGED <<tries, pc>>
  /\ UNCHANGED <<liveInstances, flat, replicas, selectedZones>>

CrushInit ==
  /\ liveInstances \in SUBSET Instances /\ flat \in BOOLEAN /\ replicas \in Counts
  /\ nodes = <<>> /\ zones = <<>> /\ selectedZones = {} /\ tries = 0
  /\ pc = IF replicas = 0 THEN "done" ELSE "search"
  /\ call = FirstCall(replicas, {})

CrushNext ==
  \/ \E c \in Instances \cup Zones : DrawTaken(c) \/ DrawUnavailable(c) \/ DrawNew(c)
  \/ FlatCallReturns \/ ZoneCallReturns \/ EndNodeCallReturns

CrushSpec == CrushInit /\ [][CrushNext]_crushVars

-----------------------------------------------------------------------------
TreeNodes == Instances \cup Zones

Calls ==
  [parent : Zones \cup {Root}, left : Nat, excluded : SUBSET TreeNodes,
   selected : Seq(TreeNodes), rejected : SUBSET TreeNodes, loopbacks : 0..MaxLoopback]

CrushTypeOK ==
  /\ liveInstances \subseteq Instances /\ flat \in BOOLEAN /\ replicas \in Counts /\ call \in Calls
  /\ tries \in 0..MaxRetry /\ zones \in Seq(Zones) /\ selectedZones \subseteq Zones
  /\ nodes \in Seq(Instances) /\ pc \in {"search", "done"}

Spread(list) == \A j, k \in DOMAIN list : j # k => list[j] # list[k] /\ (flat \/ ZoneOf[list[j]] # ZoneOf[list[k]])

\* compute_crush_assignment: however the hash falls and over however many attempts,
\* a preference list holds live instances only, none twice, no two of one fault
\* zone, and no more than were asked for; and it is shorter only after every retry.
PlacementIsSpread ==
  /\ Spread(nodes) /\ Chosen(nodes) \subseteq liveInstances /\ Len(nodes) <= replicas
  /\ pc = "done" /\ Len(nodes) < replicas => tries = MaxRetry

=============================================================================
