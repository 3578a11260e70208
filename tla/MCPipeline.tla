----------------------------- MODULE MCPipeline -----------------------------
(***************************************************************************)
(* Two instances of the planning cycles side by side: three instances and  *)
(* one partition under a limit on load balancing, and two instances and    *)
(* two partitions (Pair) under limits of several scopes.                   *)
(***************************************************************************)
EXTENDS Pipeline, TLC

CONSTANTS n1, n2, n3, p1, p2

VARIABLE part

\* SEMI_AUTO records by their lists; the resource of "gone" keeps a partition
\* that is not modelled.
MCPreferenceLists(r, C, L) ==
  CASE r = "three" -> (p1 :> <<n1, n2, n3>>)
    [] r = "pair"  -> (p1 :> <<n3, n2>>)
    [] r = "gone"  -> (p1 :> NoList)

PairPreferenceLists(r, C, L) ==
  CASE r = "crossed" -> (p1 :> <<n1, n2>>) @@ (p2 :> <<n2, n1>>)
    [] r = "last"    -> (p1 :> <<n2>>) @@ (p2 :> <<n2>>)

PartitionSeq == <<p1>>

InstanceSeq == <<n1, n2, n3>>

OneResource == [p \in {p1, p2} |-> "documents"]

Limit(scope, target, type, max) == [scope |-> scope, target |-> target, type |-> type, max |-> max]

\* One transition for each instance but n2, which has two, and two for the
\* resource.
Mixed ==
  << Limit("INSTANCE", Every, "ANY", 1), Limit("RESOURCE", "documents", "ANY", 2),
     Limit("INSTANCE", n2, "ANY", 2) >>

\* One load-balancing transition in the cluster.
OneLoad == << Limit("CLUSTER", Every, "LOAD_BALANCE", 1) >>

Pair == INSTANCE Pipeline WITH
  Instances <- {n1, n2}, Partitions <- {p1, p2}, Placements <- {"crossed", "last"},
  InitPlacement <- "crossed", PreferenceLists <- PairPreferenceLists,
  PartitionOrder <- <<p1, p2>>, InstanceOrder <- <<n1, n2>>, Limits <- Mixed

PlanningInit == \/ part = "three" /\ Init
                \/ part = "pair" /\ Pair!Init

PlanningNext ==
  /\ UNCHANGED part
  /\ \/ part = "three" /\ Next
     \/ part = "pair" /\ Pair!Next

allVars == <<part, vars>>

PlanningSpec == PlanningInit /\ [][PlanningNext]_allVars

\* The controller of Pair keeps reconciling, its participants answer and come back.
\* The first conjunct is weak fairness of Cycle with its ENABLED spelled out.
PairFairness ==
  /\ []<>(part = "three" \/ Pair!AtRest) \/ []<><<part = "pair" /\ Pair!Cycle>>_vars
  /\ \A p \in {p1, p2}, i \in {n1, n2} :
       WF_vars(part = "pair" /\ \E m \in queue : m.part = p /\ m.inst = i /\ (Pair!Complete(m) \/ Pair!Cleanup(m)))
  /\ \A i \in {n1, n2} : WF_vars(part = "pair" /\ Pair!Register(i))

PlanningFairSpec == PlanningSpec /\ PairFairness

\* The properties of Pipeline for both parts.  The loops of the code compute what Planner
\* says (compute_semi_auto_best_possible_state, select_transitions).
StagesAgree == IF part = "three" THEN StagesMatchPlanner ELSE Pair!StagesMatchPlanner

\* A cycle past startup adds nothing beyond a limit (should_throttle, charge_pending).
LimitsKept ==
  [][IF part = "three" THEN NewWorkWithinLimits ELSE Pair!NewWorkWithinLimits]_allVars

\* A cycle withholds nothing without need, a missing LEADER least of all
\* (required_states, rebalance_type).
NothingWithheld == [][IF part = "three" THEN WorkConserving ELSE Pair!WorkConserving]_allVars

\* With limits of at least one, sessions that stay up and a controller that stays, every
\* replica reaches its target (compute_intermediate_and_throttle).
Settles == <>[](part = "pair" => Pair!Settled)

=============================================================================
