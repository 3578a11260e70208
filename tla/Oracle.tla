------------------------------- MODULE Oracle -------------------------------
(***************************************************************************)
(* The chaos driver's judgement of a cluster (tools/clustodian-chaos,      *)
(* check_safety and check_convergence), applied to the store of the        *)
(* control plane as an observer reads it in one snapshot.  A check returns *)
(* the names of the violations it reports.                                 *)
(***************************************************************************)
EXTENDS Observation

\* The processed revision has reached the authoritative revision.
CaughtUp == processed >= marker

\* Mutant: the queue is judged although the controller lags behind.
CheckSafetyLagging ==
  {n \in {"pending_transition_session"} : \E m \in queue : live[m.inst] # m.sess}

\* check_safety.
CheckSafety ==
  LET reported == ActiveCurrentStates
      leading(p) == {i \in DOMAIN reported : reported[i].states[p] = "LEADER"}
  IN {n \in {"single_authoritative_controller", "current_state_session",
             "current_state_live_instance", "current_state_single_leader",
             "pending_transition_session", "single_leader"} :
        CASE n = "single_authoritative_controller" -> Cardinality(ActiveControllers) > 1
          [] n = "current_state_session" ->
               \E i \in DOMAIN reported : live[i] \notin {0, reported[i].session}
          [] n = "current_state_live_instance" -> \E i \in DOMAIN reported : live[i] = 0
          [] n = "current_state_single_leader" -> \E p \in Partitions : Cardinality(leading(p)) > 1
          [] n = "pending_transition_session" -> CaughtUp /\ \E m \in queue : live[m.inst] # m.sess
          [] n = "single_leader" ->
               \E p \in Partitions :
                 Cardinality({i \in Replicas(p) : Published(p, i) = "LEADER" /\ live[i] # 0}) > 1}

\* check_derived_state.
DerivedStateInvalid ==
  CaughtUp /\ \E p \in Partitions, i \in Instances : Published(p, i) # ActiveStates(i)[p]

\* The routing that check_convergence expects: the replicas of a partition by their
\* states, whatever instances are configured.
ExpectedRouting ==
  UNION {{[partition |-> p, state |-> s, instances |-> {i \in Replicas(p) : Published(p, i) = s}] :
            s \in {Published(p, i) : i \in Replicas(p)}} :
         p \in Partitions}

RoutingDiffers == RoutingResults(Routing) # ExpectedRouting

\* expected_best_possible_state: the assignment of the live instances from an empty
\* CurrentState.
EmptySnapshot == [Snapshot EXCEPT !.states = [i \in Instances |-> NoReplicas]]

ExpectedBestPossibleState(p, i) ==
  IF i \in LiveInstances(Snapshot) /\ Preferred(EmptySnapshot, p, i)
  THEN BestPossibleState(EmptySnapshot, p, i) ELSE ABSENT

\* eligible_live_count.
EligibleLiveCount(p) ==
  Cardinality({i \in LiveInstances(Snapshot) : Preferred(Snapshot, p, i)})

\* The last part of check_convergence, for every configured partition.  Every placement
\* asks for as many replicas as its list is long.
UnsettledPartitions ==
  {n \in {"settled_partition_present", "settled_replica_cardinality", "settled_single_leader"} :
     \E p \in Partitions :
       CASE n = "settled_partition_present" -> Replicas(p) = {} /\ EligibleLiveCount(p) > 0
         [] n = "settled_replica_cardinality" ->
              Replicas(p) # {} /\ Cardinality(Replicas(p)) # EligibleLiveCount(p)
         [] n = "settled_single_leader" ->
              /\ Replicas(p) # {} /\ EligibleLiveCount(p) > 0
              /\ Cardinality({i \in Replicas(p) : Published(p, i) = "LEADER"}) # 1}

\* check_convergence.
CheckConvergence ==
  {n \in {"one_active_controller", "no_pending_transitions", "controller_caught_up",
          "external_view_matches_current_state", "external_view_matches_best_possible_state",
          "routing_matches_external_view"} :
     CASE n = "one_active_controller" -> Cardinality(ActiveControllers) # 1
       [] n = "no_pending_transitions" -> queue # {}
       [] n = "controller_caught_up" -> ~CaughtUp
       [] n = "external_view_matches_current_state" -> DerivedStateInvalid
       [] n = "external_view_matches_best_possible_state" ->
            \E p \in Partitions, i \in Instances :
              Published(p, i) # ExpectedBestPossibleState(p, i)
       [] n = "routing_matches_external_view" -> RoutingDiffers}
    \union UnsettledPartitions

-----------------------------------------------------------------------------
\* The safety check of the chaos driver, which it runs after every action, never
\* accuses a correct control plane, with one exception: between the end of a lease and
\* the controller's record of it, the processed revision equals the authoritative one,
\* and a transition for the ended session counts as a violation.
OracleIsSilent ==
  CheckSafety \subseteq IF deleted > marker THEN {"pending_transition_session"} ELSE {}

\* Applications never find two leaders to route to, although the view and the instance
\* configurations are separate keys with separate writers; the typed routing, which has
\* no configurations, answers every query as the one with them (try_routing against
\* routing_results); and a controller that has caught up leaves nobody in the view whom
\* routing has to pass over.  If no lease has ended since, the routed leader is the
\* instance that reports LEADER, and all routed replicas are live.
RoutingIsSound ==
  /\ \A p \in Partitions :
       /\ Leader(Routing, p).ok
       /\ \A s \in ReplicaStates : InstancesFor(TryRouting, p, s) = InstancesFor(Routing, p, s)
       /\ CaughtUp /\ deleted < marker =>
            /\ Leader(Routing, p).instances = {i \in Instances : ActiveStates(i)[p] = "LEADER"}
            /\ \A i \in ReplicasOf(Routing, p) : live[i] # 0
  /\ CaughtUp => ~RoutingDiffers

\* What the chaos driver and the applications conclude from a single observation is right.
ObservationIsSound == OracleIsSilent /\ RoutingIsSound

\* The settled-state contract of the chaos driver: whatever crashed, expired or was lost,
\* once faults stop every participant is live again and check_convergence has nothing
\* more to report of replicas, queue, view and processed revision.  (That a controller
\* takes the place of one that lost its lease is a property of the election; a cluster
\* that has converged does not need it.)  A replica in ERROR, to which nothing is sent
\* any more, never converges: that takes a handler that fails, and the one fault of the
\* instance checked is spent before any handler runs.
Convergence ==
  <>[]((\A i \in Instances : live[i] # 0) /\ CheckConvergence \subseteq {"one_active_controller"})

=============================================================================
