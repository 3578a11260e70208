----------------------------- MODULE Observation -----------------------------
(***************************************************************************)
(* What an observer makes of one snapshot of the store (observe.rs), and   *)
(* the routing that applications derive from it (routing/snapshot.rs).     *)
(* A routing snapshot holds an ExternalView, with the partitions and       *)
(* instances that have an entry, and the instances it may name.            *)
(***************************************************************************)
EXTENDS ControlPlane

\* The ExternalView value an observer reads; nothing before the first publication.
Published(p, i) == IF view = NoView THEN ABSENT ELSE view[p][i]

Replicas(p) == {i \in Instances : Published(p, i) # ABSENT}

\* external_view_model.
ExternalViewModel ==
  [p \in {q \in Partitions : Replicas(q) # {}} |-> [i \in Replicas(p) |-> Published(p, i)]]

\* controllers: the holder of the active key, if there is one.
ActiveControllers == {active.controller} \ {"none"}

\* active_current_state: the session of each live instance and what it reports.
ActiveCurrentStates ==
  [i \in {j \in Instances : live[j] # 0} |-> [session |-> live[i], states |-> current[live[i]]]]

\* configured_instances.
ConfiguredInstances == configured

FromExternalView(external, instances) == [external |-> external, configured |-> instances]

\* routing_snapshot.
Routing == FromExternalView(ExternalViewModel, ConfiguredInstances)

\* instances_for.
InstancesFor(routing, p, state) ==
  IF p \notin DOMAIN routing.external THEN {}
  ELSE {i \in DOMAIN routing.external[p] :
          routing.external[p][i] = state /\ i \in routing.configured}

\* leader: the sole leader, none, or the error MultipleLeaders.
Leader(routing, p) ==
  LET leaders == InstancesFor(routing, p, "LEADER")
  IN  [ok |-> Cardinality(leaders) <= 1, instances |-> leaders]

\* replicas.
ReplicasOf(routing, p) ==
  InstancesFor(routing, p, "LEADER") \union InstancesFor(routing, p, "STANDBY")

\* routing_results: an answer for every state that some replica of a partition is in.
RoutingResults(routing) ==
  UNION {{[partition |-> p, state |-> s, instances |-> InstancesFor(routing, p, s)] :
            s \in {routing.external[p][i] : i \in DOMAIN routing.external[p]}} :
         p \in DOMAIN routing.external}

\* try_routing: the typed routing of a ClusterSnapshot, which keeps no instance
\* configurations: their place is taken by the instances that the results name.
TryRouting ==
  FromExternalView(ExternalViewModel, UNION {r.instances : r \in RoutingResults(Routing)})

=============================================================================
