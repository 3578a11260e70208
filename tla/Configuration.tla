---------------------------- MODULE Configuration ----------------------------
(***************************************************************************)
(* What an application declares (cluster.rs), the records the              *)
(* administrator writes for it (admin.rs), and what the controller makes   *)
(* of them (controller/runtime.rs, model/ideal_state.rs,                   *)
(* rebalance/crush.rs).  A record the controller cannot decode ends its    *)
(* process.                                                                *)
(*                                                                         *)
(* A topology's path is the sequence of its components; "" is the empty    *)
(* name, which no identifier may be, and Absent a name that is left out; a *)
(* topology is a set of at most one.                                       *)
(* The hash that places CRUSH replicas is in module Crush.                 *)
(***************************************************************************)
EXTENDS Integers, Sequences, FiniteSets, Functions

Absent == "absent"

------------------------------------------------------------------------------
(* Declarations.                                                            *)

ValidId(name) == name # ""

\* ClusterConfig::validate.
ValidConfig(config) ==
  /\ ValidId(config.cluster) /\ ValidId(config.namespace)
  /\ config.endpoints # <<>> /\ \A k \in DOMAIN config.endpoints : ValidId(config.endpoints[k])

\* normalize_prefix: without the slashes at the end, of which "/" has nothing else.
NormalizePrefix(namespace) == IF namespace = "/" THEN "" ELSE namespace

\* The checks of connect_endpoints_with_options, which follow those of the facade.
ConnectAccepts(config) == ValidConfig(config) /\ ValidId(NormalizePrefix(config.namespace))

\* InstanceSpec.
Instance(id) == [id |-> id, zone |-> "default"]

\* Topology::new and Topology::zones.
Topology(path, zone, node) == [path |-> path, zone |-> zone, node |-> node]
ZonesTopology == Topology(<<"zone", "instance">>, "zone", "instance")

\* Placement.
Crush == [kind |-> "Crush", topology |-> {}, lists |-> <<>>]
CrushWithTopology(topology) == [Crush EXCEPT !.topology = {topology}]
SemiAuto(lists) == [kind |-> "SemiAuto", topology |-> {}, lists |-> lists]

\* ResourceSpec::leader_standby; partitions, replicas and placement replace its fields.
LeaderStandbyResource(name) ==
  [name |-> name, partitions |-> 0, replicas |-> 0, placement |-> Crush]

\* TransitionLimit.
Limit(target, name, max) == [target |-> target, name |-> name, type |-> "Any", max |-> max]

\* ClusterSpec::validate, for a resource.
ValidResource(r) ==
  LET lists == r.placement.lists IN
  /\ ValidId(r.name) /\ r.partitions > 0 /\ r.replicas > 0
  /\ r.placement.kind = "SemiAuto" =>
       /\ Cardinality(DOMAIN lists) = r.partitions
       /\ \A p \in DOMAIN lists : Len(lists[p]) = r.replicas /\ IsInjective(lists[p])

\* ClusterSpec::validate.
ValidSpec(instances, resources) ==
  /\ \A k \in DOMAIN instances : ValidId(instances[k].id) /\ instances[k].zone # ""
  /\ IsInjective([k \in DOMAIN instances |-> instances[k].id])
  /\ \A k \in DOMAIN resources : ValidResource(resources[k])
  /\ IsInjective([k \in DOMAIN resources |-> resources[k].name])

\* TransitionLimit::into_low_level.
ValidLimit(limit) == limit.max > 0 /\ (limit.target # "Cluster" => ValidId(limit.name))

------------------------------------------------------------------------------
(* Records.                                                                 *)

\* put_resource checks what validate checks, and the names in the lists.
AcceptedResource(r) ==
  LET lists == r.placement.lists IN
  /\ ValidResource(r)
  /\ \A p \in DOMAIN lists : ValidId(p) /\ \A k \in DOMAIN lists[p] : ValidId(lists[p][k])

\* The record put_resource writes; it names the partitions of a CRUSH resource.
ResourceRecord(r) ==
  LET crush == r.placement.kind = "Crush" IN
  [ name |-> r.name, model |-> "LeaderStandby",
    kind |-> IF crush THEN "CRUSH" ELSE "SEMI_AUTO",
    replicas |-> r.replicas,
    partitions |-> IF crush THEN [k \in 1..r.partitions |-> <<r.name, k - 1>>] ELSE <<>>,
    lists |-> r.placement.lists, topology |-> r.placement.topology ]

\* TransitionLimitRecord::from.
LimitRecord(limit) ==
  [ scope    |-> CASE limit.target = "Cluster"  -> "CLUSTER"
                   [] limit.target = "Resource" -> "RESOURCE"
                   [] limit.target = "Instance" -> "INSTANCE",
    resource |-> IF limit.target = "Resource" THEN limit.name ELSE Absent,
    instance |-> IF limit.target = "Instance" THEN limit.name ELSE Absent,
    type     |-> CASE limit.type = "Any"             -> "ANY"
                   [] limit.type = "RecoveryBalance" -> "RECOVERY_BALANCE"
                   [] limit.type = "LoadBalance"     -> "LOAD_BALANCE",
    max      |-> limit.max ]

\* put_throttles, the interface below the facade: scope and type are free text.
ValidThrottle(throttle) == throttle.max > 0 /\ throttle.scope # ""

ThrottleRecord(throttle) ==
  [ scope |-> throttle.scope, resource |-> Absent, instance |-> Absent, type |-> throttle.type,
    max |-> throttle.max ]

------------------------------------------------------------------------------
(* The controller's side.                                                   *)

\* CrushTopology::validate.
SupportedTopology(t) ==
  \/ t.path = <<t.node>> /\ t.zone = t.node
  \/ t.path = <<t.zone, t.node>>

\* The topology resource_plans uses: without one every instance is a fault zone.
TopologyOf(record) ==
  IF record.topology = {} THEN Topology(<<"instance">>, "instance", "instance")
  ELSE CHOOSE t \in record.topology : TRUE

\* instance_configs and CrushInstance::new: zoneOf gives every configured instance its zone.
ValidConfigs(zoneOf) == \A i \in DOMAIN zoneOf : ValidId(i) /\ zoneOf[i] # ""

\* The checks of compute_crush_assignment.
CrushAccepts(record, zoneOf, live) ==
  /\ SupportedTopology(TopologyOf(record))
  /\ record.partitions # <<>> /\ IsInjective(record.partitions)
  /\ DOMAIN zoneOf # {} /\ live \subseteq DOMAIN zoneOf

\* IdealStateBuilder: set_preference_list and build.
IdealStateBuilds(replicas, lists) ==
  /\ DOMAIN lists # {}
  /\ \A p \in DOMAIN lists : Len(lists[p]) = replicas /\ IsInjective(lists[p])

\* resource_plans, for the record under a key.
Plannable(key, record, zoneOf, live) ==
  /\ ValidConfigs(zoneOf)
  /\ record.name = key /\ ValidId(key) /\ record.model = "LeaderStandby"
  /\ \/ record.kind = "CRUSH" /\ CrushAccepts(record, zoneOf, live)
     \/ /\ record.kind = "SEMI_AUTO"
        /\ \A p \in DOMAIN record.lists :
             ValidId(p) /\ \A k \in DOMAIN record.lists[p] : ValidId(record.lists[p][k])
        /\ IdealStateBuilds(record.replicas, record.lists)

\* state_model_for: the participant's reading of the record, for each transition.
StateModelFor(record) == IF record.model = "LeaderStandby" THEN {"LeaderStandby"} ELSE {}

\* throttles: which records the controller accepts.
ThrottleAccepted(record) ==
  /\ record.scope \in {"CLUSTER", "RESOURCE", "INSTANCE"}
  /\ record.type \in {"ANY", "RECOVERY_BALANCE", "LOAD_BALANCE"}
  /\ record.max # 0
  /\ record.scope # "RESOURCE" => record.resource = Absent
  /\ record.scope # "INSTANCE" => record.instance = Absent
  /\ record.resource # Absent => ValidId(record.resource)
  /\ record.instance # Absent => ValidId(record.instance)

\* throttles: one without a name limits every resource, or every instance.
ThrottleConfig(record) ==
  [ scope |-> record.scope, type |-> record.type, max |-> record.max,
    name |-> IF record.scope = "RESOURCE" THEN record.resource
             ELSE IF record.scope = "INSTANCE" THEN record.instance ELSE Absent ]

=============================================================================
