--------------------------- MODULE Administration ---------------------------
(***************************************************************************)
(* Administrators (admin.rs, and the facade over it in cluster.rs): they   *)
(* apply specifications, remove instances and replace transition limits,   *)
(* several at a time and each request by request, while participants come  *)
(* and go and requests fail.  An application that gets an error applies    *)
(* its specification again.  What is declared, written and read back is in *)
(* module Configuration.                                                   *)
(***************************************************************************)
EXTENDS Configuration

CONSTANTS
  Admins,
  AdminInstances, AdminZones, Resources,  \* the names the jobs are about
  Job,           \* what each administrator does, and how often it tries
  MaxTries,      \* ADMIN_CAS_RETRIES
  MaxConfigRev   \* bound on the revisions of the instance configurations

Unset == "none"

VARIABLES
  cluster,    \* controller/cluster
  configs,    \* the instance configurations: their revision and the zones
  resources,  \* controller/resources/<name>: nothing, or one record
  limits,     \* controller/throttles: the records of the transition limits
  liveKeys,   \* the instances that have a live key
  admin

adminVars == <<cluster, configs, resources, limits, liveKeys, admin>>

Applies(a) == Job[a].kind = "apply"

\* What the k-th put of an administrator is about.
InstanceAt(a, k) == Job[a].instances[k]
ResourceAt(a, k) == Job[a].resources[k]

Records(a) == {ResourceRecord(r) : r \in Range(Job[a].resources)}

\* The types of what applications declare (cluster.rs), and of throttles.
DeclaredResource(r) ==
  /\ r.name \in Resources /\ r.partitions \in Nat /\ r.replicas \in Nat
  /\ r.placement.kind \in {"Crush", "SemiAuto"}

DeclaredLimit(limit) ==
  /\ limit.target \in {"Cluster", "Resource", "Instance"}
  /\ limit.type \in {"Any", "RecoveryBalance", "LoadBalance"} /\ limit.max \in Nat

AdministrationAssumption ==
  /\ MaxTries \in Nat \ {0} /\ MaxConfigRev \in Nat /\ Unset \notin AdminZones
  /\ \A a \in Admins :
       /\ Job[a].kind \in {"apply", "remove", "drop"} /\ Job[a].runs \in Nat \ {0}
       /\ Job[a].kind = "remove" => Job[a].instance \in AdminInstances
       /\ IF Applies(a)
          THEN /\ Job[a].instances \in Seq([id : AdminInstances, zone : AdminZones])
               /\ Job[a].resources \in Seq(Range(Job[a].resources))
               /\ \A r \in Range(Job[a].resources) : DeclaredResource(r)
               /\ \A k \in DOMAIN Job[a].limits : DeclaredLimit(Job[a].limits[k])
          ELSE \A k \in DOMAIN Job[a].limits : Job[a].limits[k].max \in Nat

\* The limits an application sets after its specification, or below the facade after
\* a removal.
LimitRecords(a) ==
  [k \in DOMAIN Job[a].limits |->
     IF Applies(a) THEN LimitRecord(Job[a].limits[k]) ELSE ThrottleRecord(Job[a].limits[k])]

Idle(runs) == [pc |-> "start", at |-> 1, seen |-> 0, tries |-> 0, runs |-> runs]

Places ==
  {"start", "join", "begin", "cluster", "instance", "swap", "resource", "put", "remove", "delete", "why",
   "limits", "ok", "error", "invalid"}

AdminStates ==
  [pc : Places, at : Nat, seen : 0..MaxConfigRev, tries : 0..MaxTries, runs : Nat]

\* The resources that applications declare, and what they may write.
AllResources == UNION {Range(Job[a].resources) : a \in {b \in Admins : Applies(b)}}
AllRecords == UNION {Records(a) : a \in {b \in Admins : Applies(b)}}
Contents == {{}} \cup {{s} : s \in AllRecords}
LimitLists == {<<>>} \cup {LimitRecords(a) : a \in Admins}

AdminTypeOK ==
  /\ cluster \in {Job[a].config.cluster : a \in Admins} \cup {Unset}
  /\ configs \in [rev : 0..MaxConfigRev, zone : [AdminInstances -> AdminZones \cup {Unset}]]
  /\ resources \in [Resources -> Contents]
  /\ limits \in LimitLists
  /\ liveKeys \subseteq AdminInstances
  /\ admin \in [Admins -> AdminStates]
  /\ \A a \in Admins : admin[a].runs \in 1..Job[a].runs

-----------------------------------------------------------------------------
Moves(a, pc, at, seen, tries) ==
  admin' = [admin EXCEPT ![a] =
    [pc |-> pc, at |-> at, seen |-> seen, tries |-> tries, runs |-> admin[a].runs]]

Go(a, pc) == Moves(a, pc, admin[a].at, 0, 0)

\* Cluster::connect.  (The marker it initialises is in module Store.)
Connect(a) ==
  LET config == Job[a].config
  IN /\ admin[a].pc = "start"
     /\ Go(a, CASE ~ValidConfig(config)   -> "invalid"
                [] ConnectAccepts(config) -> "join"
                [] OTHER                  -> "error")
     /\ UNCHANGED <<cluster, configs, resources, limits, liveKeys>>

\* apply, remove_instance and remove_resource begin; resources cannot be removed.
Begin(a) ==
  /\ admin[a].pc = "begin"
  /\ Go(a, CASE Job[a].kind = "apply"  ->
                  IF ValidSpec(Job[a].instances, Job[a].resources) THEN "cluster" ELSE "invalid"
             [] Job[a].kind = "remove" -> "remove"
             [] Job[a].kind = "drop"   -> "invalid")
  /\ UNCHANGED <<cluster, configs, resources, limits, liveKeys>>

\* What follows the puts of k resources, or of k instances.
Finally(a) == IF Job[a].limits # <<>> THEN "limits" ELSE "ok"

AfterResources(a, k) ==
  IF k < Len(Job[a].resources) THEN <<"resource", k + 1>> ELSE <<Finally(a), 1>>

AfterInstances(a, k) ==
  IF k < Len(Job[a].instances) THEN <<"instance", k + 1>> ELSE AfterResources(a, 0)

Continue(a, next) == Moves(a, next[1], next[2], 0, 0)

\* compare_and_put_absent, on the name of the cluster.
PutClusterIfAbsent(name) == cluster = Unset /\ cluster' = name

\* ensure_cluster, for connect and again for apply: the name is put, or there already.
EnsureCluster(a) ==
  LET name == Job[a].config.cluster
  IN /\ admin[a].pc \in {"join", "cluster"}
     /\ \/ /\ PutClusterIfAbsent(name) \/ (cluster = name /\ UNCHANGED cluster)
           /\ Continue(a, IF admin[a].pc = "join" THEN <<"begin", 1>> ELSE AfterInstances(a, 0))
        \/ /\ cluster \notin {Unset, name}
           /\ Go(a, "error")
           /\ UNCHANGED cluster
     /\ UNCHANGED <<configs, resources, limits, liveKeys>>

\* put_instance reads the configurations; nothing is written if they have the
\* instance as it should be.
ReadInstances(a) ==
  LET k == admin[a].at  i == InstanceAt(a, k)
  IN /\ admin[a].pc = "instance"
     /\ \/ configs.zone[i.id] = i.zone /\ Continue(a, AfterInstances(a, k))
        \/ /\ configs.zone[i.id] # i.zone
           /\ Moves(a, "swap", k, configs.rev, admin[a].tries)
     /\ UNCHANGED <<cluster, configs, resources, limits, liveKeys>>

\* Somebody else has written the configurations since they were read.
TryAgain(a, pc) ==
  \/ admin[a].tries + 1 = MaxTries /\ Go(a, "error")
  \/ admin[a].tries + 1 # MaxTries /\ Moves(a, pc, admin[a].at, 0, admin[a].tries + 1)

\* compare_and_put and compare_and_put_absent, on the configurations as they were seen;
\* revision 0 stands for their absence.
CompareAndPut(a, i, zone) ==
  /\ configs.rev = admin[a].seen /\ configs.rev < MaxConfigRev
  /\ configs' = [rev |-> configs.rev + 1, zone |-> [configs.zone EXCEPT ![i] = zone]]

SwapInstances(a) ==
  LET k == admin[a].at  i == InstanceAt(a, k)
  IN /\ admin[a].pc = "swap"
     /\ \/ /\ CompareAndPut(a, i.id, i.zone)
           /\ Continue(a, AfterInstances(a, k))
        \/ /\ configs.rev # admin[a].seen
           /\ TryAgain(a, "instance")
           /\ UNCHANGED configs
     /\ UNCHANGED <<cluster, resources, limits, liveKeys>>

\* put_resource reads the resource and puts it if it differs.
ReadResource(a) ==
  LET k == admin[a].at  r == ResourceAt(a, k)  record == ResourceRecord(r)
  IN /\ admin[a].pc = "resource"
     /\ \/ ~AcceptedResource(r) /\ Go(a, "error")
        \/ AcceptedResource(r) /\ resources[r.name] = {record} /\ Continue(a, AfterResources(a, k))
        \/ /\ AcceptedResource(r) /\ resources[r.name] # {record}
           /\ Go(a, "put")
     /\ UNCHANGED <<cluster, configs, resources, limits, liveKeys>>

\* Mutant: the put of a resource is left out.
SkipResource(a) ==
  /\ admin[a].pc = "put"
  /\ Continue(a, AfterResources(a, admin[a].at))
  /\ UNCHANGED <<cluster, configs, resources, limits, liveKeys>>

PutResource(a) ==
  LET k == admin[a].at  r == ResourceAt(a, k)
  IN /\ admin[a].pc = "put"
     /\ resources' = [resources EXCEPT ![r.name] = {ResourceRecord(r)}]
     /\ Continue(a, AfterResources(a, k))
     /\ UNCHANGED <<cluster, configs, limits, liveKeys>>

\* remove_instance.
ReadForRemoval(a) ==
  /\ admin[a].pc = "remove"
  /\ \/ configs.zone[Job[a].instance] = Unset /\ Go(a, Finally(a))
     \/ /\ configs.zone[Job[a].instance] # Unset
        /\ Moves(a, "delete", admin[a].at, configs.rev, admin[a].tries)
  /\ UNCHANGED <<cluster, configs, resources, limits, liveKeys>>

\* compare_and_put_if_live_absent: the transaction asks for the revision and for the
\* absence of the live key.
CompareAndPutIfLiveAbsent(a, i) == i \notin liveKeys /\ CompareAndPut(a, i, Unset)

DeleteInstance(a) ==
  LET i == Job[a].instance
  IN /\ admin[a].pc = "delete"
     /\ \/ /\ CompareAndPutIfLiveAbsent(a, i)
           /\ Go(a, Finally(a))
        \/ /\ configs.rev # admin[a].seen \/ i \in liveKeys
           /\ Moves(a, "why", admin[a].at, 0, admin[a].tries)
           /\ UNCHANGED configs
     /\ UNCHANGED <<cluster, resources, limits, liveKeys>>

\* It has failed: is it because the instance is live?  By now it may be, or
\* be no more.
LiveSession(a) ==
  /\ admin[a].pc = "why"
  /\ IF Job[a].instance \in liveKeys THEN Go(a, "error") ELSE TryAgain(a, "remove")
  /\ UNCHANGED <<cluster, configs, resources, limits, liveKeys>>

\* set_transition_limits and put_transition_limits.
PutTransitionLimits(a) ==
  /\ admin[a].pc = "limits" /\ Applies(a)
  /\ IF \A k \in DOMAIN Job[a].limits : ValidLimit(Job[a].limits[k])
     THEN limits' = LimitRecords(a) /\ Go(a, "ok")
     ELSE UNCHANGED limits /\ Go(a, "invalid")
  /\ UNCHANGED <<cluster, configs, resources, liveKeys>>

\* put_throttles.
PutThrottles(a) ==
  /\ admin[a].pc = "limits" /\ ~Applies(a)
  /\ IF \A k \in DOMAIN Job[a].limits : ValidThrottle(Job[a].limits[k])
     THEN limits' = LimitRecords(a) /\ Go(a, "ok")
     ELSE UNCHANGED limits /\ Go(a, "invalid")
  /\ UNCHANGED <<cluster, configs, resources, liveKeys>>

\* Any request may fail, before it takes effect or, with only its answer lost, after
\* that: also the last one, which has brought the administrator to "ok".
RequestFails(a) ==
  /\ admin[a].pc \notin {"start", "error", "invalid"}
  /\ Go(a, "error")
  /\ UNCHANGED <<cluster, configs, resources, limits, liveKeys>>

\* The application runs its job again.
Rerun(a) ==
  /\ admin[a].pc = "error" /\ admin[a].runs < Job[a].runs
  /\ admin' = [admin EXCEPT ![a] = Idle(admin[a].runs + 1)]
  /\ UNCHANGED <<cluster, configs, resources, limits, liveKeys>>

ParticipantComesOrGoes(i) ==
  /\ liveKeys' = IF i \in liveKeys THEN liveKeys \ {i} ELSE liveKeys \cup {i}
  /\ UNCHANGED <<cluster, configs, resources, limits, admin>>

-----------------------------------------------------------------------------
AdminInit ==
  /\ cluster = Unset /\ configs = [rev |-> 0, zone |-> [i \in AdminInstances |-> Unset]]
  /\ resources = [r \in Resources |-> {}] /\ limits = <<>> /\ liveKeys = {}
  /\ admin = [a \in Admins |-> Idle(1)]

AdminNext ==
  \/ \E a \in Admins :
       \/ Connect(a) \/ EnsureCluster(a) \/ Begin(a) \/ ReadInstances(a) \/ SwapInstances(a)
       \/ ReadResource(a) \/ PutResource(a) \/ ReadForRemoval(a) \/ DeleteInstance(a) \/ LiveSession(a)
       \/ PutTransitionLimits(a) \/ PutThrottles(a) \/ RequestFails(a) \/ Rerun(a)
  \/ \E i \in AdminInstances : ParticipantComesOrGoes(i)

AdminSpec == AdminInit /\ [][AdminNext]_adminVars

-----------------------------------------------------------------------------
\* Somebody else's job is about the same instance, or the same resource.
Contested(a, i) ==
  \E b \in Admins \ {a} :
    \/ Job[b].kind = "remove" /\ Job[b].instance = i
    \/ Applies(b) /\ \E k \in DOMAIN Job[b].instances : Job[b].instances[k].id = i

ContestedResource(a, r) ==
  \E b \in Admins \ {a} : Applies(b) /\ \E k \in DOMAIN Job[b].resources : Job[b].resources[k].name = r

InstanceStored(a, k) ==
  LET i == InstanceAt(a, k) IN configs.zone[i.id] = i.zone \/ Contested(a, i.id)

ResourceStored(a, k) ==
  LET r == ResourceAt(a, k) IN resources[r.name] = {ResourceRecord(r)} \/ ContestedResource(a, r.name)

InstancesStored(a) == \A k \in DOMAIN Job[a].instances : InstanceStored(a, k)

Stored(a) == InstancesStored(a) /\ \A k \in DOMAIN Job[a].resources : ResourceStored(a, k)

\* What a resource asks for, as the controller has to find it in the record.
Asked(r, record) ==
  /\ record.replicas = r.replicas
  /\ IF r.placement.kind = "SemiAuto" THEN record.lists = r.placement.lists
     ELSE /\ Len(record.partitions) = r.partitions
          /\ LET t == TopologyOf(record)
             IN  IF r.placement.topology = {} THEN t.zone = t.node ELSE t \in r.placement.topology

\* Nobody checks a topology before the controller does, and CRUSH needs instances, all
\* live ones among them.
Unplaceable(record, zoneOf) ==
  /\ record.kind = "CRUSH"
  /\ ~SupportedTopology(TopologyOf(record)) \/ DOMAIN zoneOf = {} \/ ~(liveKeys \subseteq DOMAIN zoneOf)

\* Controller and participants have no reason to give up over what is stored.
Planned ==
  LET configured == {i \in AdminInstances : configs.zone[i] # Unset}
      zoneOf == [i \in configured |-> configs.zone[i]]
  IN  \A key \in Resources : \A record \in resources[key] :
        /\ Plannable(key, record, zoneOf, liveKeys) \/ Unplaceable(record, zoneOf)
        /\ StateModelFor(record) # {}

\* Limits set through the facade are enforced as they were set.
Enforced ==
  \A k \in DOMAIN limits : \A a \in Admins : Applies(a) /\ limits = LimitRecords(a) =>
    /\ ThrottleAccepted(limits[k])
    /\ LET limit == Job[a].limits[k]  config == ThrottleConfig(limits[k]) IN
       /\ config.max = limit.max
       /\ config.name = IF limit.target = "Cluster" THEN Absent ELSE limit.name

\* A specification whose apply has returned is stored, although other
\* administrators were at work and earlier runs failed half-way, but for
\* entries that another job is about as well (Admin::apply); and the controller plans
\* with all that is stored and finds in it what was declared (put_resource and
\* put_transition_limits against resource_plans and throttles).
AppliedIsPlanned ==
  /\ \A a \in Admins : admin[a].pc = "ok" /\ Applies(a) => Stored(a)
  /\ \A r \in AllResources : \A record \in resources[r.name] : record = ResourceRecord(r) => Asked(r, record)
  /\ Planned /\ Enforced

=============================================================================
