------------------------ MODULE AdminPlacementProofs ------------------------
(***************************************************************************)
(* Proofs about administrators, for any number of them, any jobs, and any  *)
(* bound on the attempts and the revisions; and about CRUSH placement, for *)
(* every topology, every set of live instances, every replica count, and   *)
(* every bound on retries and on loopbacks.                                *)
(***************************************************************************)
EXTENDS Administration, Crush, FiniteSetTheorems, TLAPS

\* A leaf goes to Zenon; one that needs arithmetic, or the theory of functions
\* and records, cites SMT.
USE ZenonT(60)
-----------------------------------------------------------------------------
(***************************************************************************)
(* Administrators.                                                         *)
(*                                                                         *)
(* AppliedIsPlanned speaks of an apply that has returned.  AdminInv        *)
(* follows one on its way: what it has put so far is stored, unless        *)
(* another job is about the same entry; and what it is about to put has    *)
(* passed the checks, so that everything stored has.                       *)
(***************************************************************************)
\* The configured instances have passed ClusterSpec::validate.
ConfigsOK ==
  \A i \in AdminInstances : configs.zone[i] # Unset => ValidId(i) /\ configs.zone[i] # ""

\* A stored resource was declared under its name and accepted by put_resource.
Accepted(b, k) == Applies(b) /\ k \in DOMAIN Job[b].resources /\ AcceptedResource(ResourceAt(b, k))

RecordsOK ==
  \A key \in Resources : \A record \in resources[key] :
    \E b \in Admins : \E k \in DOMAIN Job[b].resources :
      Accepted(b, k) /\ key = ResourceAt(b, k).name /\ record = ResourceRecord(ResourceAt(b, k))

\* The stored limits have passed into_low_level or put_throttles.
SoundRecord(record) ==
  /\ record.max # 0
  /\ record.resource # Absent => ValidId(record.resource)
  /\ record.instance # Absent => ValidId(record.instance)

LimitsOK == \A k \in DOMAIN limits : SoundRecord(limits[k])

\* How far an administrator has got.
ProgressOK(a) ==
  /\ admin[a].pc \in {"cluster", "instance", "swap", "resource", "put"} =>
       Applies(a) /\ ValidSpec(Job[a].instances, Job[a].resources)
  /\ admin[a].pc \in {"remove", "delete", "why"} => Job[a].kind = "remove"
  /\ admin[a].pc \in {"instance", "swap"} =>
       /\ admin[a].at \in DOMAIN Job[a].instances
       /\ \A k \in 1..(admin[a].at - 1) : InstanceStored(a, k)
  /\ admin[a].pc \in {"resource", "put"} =>
       /\ admin[a].at \in DOMAIN Job[a].resources
       /\ InstancesStored(a) /\ \A k \in 1..(admin[a].at - 1) : ResourceStored(a, k)
  /\ admin[a].pc = "put" => AcceptedResource(ResourceAt(a, admin[a].at))
  /\ admin[a].pc \in {"limits", "ok"} /\ Applies(a) => Stored(a)
  /\ admin[a].tries < MaxTries

AdminInv ==
  /\ AdminTypeOK /\ ConfigsOK /\ RecordsOK /\ LimitsOK
  /\ \A a \in Admins : ProgressOK(a)

-----------------------------------------------------------------------------
(* The jobs.                                                               *)

\* A sequence has its entries in its set.
LEMMA Entry ==
  ASSUME NEW S, NEW s \in Seq(S), NEW k \in 1..Len(s)
  PROVE  s[k] \in S
  BY SMT

\* The entries of a specification are numbered from one, and have their types.
LEMMA ApplyJob ==
  ASSUME AdministrationAssumption, NEW a \in Admins, Applies(a)
  PROVE  /\ Len(Job[a].instances) \in Nat /\ DOMAIN Job[a].instances = 1..Len(Job[a].instances)
         /\ Len(Job[a].resources) \in Nat /\ DOMAIN Job[a].resources = 1..Len(Job[a].resources)
         /\ \A k \in DOMAIN Job[a].instances :
              InstanceAt(a, k).id \in AdminInstances /\ InstanceAt(a, k).zone \in AdminZones
         /\ \A k \in DOMAIN Job[a].resources : DeclaredResource(ResourceAt(a, k))
<1>1. Job[a].instances \in Seq([id : AdminInstances, zone : AdminZones])
  BY DEF AdministrationAssumption
<1>2. Job[a].resources \in Seq(Range(Job[a].resources))
  BY DEF AdministrationAssumption
<1>3. \A r \in Range(Job[a].resources) : DeclaredResource(r)
  BY DEF AdministrationAssumption
<1>4. Len(Job[a].instances) \in Nat /\ DOMAIN Job[a].instances = 1..Len(Job[a].instances)
  BY SMT, <1>1
<1>5. Len(Job[a].resources) \in Nat /\ DOMAIN Job[a].resources = 1..Len(Job[a].resources)
  BY SMT, <1>2
<1>6. \A k \in DOMAIN Job[a].instances :
        InstanceAt(a, k).id \in AdminInstances /\ InstanceAt(a, k).zone \in AdminZones
  <2>1. ASSUME NEW k \in DOMAIN Job[a].instances
        PROVE  Job[a].instances[k] \in [id : AdminInstances, zone : AdminZones]
    BY <1>1, <1>4, Entry
  <2>2. \A i \in [id : AdminInstances, zone : AdminZones] : i.id \in AdminInstances /\ i.zone \in AdminZones
    BY SMT
  <2> QED  BY <2>1, <2>2 DEF InstanceAt
<1>7. \A k \in DOMAIN Job[a].resources : DeclaredResource(ResourceAt(a, k))
  BY <1>3 DEF Range, ResourceAt
<1> QED  BY <1>4, <1>5, <1>6, <1>7

\* What follows the puts of the first k resources.
LEMMA ResourcesFollow ==
  ASSUME AdministrationAssumption, NEW a \in Admins, Applies(a), NEW k \in 0..Len(Job[a].resources)
  PROVE  \/ k + 1 \in DOMAIN Job[a].resources /\ AfterResources(a, k) = <<"resource", k + 1>>
         \/ k = Len(Job[a].resources) /\ AfterResources(a, k) \in {<<"limits", 1>>, <<"ok", 1>>}
<1>1. Len(Job[a].resources) \in Nat /\ DOMAIN Job[a].resources = 1..Len(Job[a].resources)
  BY ApplyJob
<1> QED  BY SMT, <1>1 DEF AfterResources, Finally

\* What follows the puts of the first k instances.
LEMMA InstancesFollow ==
  ASSUME AdministrationAssumption, NEW a \in Admins, Applies(a), NEW k \in 0..Len(Job[a].instances)
  PROVE  \/ k + 1 \in DOMAIN Job[a].instances /\ AfterInstances(a, k) = <<"instance", k + 1>>
         \/ k = Len(Job[a].instances) /\ AfterInstances(a, k) = AfterResources(a, 0)
<1>1. Len(Job[a].instances) \in Nat /\ DOMAIN Job[a].instances = 1..Len(Job[a].instances)
  BY ApplyJob
<1> QED  BY SMT, <1>1 DEF AfterInstances

\* Names occur once in a valid specification.
LEMMA NamesAreUnique ==
  ASSUME NEW a \in Admins, ValidSpec(Job[a].instances, Job[a].resources)
  PROVE  /\ \A j, k \in DOMAIN Job[a].instances : InstanceAt(a, j).id = InstanceAt(a, k).id => j = k
         /\ \A j, k \in DOMAIN Job[a].resources : ResourceAt(a, j).name = ResourceAt(a, k).name => j = k
         /\ \A k \in DOMAIN Job[a].instances : ValidId(InstanceAt(a, k).id) /\ InstanceAt(a, k).zone # ""
<1>1. /\ IsInjective([k \in DOMAIN Job[a].instances |-> Job[a].instances[k].id])
      /\ IsInjective([k \in DOMAIN Job[a].resources |-> Job[a].resources[k].name])
  BY DEF ValidSpec
<1>2. \A j, k \in DOMAIN Job[a].instances : Job[a].instances[j].id = Job[a].instances[k].id => j = k
  BY <1>1 DEF IsInjective
<1>3. \A j, k \in DOMAIN Job[a].resources : Job[a].resources[j].name = Job[a].resources[k].name => j = k
  BY <1>1 DEF IsInjective
<1> QED  BY <1>2, <1>3 DEF InstanceAt, ResourceAt, ValidSpec

-----------------------------------------------------------------------------
(* Control.                                                                *)

\* An administrator's next state.
LEMMA AdminMoves ==
  ASSUME AdminInv, NEW a \in Admins, NEW t \in AdminStates, t.runs \in 1..Job[a].runs,
         admin' = [admin EXCEPT ![a] = t]
  PROVE  /\ admin' \in [Admins -> AdminStates] /\ \A b \in Admins : admin'[b].runs \in 1..Job[b].runs
         /\ admin'[a] = t /\ \A b \in Admins \ {a} : admin'[b] = admin[b]
<1>1. admin \in [Admins -> AdminStates] /\ \A b \in Admins : admin[b].runs \in 1..Job[b].runs
  BY DEF AdminInv, AdminTypeOK
<1>2. admin'[a] = t /\ \A b \in Admins \ {a} : admin'[b] = admin[b]
  BY SMT, <1>1
<1>3. admin' \in [Admins -> AdminStates]
  BY SMT, <1>1
<1> QED  BY <1>1, <1>2, <1>3

\* The frame of a step of one administrator.
Alone(a) ==
  /\ admin' \in [Admins -> AdminStates] /\ \A b \in Admins : admin'[b].runs \in 1..Job[b].runs
  /\ \A b \in Admins \ {a} : admin'[b] = admin[b]

LEMMA MovesStep ==
  ASSUME AdminInv, NEW a \in Admins, NEW place \in Places, NEW at \in Nat, NEW seen \in 0..MaxConfigRev,
         NEW attempts \in 0..MaxTries, Moves(a, place, at, seen, attempts)
  PROVE  Alone(a) /\ admin'[a].pc = place /\ admin'[a].at = at /\ admin'[a].tries = attempts
<1> DEFINE t == [pc |-> place, at |-> at, seen |-> seen, tries |-> attempts, runs |-> admin[a].runs]
<1>1. admin[a] \in AdminStates /\ admin[a].runs \in 1..Job[a].runs
  BY DEF AdminInv, AdminTypeOK
<1>2. admin[a].runs \in Nat
  BY SMT, <1>1 DEF AdminStates
<1>3. t \in AdminStates /\ t.runs = admin[a].runs /\ t.pc = place /\ t.at = at /\ t.tries = attempts
  BY SMT, <1>2 DEF AdminStates
<1>4. admin' = [admin EXCEPT ![a] = t]
  BY DEF Moves
<1> HIDE DEF t
<1> QED  BY <1>1, <1>3, <1>4, AdminMoves DEF Alone

LEMMA StayStep ==
  ASSUME AdminInv, NEW a \in Admins, NEW place \in Places, NEW seen \in 0..MaxConfigRev,
         Moves(a, place, admin[a].at, seen, admin[a].tries)
  PROVE  Alone(a) /\ admin'[a].pc = place /\ admin'[a].at = admin[a].at /\ admin'[a].tries = admin[a].tries
<1> DEFINE at == admin[a].at  attempts == admin[a].tries
<1>1. at \in Nat /\ attempts \in 0..MaxTries
  BY SMT DEF AdminInv, AdminTypeOK, AdminStates
<1>2. Moves(a, place, at, seen, attempts)
  OBVIOUS
<1> HIDE DEF at, attempts
<1>3. Alone(a) /\ admin'[a].pc = place /\ admin'[a].at = at /\ admin'[a].tries = attempts
  BY <1>1, <1>2, MovesStep
<1> QED  BY <1>3 DEF at, attempts

LEMMA GoStep ==
  ASSUME AdministrationAssumption, AdminInv, NEW a \in Admins, NEW place \in Places, Go(a, place)
  PROVE  Alone(a) /\ admin'[a].pc = place /\ admin'[a].at = admin[a].at /\ admin'[a].tries = 0
<1>1. admin[a].at \in Nat
  BY SMT DEF AdminInv, AdminTypeOK, AdminStates
<1>2. 0 \in 0..MaxConfigRev /\ 0 \in 0..MaxTries
  BY SMT DEF AdministrationAssumption
<1> QED  BY <1>1, <1>2, MovesStep DEF Go

LEMMA ContinueStep ==
  ASSUME AdministrationAssumption, AdminInv, NEW a \in Admins, NEW place \in Places, NEW at \in Nat,
         Continue(a, <<place, at>>)
  PROVE  Alone(a) /\ admin'[a].pc = place /\ admin'[a].at = at /\ admin'[a].tries = 0
<1>1. Moves(a, place, at, 0, 0)
  BY SMT DEF Continue, Moves
<1>2. 0 \in 0..MaxConfigRev /\ 0 \in 0..MaxTries
  BY SMT DEF AdministrationAssumption
<1> QED  BY <1>1, <1>2, MovesStep

LEMMA TryAgainStep ==
  ASSUME AdministrationAssumption, AdminInv, NEW a \in Admins, NEW place \in Places, TryAgain(a, place)
  PROVE  /\ Alone(a) /\ admin'[a].pc \in {place, "error"} /\ admin'[a].at = admin[a].at
         /\ admin'[a].tries < MaxTries
<1>1. admin[a] \in AdminStates /\ admin[a].tries < MaxTries
  BY DEF AdminInv, AdminTypeOK, ProgressOK
<1>2. MaxTries \in Nat \ {0} /\ MaxConfigRev \in Nat
  BY DEF AdministrationAssumption
<1>3. CASE admin[a].tries + 1 = MaxTries
  <2>1. Go(a, "error")
    BY <1>3 DEF TryAgain
  <2>2. "error" \in Places /\ 0 < MaxTries
    BY SMT, <1>2 DEF Places
  <2>3. Alone(a) /\ admin'[a].pc = "error" /\ admin'[a].at = admin[a].at /\ admin'[a].tries = 0
    BY <2>1, <2>2, GoStep
  <2>4. admin'[a].tries < MaxTries
    BY <2>2, <2>3
  <2> QED  BY <2>3, <2>4
<1>4. CASE admin[a].tries + 1 # MaxTries
  <2> DEFINE n == admin[a].tries + 1
  <2>1. Moves(a, place, admin[a].at, 0, n)
    BY <1>4 DEF TryAgain
  <2>2. 0 \in 0..MaxConfigRev /\ n \in 0..MaxTries /\ n < MaxTries /\ admin[a].at \in Nat
    BY SMT, <1>1, <1>2, <1>4 DEF AdminStates
  <2> HIDE DEF n
  <2>3. Alone(a) /\ admin'[a].pc = place /\ admin'[a].at = admin[a].at /\ admin'[a].tries = n
    BY <2>1, <2>2, MovesStep
  <2> QED  BY <2>2, <2>3
<1> QED  BY <1>3, <1>4

-----------------------------------------------------------------------------
(* Progress.                                                               *)

\* Where nothing is claimed of what an administrator has done.
LEMMA NothingClaimed ==
  ASSUME NEW a \in Admins, admin'[a].pc \in {"start", "join", "begin", "error", "invalid"},
         admin'[a].tries < MaxTries
  PROVE  ProgressOK(a)'
  BY DEF ProgressOK

\* The other administrators claim what they claimed, if that is still so.
LEMMA OthersProgress ==
  ASSUME AdministrationAssumption, AdminInv, NEW a \in Admins, Alone(a), NEW b \in Admins, b # a,
         Applies(b) => \A k \in DOMAIN Job[b].instances : InstanceStored(b, k) => InstanceStored(b, k)',
         Applies(b) => \A k \in DOMAIN Job[b].resources : ResourceStored(b, k) => ResourceStored(b, k)'
  PROVE  ProgressOK(b)'
<1>1. admin'[b] = admin[b] /\ ProgressOK(b)
  BY DEF Alone, AdminInv
<1>2. CASE Applies(b)
  <2>1. /\ DOMAIN Job[b].instances = 1..Len(Job[b].instances) /\ Len(Job[b].instances) \in Nat
        /\ DOMAIN Job[b].resources = 1..Len(Job[b].resources) /\ Len(Job[b].resources) \in Nat
    BY <1>2, ApplyJob
  <2>2. ASSUME admin[b].at \in DOMAIN Job[b].instances, NEW k \in 1..(admin[b].at - 1)
        PROVE  k \in DOMAIN Job[b].instances
    BY SMT, <2>1, <2>2
  <2>3. ASSUME admin[b].at \in DOMAIN Job[b].resources, NEW k \in 1..(admin[b].at - 1)
        PROVE  k \in DOMAIN Job[b].resources
    BY SMT, <2>1, <2>3
  <2>4. InstancesStored(b) => InstancesStored(b)'
    BY <1>2 DEF InstancesStored
  <2>5. Stored(b) => Stored(b)'
    BY <1>2, <2>4 DEF Stored
  <2>6. admin[b].pc \in {"instance", "swap"} => \A k \in 1..(admin[b].at - 1) : InstanceStored(b, k)'
    BY <1>1, <1>2, <2>2 DEF ProgressOK
  <2>7. admin[b].pc \in {"resource", "put"} =>
          InstancesStored(b)' /\ \A k \in 1..(admin[b].at - 1) : ResourceStored(b, k)'
    BY <1>1, <1>2, <2>3, <2>4 DEF ProgressOK
  <2> QED  BY <1>1, <2>5, <2>6, <2>7 DEF ProgressOK
<1>3. CASE ~Applies(b)
  BY <1>1, <1>3 DEF ProgressOK
<1> QED  BY <1>2, <1>3

\* The first k resources are stored: on with what follows.
LEMMA ResourcesProgress ==
  ASSUME AdministrationAssumption, AdminInv, NEW a \in Admins, Applies(a),
         ValidSpec(Job[a].instances, Job[a].resources), NEW k \in 0..Len(Job[a].resources),
         Continue(a, AfterResources(a, k)), InstancesStored(a)', \A j \in 1..k : ResourceStored(a, j)'
  PROVE  Alone(a) /\ ProgressOK(a)'
<1>1. Len(Job[a].resources) \in Nat /\ DOMAIN Job[a].resources = 1..Len(Job[a].resources)
  BY ApplyJob
<1>2. 0 < MaxTries
  BY SMT DEF AdministrationAssumption
<1>3. CASE k + 1 \in DOMAIN Job[a].resources /\ AfterResources(a, k) = <<"resource", k + 1>>
  <2>1. k + 1 \in Nat /\ "resource" \in Places
    BY SMT DEF Places
  <2>2. Continue(a, <<"resource", k + 1>>)
    BY <1>3
  <2>3. Alone(a) /\ admin'[a].pc = "resource" /\ admin'[a].at = k + 1 /\ admin'[a].tries = 0
    BY <2>1, <2>2, ContinueStep
  <2>4. \A j \in 1..(admin'[a].at - 1) : ResourceStored(a, j)'
    <3>1. admin'[a].at - 1 = k
      BY SMT, <2>3
    <3> QED  BY <3>1
  <2> QED  BY <1>2, <1>3, <2>3, <2>4 DEF ProgressOK
<1>4. CASE k = Len(Job[a].resources) /\ AfterResources(a, k) \in {<<"limits", 1>>, <<"ok", 1>>}
  <2>1. PICK place \in {"limits", "ok"} : AfterResources(a, k) = <<place, 1>>
    BY <1>4
  <2>2. place \in Places /\ 1 \in Nat
    BY SMT DEF Places
  <2>3. Continue(a, <<place, 1>>)
    BY <2>1
  <2>4. Alone(a) /\ admin'[a].pc = place /\ admin'[a].tries = 0
    BY <2>2, <2>3, ContinueStep
  <2>5. Stored(a)'
    BY <1>1, <1>4 DEF Stored
  <2> QED  BY <1>2, <2>4, <2>5 DEF ProgressOK
<1> QED  BY <1>3, <1>4, ResourcesFollow

\* The first k instances are stored.
LEMMA InstancesProgress ==
  ASSUME AdministrationAssumption, AdminInv, NEW a \in Admins, Applies(a),
         ValidSpec(Job[a].instances, Job[a].resources), NEW k \in 0..Len(Job[a].instances),
         Continue(a, AfterInstances(a, k)), \A j \in 1..k : InstanceStored(a, j)'
  PROVE  Alone(a) /\ ProgressOK(a)'
<1>1. /\ Len(Job[a].instances) \in Nat /\ DOMAIN Job[a].instances = 1..Len(Job[a].instances)
      /\ Len(Job[a].resources) \in Nat
  BY ApplyJob
<1>2. 0 < MaxTries
  BY SMT DEF AdministrationAssumption
<1>3. CASE k + 1 \in DOMAIN Job[a].instances /\ AfterInstances(a, k) = <<"instance", k + 1>>
  <2>1. k + 1 \in Nat /\ "instance" \in Places
    BY SMT DEF Places
  <2>2. Continue(a, <<"instance", k + 1>>)
    BY <1>3
  <2>3. Alone(a) /\ admin'[a].pc = "instance" /\ admin'[a].at = k + 1 /\ admin'[a].tries = 0
    BY <2>1, <2>2, ContinueStep
  <2>4. \A j \in 1..(admin'[a].at - 1) : InstanceStored(a, j)'
    <3>1. admin'[a].at - 1 = k
      BY SMT, <2>3
    <3> QED  BY <3>1
  <2> QED  BY <1>2, <1>3, <2>3, <2>4 DEF ProgressOK
<1>4. CASE k = Len(Job[a].instances) /\ AfterInstances(a, k) = AfterResources(a, 0)
  <2>1. 0 \in 0..Len(Job[a].resources) /\ \A j \in 1..0 : FALSE
    BY SMT, <1>1
  <2>2. InstancesStored(a)'
    BY <1>1, <1>4 DEF InstancesStored
  <2>3. Continue(a, AfterResources(a, 0))
    BY <1>4
  <2>4. \A j \in 1..0 : ResourceStored(a, j)'
    BY <2>1
  <2> QED  BY <2>1, <2>2, <2>3, <2>4, ResourcesProgress
<1> QED  BY <1>3, <1>4, InstancesFollow

-----------------------------------------------------------------------------
(* Steps.  Most of them write nothing.                                     *)

LEMMA ControlStep ==
  ASSUME AdministrationAssumption, AdminInv, NEW a \in Admins, Alone(a), ProgressOK(a)',
         UNCHANGED <<configs, resources, limits>>, liveKeys' = liveKeys,
         cluster' \in {cluster, Job[a].config.cluster}
  PROVE  AdminInv'
<1>1. AdminTypeOK'
  BY DEF AdminInv, AdminTypeOK, Alone
<1>2. ConfigsOK' /\ RecordsOK' /\ LimitsOK'
  BY DEF AdminInv, ConfigsOK, RecordsOK, LimitsOK
<1>3. ASSUME NEW b \in Admins, b # a
      PROVE  ProgressOK(b)'
  <2>1. \A k \in DOMAIN Job[b].instances : InstanceStored(b, k) => InstanceStored(b, k)'
    BY DEF InstanceStored
  <2>2. \A k \in DOMAIN Job[b].resources : ResourceStored(b, k) => ResourceStored(b, k)'
    BY DEF ResourceStored
  <2> QED  BY <1>3, <2>1, <2>2, OthersProgress
<1> QED  BY <1>1, <1>2, <1>3 DEF AdminInv

\* Connect, Begin, RequestFails and Rerun.
LEMMA GoQuietly ==
  ASSUME AdministrationAssumption, AdminInv, NEW a \in Admins, NEW place \in {"join", "error", "invalid"},
         Go(a, place), UNCHANGED <<cluster, configs, resources, limits, liveKeys>>
  PROVE  AdminInv'
<1>1. place \in Places /\ 0 < MaxTries
  BY SMT DEF Places, AdministrationAssumption
<1>2. Alone(a) /\ admin'[a].pc = place /\ admin'[a].tries = 0
  BY <1>1, GoStep
<1>3. ProgressOK(a)'
  BY <1>1, <1>2, NothingClaimed
<1> QED  BY <1>2, <1>3, ControlStep

LEMMA ConnectStep ==
  ASSUME AdministrationAssumption, AdminInv, NEW a \in Admins, Connect(a)
  PROVE  AdminInv'
<1>1. PICK place \in {"join", "error", "invalid"} : Go(a, place)
  BY DEF Connect
<1> QED  BY <1>1, GoQuietly DEF Connect

LEMMA FailureStep ==
  ASSUME AdministrationAssumption, AdminInv, NEW a \in Admins, RequestFails(a)
  PROVE  AdminInv'
  BY GoQuietly DEF RequestFails

LEMMA BeginStep ==
  ASSUME AdministrationAssumption, AdminInv, NEW a \in Admins, Begin(a)
  PROVE  AdminInv'
<1>1. 0 < MaxTries /\ Job[a].kind \in {"apply", "remove", "drop"} /\ "cluster" \in Places /\ "remove" \in Places
  BY SMT DEF AdministrationAssumption, Places
<1>2. UNCHANGED <<cluster, configs, resources, limits, liveKeys>>
  BY DEF Begin
<1>3. CASE Go(a, "cluster") /\ Applies(a) /\ ValidSpec(Job[a].instances, Job[a].resources)
  <2>1. Alone(a) /\ admin'[a].pc = "cluster" /\ admin'[a].tries = 0
    BY <1>1, <1>3, GoStep
  <2>2. ProgressOK(a)'
    BY <1>1, <1>3, <2>1 DEF ProgressOK
  <2> QED  BY <1>2, <2>1, <2>2, ControlStep
<1>4. CASE Go(a, "remove") /\ Job[a].kind = "remove"
  <2>1. Alone(a) /\ admin'[a].pc = "remove" /\ admin'[a].tries = 0
    BY <1>1, <1>4, GoStep
  <2>2. ProgressOK(a)'
    BY <1>1, <1>4, <2>1 DEF ProgressOK
  <2> QED  BY <1>2, <2>1, <2>2, ControlStep
<1>5. CASE Go(a, "invalid")
  BY <1>2, <1>5, GoQuietly
<1> QED  BY <1>1, <1>3, <1>4, <1>5 DEF Begin, Applies

LEMMA RerunStep ==
  ASSUME AdministrationAssumption, AdminInv, NEW a \in Admins, Rerun(a)
  PROVE  AdminInv'
<1> DEFINE t == Idle(admin[a].runs + 1)
<1>1. MaxTries \in Nat \ {0} /\ MaxConfigRev \in Nat /\ Job[a].runs \in Nat
  BY DEF AdministrationAssumption
<1>2. admin[a] \in AdminStates /\ admin[a].runs \in 1..Job[a].runs /\ admin[a].runs < Job[a].runs
  BY DEF AdminInv, AdminTypeOK, Rerun
<1>3. t \in AdminStates /\ t.runs \in 1..Job[a].runs /\ t.pc = "start" /\ t.tries < MaxTries
  BY SMT, <1>1, <1>2 DEF AdminStates, Places, Idle
<1>4. admin' = [admin EXCEPT ![a] = t]
  BY DEF Rerun
<1> HIDE DEF t
<1>5. Alone(a) /\ admin'[a] = t
  BY <1>3, <1>4, AdminMoves DEF Alone
<1>6. ProgressOK(a)'
  BY <1>3, <1>5, NothingClaimed
<1> QED  BY <1>5, <1>6, ControlStep DEF Rerun

\* The cluster is there, and the puts begin.
LEMMA ClusterStep ==
  ASSUME AdministrationAssumption, AdminInv, NEW a \in Admins, EnsureCluster(a)
  PROVE  AdminInv'
<1>1. /\ UNCHANGED <<configs, resources, limits>> /\ liveKeys' = liveKeys
      /\ cluster' \in {cluster, Job[a].config.cluster}
  BY DEF EnsureCluster, PutClusterIfAbsent
<1>2. 0 < MaxTries /\ "begin" \in Places /\ 1 \in Nat
  BY SMT DEF AdministrationAssumption, Places
<1>3. CASE Go(a, "error") /\ UNCHANGED cluster
  BY <1>1, <1>3, GoQuietly
<1>4. CASE Continue(a, <<"begin", 1>>)
  <2>1. Alone(a) /\ admin'[a].pc = "begin" /\ admin'[a].tries = 0
    BY <1>2, <1>4, ContinueStep
  <2> QED  BY <1>1, <1>2, <2>1, NothingClaimed, ControlStep
<1>5. CASE admin[a].pc = "cluster" /\ Continue(a, AfterInstances(a, 0))
  <2>1. Applies(a) /\ ValidSpec(Job[a].instances, Job[a].resources)
    BY <1>5 DEF AdminInv, ProgressOK
  <2>2. Len(Job[a].instances) \in Nat
    BY <2>1, ApplyJob
  <2>3. 0 \in 0..Len(Job[a].instances) /\ \A j \in 1..0 : FALSE
    BY SMT, <2>2
  <2>4. \A j \in 1..0 : InstanceStored(a, j)'
    BY <2>3
  <2>5. Alone(a) /\ ProgressOK(a)'
    BY <1>5, <2>1, <2>3, <2>4, InstancesProgress
  <2> QED  BY <1>1, <2>5, ControlStep
<1> QED  BY <1>3, <1>4, <1>5 DEF EnsureCluster

\* The configurations have the instance as it should be, or will be written.
LEMMA ReadInstancesStep ==
  ASSUME AdministrationAssumption, AdminInv, NEW a \in Admins, ReadInstances(a)
  PROVE  AdminInv'
<1> SUFFICES ASSUME NEW k, k = admin[a].at PROVE AdminInv'
  OBVIOUS
<1>1. /\ admin[a].pc = "instance" /\ ProgressOK(a) /\ admin[a] \in AdminStates
      /\ UNCHANGED <<cluster, configs, resources, limits, liveKeys>>
  BY DEF ReadInstances, AdminInv, AdminTypeOK
<1>2. /\ Applies(a) /\ ValidSpec(Job[a].instances, Job[a].resources) /\ k \in DOMAIN Job[a].instances
      /\ \A j \in 1..(k - 1) : InstanceStored(a, j)
  BY <1>1 DEF ProgressOK
<1>3. Len(Job[a].instances) \in Nat /\ DOMAIN Job[a].instances = 1..Len(Job[a].instances)
  BY <1>2, ApplyJob
<1>4. \A j \in DOMAIN Job[a].instances : InstanceStored(a, j) => InstanceStored(a, j)'
  BY <1>1 DEF InstanceStored
<1>5. CASE configs.zone[InstanceAt(a, k).id] = InstanceAt(a, k).zone /\ Continue(a, AfterInstances(a, k))
  <2>1. InstanceStored(a, k)
    BY <1>5 DEF InstanceStored
  <2>2. k \in 0..Len(Job[a].instances) /\ \A j \in 1..k : j \in DOMAIN Job[a].instances /\ (j \in 1..(k - 1) \/ j = k)
    BY SMT, <1>2, <1>3
  <2>3. \A j \in 1..k : InstanceStored(a, j)'
    BY <1>2, <1>4, <2>1, <2>2
  <2>4. Alone(a) /\ ProgressOK(a)'
    BY <1>2, <1>5, <2>2, <2>3, InstancesProgress
  <2> QED  BY <1>1, <2>4, ControlStep
<1>6. CASE Moves(a, "swap", k, configs.rev, admin[a].tries)
  <2>1. configs.rev \in 0..MaxConfigRev /\ "swap" \in Places
    BY SMT DEF AdminInv, AdminTypeOK, Places
  <2>2. Alone(a) /\ admin'[a].pc = "swap" /\ admin'[a].at = k /\ admin'[a].tries = admin[a].tries
    BY <1>6, <2>1, StayStep
  <2>3. \A j \in 1..(k - 1) : InstanceStored(a, j)'
    <3>1. \A j \in 1..(k - 1) : j \in DOMAIN Job[a].instances
      BY SMT, <1>2, <1>3
    <3> QED  BY <1>2, <1>4, <3>1
  <2>4. ProgressOK(a)'
    BY <1>1, <1>2, <2>2, <2>3 DEF ProgressOK
  <2> QED  BY <1>1, <2>2, <2>4, ControlStep
<1> QED  BY <1>5, <1>6 DEF ReadInstances

\* A write of the configurations is about one instance.
LEMMA ConfigsWritten ==
  ASSUME AdministrationAssumption, AdminInv, NEW a \in Admins, NEW i \in AdminInstances,
         NEW zone \in AdminZones \cup {Unset}, CompareAndPut(a, i, zone)
  PROVE  /\ configs' \in [rev : 0..MaxConfigRev, zone : [AdminInstances -> AdminZones \cup {Unset}]]
         /\ configs'.zone[i] = zone /\ \A j \in AdminInstances \ {i} : configs'.zone[j] = configs.zone[j]
<1>1. configs \in [rev : 0..MaxConfigRev, zone : [AdminInstances -> AdminZones \cup {Unset}]] /\ MaxConfigRev \in Nat
  BY DEF AdminInv, AdminTypeOK, AdministrationAssumption
<1> DEFINE z == [configs.zone EXCEPT ![i] = zone]
<1>2. configs' = [rev |-> configs.rev + 1, zone |-> z] /\ configs.rev < MaxConfigRev
  BY DEF CompareAndPut
<1>3. configs.zone \in [AdminInstances -> AdminZones \cup {Unset}] /\ configs.rev \in 0..MaxConfigRev
  BY SMT, <1>1
<1>4. /\ z \in [AdminInstances -> AdminZones \cup {Unset}] /\ z[i] = zone
      /\ \A j \in AdminInstances \ {i} : z[j] = configs.zone[j]
  BY <1>3
<1> HIDE DEF z
<1>5. configs'.zone = z /\ configs' \in [rev : 0..MaxConfigRev, zone : [AdminInstances -> AdminZones \cup {Unset}]]
  BY SMT, <1>1, <1>2, <1>3, <1>4
<1> QED  BY <1>4, <1>5

\* Such a write keeps what other applications have stored, as far as they claim it.
LEMMA ConfigsStep ==
  ASSUME AdministrationAssumption, AdminInv, NEW a \in Admins, NEW i \in AdminInstances,
         NEW zone \in AdminZones \cup {Unset}, CompareAndPut(a, i, zone),
         zone # Unset => ValidId(i) /\ zone # "",
         \A b \in Admins \ {a} : Contested(b, i),
         Alone(a), ProgressOK(a)', UNCHANGED <<cluster, resources, limits, liveKeys>>
  PROVE  AdminInv'
<1>1. /\ configs' \in [rev : 0..MaxConfigRev, zone : [AdminInstances -> AdminZones \cup {Unset}]]
      /\ configs'.zone[i] = zone /\ \A j \in AdminInstances \ {i} : configs'.zone[j] = configs.zone[j]
  BY ConfigsWritten
<1>2. AdminTypeOK'
  BY <1>1 DEF AdminInv, AdminTypeOK, Alone
<1>3. ConfigsOK'
  BY <1>1 DEF AdminInv, ConfigsOK
<1>4. RecordsOK' /\ LimitsOK'
  BY DEF AdminInv, RecordsOK, LimitsOK
<1>5. ASSUME NEW b \in Admins, b # a
      PROVE  ProgressOK(b)'
  <2>1. ASSUME Applies(b), NEW k \in DOMAIN Job[b].instances, InstanceStored(b, k)
        PROVE  InstanceStored(b, k)'
    <3>1. InstanceAt(b, k).id \in AdminInstances
      BY <2>1, ApplyJob
    <3> QED  BY <1>1, <1>5, <2>1, <3>1 DEF InstanceStored
  <2>2. \A k \in DOMAIN Job[b].resources : ResourceStored(b, k) => ResourceStored(b, k)'
    BY DEF ResourceStored
  <2> QED  BY <1>5, <2>1, <2>2, OthersProgress
<1> QED  BY <1>2, <1>3, <1>4, <1>5 DEF AdminInv

\* An instance is put as it should be, or somebody was faster.
LEMMA SwapInstancesStep ==
  ASSUME AdministrationAssumption, AdminInv, NEW a \in Admins, SwapInstances(a)
  PROVE  AdminInv'
<1> SUFFICES ASSUME NEW k, k = admin[a].at PROVE AdminInv'
  OBVIOUS
<1>1. /\ admin[a].pc = "swap" /\ ProgressOK(a) /\ admin[a] \in AdminStates
      /\ UNCHANGED <<cluster, resources, limits, liveKeys>>
  BY DEF SwapInstances, AdminInv, AdminTypeOK
<1>2. /\ Applies(a) /\ ValidSpec(Job[a].instances, Job[a].resources) /\ k \in DOMAIN Job[a].instances
      /\ \A j \in 1..(k - 1) : InstanceStored(a, j)
  BY <1>1 DEF ProgressOK
<1>3. /\ Len(Job[a].instances) \in Nat /\ DOMAIN Job[a].instances = 1..Len(Job[a].instances)
      /\ \A j \in DOMAIN Job[a].instances :
           InstanceAt(a, j).id \in AdminInstances /\ InstanceAt(a, j).zone \in AdminZones
  BY <1>2, ApplyJob
<1>4. \A j \in 1..(k - 1) : j \in DOMAIN Job[a].instances /\ j # k
  BY SMT, <1>2, <1>3
<1>5. CASE CompareAndPut(a, InstanceAt(a, k).id, InstanceAt(a, k).zone) /\ Continue(a, AfterInstances(a, k))
  <2> DEFINE i == InstanceAt(a, k).id  zone == InstanceAt(a, k).zone
  <2>1. i \in AdminInstances /\ zone \in AdminZones /\ zone \in AdminZones \cup {Unset}
    BY <1>2, <1>3
  <2>2. /\ \A j \in DOMAIN Job[a].instances : InstanceAt(a, j).id = i => j = k
        /\ ValidId(i) /\ zone # ""
    BY <1>2, NamesAreUnique
  <2>3. /\ configs'.zone[i] = zone
        /\ \A j \in AdminInstances \ {i} : configs'.zone[j] = configs.zone[j]
    BY <1>5, <2>1, ConfigsWritten
  <2>4. ASSUME NEW j \in 1..(k - 1)
        PROVE  InstanceStored(a, j)'
    <3>1. InstanceAt(a, j).id \in AdminInstances \ {i} /\ InstanceStored(a, j)
      BY <1>2, <1>3, <1>4, <2>2
    <3> QED  BY <2>3, <3>1 DEF InstanceStored
  <2>5. InstanceStored(a, k)'
    BY <2>3 DEF InstanceStored
  <2>6. k \in 0..Len(Job[a].instances) /\ \A j \in 1..k : j \in 1..(k - 1) \/ j = k
    BY SMT, <1>2, <1>3
  <2>7. Alone(a) /\ ProgressOK(a)'
    BY <1>2, <1>5, <2>4, <2>5, <2>6, InstancesProgress
  <2>8. \A b \in Admins \ {a} : Contested(b, i)
    BY <1>2 DEF Contested, InstanceAt
  <2> QED  BY <1>1, <1>5, <2>1, <2>2, <2>7, <2>8, ConfigsStep
<1>6. CASE TryAgain(a, "instance") /\ UNCHANGED configs
  <2>1. "instance" \in Places
    BY DEF Places
  <2>2. /\ Alone(a) /\ admin'[a].pc \in {"instance", "error"} /\ admin'[a].at = k
        /\ admin'[a].tries < MaxTries
    BY <1>6, <2>1, TryAgainStep
  <2>3. \A j \in 1..(k - 1) : InstanceStored(a, j)'
    BY <1>1, <1>2, <1>6 DEF InstanceStored
  <2>4. ProgressOK(a)'
    BY <1>2, <2>2, <2>3 DEF ProgressOK
  <2> QED  BY <1>1, <1>6, <2>2, <2>4, ControlStep
<1> QED  BY <1>5, <1>6 DEF SwapInstances

\* remove_instance.
LEMMA RemovalStep ==
  ASSUME AdministrationAssumption, AdminInv, NEW a \in Admins,
         ReadForRemoval(a) \/ DeleteInstance(a) \/ LiveSession(a)
  PROVE  AdminInv'
<1>1. /\ admin[a].pc \in {"remove", "delete", "why"} /\ ProgressOK(a) /\ admin[a] \in AdminStates
      /\ UNCHANGED <<cluster, resources, limits, liveKeys>>
  BY DEF ReadForRemoval, DeleteInstance, LiveSession, AdminInv, AdminTypeOK
<1>2. /\ Job[a].kind = "remove" /\ ~Applies(a) /\ Job[a].instance \in AdminInstances
      /\ Unset \in AdminZones \cup {Unset}
  BY <1>1 DEF ProgressOK, Applies, AdministrationAssumption
<1>3. /\ 0 < MaxTries /\ 0 \in 0..MaxConfigRev /\ Finally(a) \in Places /\ "error" \in Places
      /\ "delete" \in Places /\ "why" \in Places /\ "remove" \in Places
  BY SMT DEF AdministrationAssumption, Places, Finally
<1>4. /\ admin[a].at \in Nat /\ configs.rev \in 0..MaxConfigRev /\ admin[a].tries \in 0..MaxTries
      /\ admin[a].tries < MaxTries
  BY SMT, <1>1 DEF AdminInv, AdminTypeOK, AdminStates, ProgressOK
<1>5. ASSUME NEW place \in {"remove", "delete", "why", "error", "limits", "ok"}, admin'[a].pc = place,
             admin'[a].tries < MaxTries
      PROVE  ProgressOK(a)'
  BY <1>2, <1>5 DEF ProgressOK
<1>6. Finally(a) \in {"limits", "ok"}
  BY DEF Finally
<1>7. CASE Go(a, Finally(a)) /\ UNCHANGED configs
  <2>1. Alone(a) /\ admin'[a].pc = Finally(a) /\ admin'[a].tries = 0
    BY <1>3, <1>7, GoStep
  <2>2. ProgressOK(a)'
    BY <1>3, <1>5, <1>6, <2>1
  <2> QED  BY <1>1, <1>7, <2>1, <2>2, ControlStep
<1>8. CASE Moves(a, "delete", admin[a].at, configs.rev, admin[a].tries) /\ UNCHANGED configs
  <2>1. Alone(a) /\ admin'[a].pc = "delete" /\ admin'[a].tries = admin[a].tries
    BY <1>3, <1>4, <1>8, StayStep
  <2>2. ProgressOK(a)'
    BY <1>4, <1>5, <2>1
  <2> QED  BY <1>1, <1>8, <2>1, <2>2, ControlStep
<1>9. CASE Moves(a, "why", admin[a].at, 0, admin[a].tries) /\ UNCHANGED configs
  <2>1. Alone(a) /\ admin'[a].pc = "why" /\ admin'[a].tries = admin[a].tries
    BY <1>3, <1>9, StayStep
  <2>2. ProgressOK(a)'
    BY <1>4, <1>5, <2>1
  <2> QED  BY <1>1, <1>9, <2>1, <2>2, ControlStep
<1>10. CASE Go(a, "error") /\ UNCHANGED configs
  BY <1>1, <1>10, GoQuietly
<1>11. CASE TryAgain(a, "remove") /\ UNCHANGED configs
  <2>1. Alone(a) /\ admin'[a].pc \in {"remove", "error"} /\ admin'[a].tries < MaxTries
    BY <1>3, <1>11, TryAgainStep
  <2>2. ProgressOK(a)'
    BY <1>5, <2>1
  <2> QED  BY <1>1, <1>11, <2>1, <2>2, ControlStep
<1>12. CASE CompareAndPut(a, Job[a].instance, Unset) /\ Go(a, Finally(a))
  <2>1. Alone(a) /\ admin'[a].pc = Finally(a) /\ admin'[a].tries = 0
    BY <1>3, <1>12, GoStep
  <2>2. ProgressOK(a)'
    BY <1>3, <1>5, <1>6, <2>1
  <2>3. \A b \in Admins \ {a} : Contested(b, Job[a].instance)
    BY <1>2 DEF Contested
  <2> QED  BY <1>1, <1>2, <1>12, <2>1, <2>2, <2>3, ConfigsStep
<1> QED  BY <1>7, <1>8, <1>9, <1>10, <1>11, <1>12
         DEF ReadForRemoval, DeleteInstance, LiveSession, CompareAndPutIfLiveAbsent

\* put_resource: what differs from the declaration, and is accepted, will be put.
LEMMA ReadResourceStep ==
  ASSUME AdministrationAssumption, AdminInv, NEW a \in Admins, ReadResource(a)
  PROVE  AdminInv'
<1> SUFFICES ASSUME NEW k, k = admin[a].at PROVE AdminInv'
  OBVIOUS
<1>1. /\ admin[a].pc = "resource" /\ ProgressOK(a) /\ admin[a] \in AdminStates
      /\ UNCHANGED <<cluster, configs, resources, limits, liveKeys>>
  BY DEF ReadResource, AdminInv, AdminTypeOK
<1>2. /\ Applies(a) /\ ValidSpec(Job[a].instances, Job[a].resources) /\ k \in DOMAIN Job[a].resources
      /\ InstancesStored(a) /\ \A j \in 1..(k - 1) : ResourceStored(a, j)
  BY <1>1 DEF ProgressOK
<1>3. Len(Job[a].resources) \in Nat /\ DOMAIN Job[a].resources = 1..Len(Job[a].resources)
  BY <1>2, ApplyJob
<1>4. InstancesStored(a)' /\ \A j \in DOMAIN Job[a].resources : ResourceStored(a, j) => ResourceStored(a, j)'
  BY <1>1, <1>2 DEF InstancesStored, InstanceStored, ResourceStored
<1>5. CASE Go(a, "error")
  BY <1>1, <1>5, GoQuietly
<1>6. CASE resources[ResourceAt(a, k).name] = {ResourceRecord(ResourceAt(a, k))} /\ Continue(a, AfterResources(a, k))
  <2>1. ResourceStored(a, k)
    BY <1>6 DEF ResourceStored
  <2>2. k \in 0..Len(Job[a].resources) /\ \A j \in 1..k : j \in DOMAIN Job[a].resources /\ (j \in 1..(k - 1) \/ j = k)
    BY SMT, <1>2, <1>3
  <2>3. \A j \in 1..k : ResourceStored(a, j)'
    BY <1>2, <1>4, <2>1, <2>2
  <2>4. Alone(a) /\ ProgressOK(a)'
    BY <1>2, <1>4, <1>6, <2>2, <2>3, ResourcesProgress
  <2> QED  BY <1>1, <2>4, ControlStep
<1>7. CASE AcceptedResource(ResourceAt(a, k)) /\ Go(a, "put")
  <2>1. "put" \in Places /\ 0 < MaxTries
    BY SMT DEF Places, AdministrationAssumption
  <2>2. Alone(a) /\ admin'[a].pc = "put" /\ admin'[a].at = k /\ admin'[a].tries = 0
    BY <1>7, <2>1, GoStep
  <2>3. \A j \in 1..(k - 1) : ResourceStored(a, j)'
    <3>1. \A j \in 1..(k - 1) : j \in DOMAIN Job[a].resources
      BY SMT, <1>2, <1>3
    <3> QED  BY <1>2, <1>4, <3>1
  <2>4. ProgressOK(a)'
    BY <1>2, <1>4, <1>7, <2>1, <2>2, <2>3 DEF ProgressOK
  <2> QED  BY <1>1, <2>2, <2>4, ControlStep
<1> QED  BY <1>5, <1>6, <1>7 DEF ReadResource

LEMMA PutResourceStep ==
  ASSUME AdministrationAssumption, AdminInv, NEW a \in Admins, PutResource(a)
  PROVE  AdminInv'
<1> SUFFICES ASSUME NEW k, k = admin[a].at PROVE AdminInv'
  OBVIOUS
<1> DEFINE r == ResourceAt(a, k)
<1>1. /\ admin[a].pc = "put" /\ ProgressOK(a) /\ UNCHANGED <<cluster, configs, limits, liveKeys>>
      /\ Continue(a, AfterResources(a, k)) /\ resources' = [resources EXCEPT ![r.name] = {ResourceRecord(r)}]
  BY DEF PutResource, AdminInv
<1>2. /\ Applies(a) /\ ValidSpec(Job[a].instances, Job[a].resources) /\ k \in DOMAIN Job[a].resources
      /\ InstancesStored(a) /\ \A j \in 1..(k - 1) : ResourceStored(a, j)
      /\ AcceptedResource(r)
  BY <1>1 DEF ProgressOK
<1>3. /\ Len(Job[a].resources) \in Nat /\ DOMAIN Job[a].resources = 1..Len(Job[a].resources)
      /\ \A j \in DOMAIN Job[a].resources : ResourceAt(a, j).name \in Resources
  BY <1>2, ApplyJob DEF DeclaredResource
<1>4. ResourceRecord(r) \in AllRecords
  <2>1. r \in Range(Job[a].resources)
    BY <1>2 DEF Range, ResourceAt
  <2> HIDE DEF r
  <2>2. ResourceRecord(r) \in Records(a)
    BY <2>1 DEF Records
  <2>3. a \in {b \in Admins : Applies(b)}
    BY <1>2
  <2>4. Records(a) \in {Records(c) : c \in {b \in Admins : Applies(b)}}
    BY <2>3
  <2> QED  BY <2>2, <2>4 DEF AllRecords
<1>5. /\ resources \in [Resources -> Contents] /\ r.name \in Resources
      /\ {ResourceRecord(r)} \in Contents
  BY <1>2, <1>3, <1>4 DEF AdminInv, AdminTypeOK, Contents
<1>6. /\ resources' \in [Resources -> Contents]
      /\ resources'[r.name] = {ResourceRecord(r)}
      /\ \A key \in Resources \ {r.name} : resources'[key] = resources[key]
  BY <1>1, <1>5
<1>7. Alone(a) /\ ProgressOK(a)'
  <2>1. ASSUME NEW j \in 1..(k - 1)
        PROVE  ResourceStored(a, j)'
    <3>1. j \in DOMAIN Job[a].resources /\ j # k
      BY SMT, <1>2, <1>3
    <3>2. ResourceAt(a, j).name \in Resources \ {r.name} /\ ResourceStored(a, j)
      BY <1>2, <1>3, <3>1, NamesAreUnique
    <3> QED  BY <1>6, <3>2 DEF ResourceStored
  <2>2. ResourceStored(a, k)'
    BY <1>6 DEF ResourceStored
  <2>3. k \in 0..Len(Job[a].resources) /\ \A j \in 1..k : j \in 1..(k - 1) \/ j = k
    BY SMT, <1>2, <1>3
  <2>4. InstancesStored(a)'
    BY <1>1, <1>2 DEF InstancesStored, InstanceStored
  <2> QED  BY <1>1, <1>2, <2>1, <2>2, <2>3, <2>4, ResourcesProgress
<1>8. AdminTypeOK' /\ ConfigsOK' /\ LimitsOK'
  BY <1>1, <1>6, <1>7 DEF AdminInv, AdminTypeOK, ConfigsOK, LimitsOK, Alone
<1>9. RecordsOK'
  <2> SUFFICES ASSUME NEW key \in Resources, NEW record \in resources'[key]
               PROVE  \E b \in Admins : \E j \in DOMAIN Job[b].resources :
                        Accepted(b, j) /\ key = ResourceAt(b, j).name /\ record = ResourceRecord(ResourceAt(b, j))
    BY DEF RecordsOK, Accepted
  <2>1. CASE key = r.name
    BY <1>2, <1>6, <2>1 DEF Accepted
  <2>2. CASE key # r.name
    <3>1. record \in resources[key]
      BY <1>6, <2>2
    <3> QED  BY <3>1 DEF AdminInv, RecordsOK
  <2> QED  BY <2>1, <2>2
<1>10. ASSUME NEW b \in Admins, b # a
       PROVE  ProgressOK(b)'
  <2>1. \A j \in DOMAIN Job[b].instances : InstanceStored(b, j) => InstanceStored(b, j)'
    BY <1>1 DEF InstanceStored
  <2>2. ASSUME Applies(b), NEW j \in DOMAIN Job[b].resources, ResourceStored(b, j)
        PROVE  ResourceStored(b, j)'
    <3>1. ResourceAt(b, j).name \in Resources
      BY <2>2, ApplyJob DEF DeclaredResource
    <3>2. ContestedResource(b, r.name)
      BY <1>2, <1>10 DEF ContestedResource, ResourceAt
    <3> QED  BY <1>6, <2>2, <3>1, <3>2 DEF ResourceStored
  <2> QED  BY <1>7, <1>10, <2>1, <2>2, OthersProgress
<1> QED  BY <1>7, <1>8, <1>9, <1>10 DEF AdminInv

\* The limits an application sets, and the throttles below the facade.
LEMMA LimitsStep ==
  ASSUME AdministrationAssumption, AdminInv, NEW a \in Admins, PutTransitionLimits(a) \/ PutThrottles(a)
  PROVE  AdminInv'
<1>1. /\ admin[a].pc = "limits" /\ ProgressOK(a) /\ UNCHANGED <<cluster, configs, resources, liveKeys>>
  BY DEF PutTransitionLimits, PutThrottles, AdminInv
<1>2. CASE Go(a, "invalid") /\ UNCHANGED limits
  BY <1>1, <1>2, GoQuietly
<1>3. CASE limits' = LimitRecords(a) /\ Go(a, "ok") /\ \A k \in DOMAIN LimitRecords(a) : SoundRecord(LimitRecords(a)[k])
  <2>1. "ok" \in Places /\ 0 < MaxTries
    BY SMT DEF Places, AdministrationAssumption
  <2>2. Alone(a) /\ admin'[a].pc = "ok" /\ admin'[a].tries = 0
    BY <1>3, <2>1, GoStep
  <2>3. Applies(a) => Stored(a)'
    BY <1>1 DEF ProgressOK, Stored, InstancesStored, InstanceStored, ResourceStored
  <2>4. ProgressOK(a)'
    BY <2>1, <2>2, <2>3 DEF ProgressOK
  <2>5. AdminTypeOK'
    BY <1>1, <1>3, <2>2 DEF AdminInv, AdminTypeOK, LimitLists, Alone
  <2>6. ConfigsOK' /\ RecordsOK'
    BY <1>1 DEF AdminInv, ConfigsOK, RecordsOK
  <2>7. LimitsOK'
    BY <1>3 DEF LimitsOK
  <2>8. ASSUME NEW b \in Admins, b # a
        PROVE  ProgressOK(b)'
    <3>1. \A k \in DOMAIN Job[b].instances : InstanceStored(b, k) => InstanceStored(b, k)'
      BY <1>1 DEF InstanceStored
    <3>2. \A k \in DOMAIN Job[b].resources : ResourceStored(b, k) => ResourceStored(b, k)'
      BY <1>1 DEF ResourceStored
    <3> QED  BY <2>2, <2>8, <3>1, <3>2, OthersProgress
  <2> QED  BY <2>4, <2>5, <2>6, <2>7, <2>8 DEF AdminInv
<1>4. DOMAIN LimitRecords(a) = DOMAIN Job[a].limits
  BY DEF LimitRecords
<1>5. ASSUME Applies(a), \A k \in DOMAIN Job[a].limits : ValidLimit(Job[a].limits[k])
      PROVE  \A k \in DOMAIN LimitRecords(a) : SoundRecord(LimitRecords(a)[k])
  <2> SUFFICES ASSUME NEW k \in DOMAIN Job[a].limits
               PROVE  SoundRecord(LimitRecords(a)[k])
    BY <1>4
  <2> DEFINE limit == Job[a].limits[k]
  <2>1. LimitRecords(a)[k] = LimitRecord(limit)
    BY <1>5 DEF LimitRecords
  <2>2. DeclaredLimit(limit) /\ ValidLimit(limit)
    BY <1>5 DEF AdministrationAssumption
  <2> HIDE DEF limit
  <2>3. /\ LimitRecord(limit).max = limit.max
        /\ LimitRecord(limit).resource = IF limit.target = "Resource" THEN limit.name ELSE Absent
        /\ LimitRecord(limit).instance = IF limit.target = "Instance" THEN limit.name ELSE Absent
    BY DEF LimitRecord
  <2>4. limit.max # 0
    BY SMT, <2>2 DEF DeclaredLimit, ValidLimit
  <2> QED  BY <2>1, <2>2, <2>3, <2>4 DEF SoundRecord, ValidLimit
<1>6. ASSUME ~Applies(a), \A k \in DOMAIN Job[a].limits : ValidThrottle(Job[a].limits[k])
      PROVE  \A k \in DOMAIN LimitRecords(a) : SoundRecord(LimitRecords(a)[k])
  <2> SUFFICES ASSUME NEW k \in DOMAIN Job[a].limits
               PROVE  SoundRecord(LimitRecords(a)[k])
    BY <1>4
  <2> DEFINE t == Job[a].limits[k]
  <2>1. LimitRecords(a)[k] = ThrottleRecord(t)
    BY <1>6 DEF LimitRecords
  <2>2. t.max \in Nat /\ ValidThrottle(t)
    BY <1>6 DEF AdministrationAssumption
  <2> HIDE DEF t
  <2>3. /\ ThrottleRecord(t).max = t.max
        /\ ThrottleRecord(t).resource = Absent /\ ThrottleRecord(t).instance = Absent
    BY DEF ThrottleRecord
  <2>4. t.max > 0
    BY <2>2 DEF ValidThrottle
  <2>5. t.max # 0
    BY SMT, <2>2, <2>4
  <2> QED  BY <2>1, <2>3, <2>5 DEF SoundRecord
<1> QED  BY <1>2, <1>3, <1>5, <1>6 DEF PutTransitionLimits, PutThrottles

\* Participants come and go; they write nothing but their live keys.
LEMMA ParticipantStep ==
  ASSUME AdministrationAssumption, AdminInv, NEW i \in AdminInstances, ParticipantComesOrGoes(i)
  PROVE  AdminInv'
<1>1. liveKeys' \subseteq AdminInstances /\ UNCHANGED <<cluster, configs, resources, limits, admin>>
  BY DEF ParticipantComesOrGoes, AdminInv, AdminTypeOK
<1>2. AdminTypeOK'
  BY <1>1 DEF AdminInv, AdminTypeOK
<1>3. ConfigsOK' /\ RecordsOK' /\ LimitsOK'
  BY <1>1 DEF AdminInv, ConfigsOK, RecordsOK, LimitsOK
<1>4. ASSUME NEW a \in Admins
      PROVE  ProgressOK(a)'
  <2>1. ProgressOK(a)
    BY DEF AdminInv
  <2>2. /\ InstancesStored(a) => InstancesStored(a)'
        /\ Stored(a) => Stored(a)'
        /\ \A k : (InstanceStored(a, k) => InstanceStored(a, k)') /\ (ResourceStored(a, k) => ResourceStored(a, k)')
    BY <1>1 DEF Stored, InstancesStored, InstanceStored, ResourceStored
  <2> QED  BY <1>1, <2>1, <2>2 DEF ProgressOK
<1> QED  BY <1>2, <1>3, <1>4 DEF AdminInv

LEMMA AdminStep ==
  ASSUME AdministrationAssumption, AdminInv, [AdminNext]_adminVars
  PROVE  AdminInv'
<1>1. ASSUME NEW a \in Admins,
             Connect(a) \/ EnsureCluster(a) \/ Begin(a) \/ ReadInstances(a) \/ SwapInstances(a)
      PROVE  AdminInv'
  BY <1>1, ConnectStep, ClusterStep, BeginStep, ReadInstancesStep, SwapInstancesStep
<1>2. ASSUME NEW a \in Admins,
             ReadResource(a) \/ PutResource(a) \/ ReadForRemoval(a) \/ DeleteInstance(a) \/ LiveSession(a)
      PROVE  AdminInv'
  BY <1>2, ReadResourceStep, PutResourceStep, RemovalStep
<1>3. ASSUME NEW a \in Admins, PutTransitionLimits(a) \/ PutThrottles(a) \/ RequestFails(a) \/ Rerun(a)
      PROVE  AdminInv'
  BY <1>3, LimitsStep, FailureStep, RerunStep
<1>4. CASE UNCHANGED adminVars
  BY <1>4 DEF adminVars, AdminInv, AdminTypeOK, ConfigsOK, RecordsOK, LimitsOK, ProgressOK, Stored, InstancesStored,
    InstanceStored, ResourceStored
<1> QED  BY <1>1, <1>2, <1>3, <1>4, ParticipantStep DEF AdminNext

LEMMA AdminStarts ==
  ASSUME AdministrationAssumption, AdminInit
  PROVE  AdminInv
<1>1. configs \in [rev : 0..MaxConfigRev, zone : [AdminInstances -> AdminZones \cup {Unset}]]
      /\ \A i \in AdminInstances : configs.zone[i] = Unset
  BY SMT DEF AdminInit, AdministrationAssumption
<1>2. resources \in [Resources -> Contents] /\ \A key \in Resources : resources[key] = {}
  BY DEF AdminInit, Contents
<1>3. ASSUME NEW a \in Admins
      PROVE  /\ admin[a] = Idle(1) /\ admin[a] \in AdminStates
             /\ admin[a].pc = "start" /\ admin[a].tries = 0 /\ admin[a].runs = 1
             /\ 0 < MaxTries /\ 1 \in 1..Job[a].runs
  <2>1. admin[a] = Idle(1)
    BY DEF AdminInit
  <2>2. "start" \in Places
    BY DEF Places
  <2>3. Idle(1) \in AdminStates /\ 0 < MaxTries /\ 1 \in 1..Job[a].runs
    BY SMT, <2>2 DEF Idle, AdminStates, AdministrationAssumption
  <2>4. Idle(1).pc = "start" /\ Idle(1).tries = 0 /\ Idle(1).runs = 1
    BY DEF Idle
  <2> QED  BY <2>1, <2>3, <2>4
<1>4. admin \in [Admins -> AdminStates]
  BY <1>3 DEF AdminInit
<1>5. AdminTypeOK
  BY <1>1, <1>2, <1>3, <1>4 DEF AdminInit, AdminTypeOK, LimitLists
<1>6. ConfigsOK /\ RecordsOK
  BY <1>1, <1>2 DEF ConfigsOK, RecordsOK
<1>7. LimitsOK
  <2>1. DOMAIN limits = {}
    BY SMT DEF AdminInit
  <2> QED  BY <2>1 DEF LimitsOK
<1>8. ASSUME NEW a \in Admins
      PROVE  ProgressOK(a)
  BY <1>3 DEF ProgressOK
<1> QED  BY <1>5, <1>6, <1>7, <1>8 DEF AdminInv

-----------------------------------------------------------------------------
(* What the controller makes of what is stored.                            *)

\* A record asks for what the resource asks for.
LEMMA RecordAsks ==
  ASSUME NEW r, DeclaredResource(r)
  PROVE  Asked(r, ResourceRecord(r))
<1> DEFINE record == ResourceRecord(r)
<1>1. /\ record.replicas = r.replicas /\ record.lists = r.placement.lists /\ record.topology = r.placement.topology
      /\ r.placement.kind = "Crush" => record.partitions = [k \in 1..r.partitions |-> <<r.name, k - 1>>]
  BY DEF ResourceRecord
<1> HIDE DEF record
<1>2. ASSUME r.placement.kind = "Crush"
      PROVE  Len(record.partitions) = r.partitions
  BY SMT, <1>1, <1>2 DEF DeclaredResource
<1>3. CASE r.placement.kind = "SemiAuto"
  BY <1>1, <1>3 DEF Asked, record
<1>4. CASE r.placement.kind = "Crush" /\ r.placement.topology = {}
  <2>1. TopologyOf(record) = Topology(<<"instance">>, "instance", "instance")
    BY <1>1, <1>4 DEF TopologyOf
  <2>2. /\ Topology(<<"instance">>, "instance", "instance").zone = "instance"
        /\ Topology(<<"instance">>, "instance", "instance").node = "instance"
    BY DEF Topology
  <2>3. TopologyOf(record).zone = TopologyOf(record).node
    BY <2>1, <2>2
  <2> QED  BY <1>1, <1>2, <1>4, <2>3 DEF Asked, record
<1>5. CASE r.placement.kind = "Crush" /\ r.placement.topology # {}
  <2>1. TopologyOf(record) \in r.placement.topology
    BY <1>1, <1>5 DEF TopologyOf
  <2> QED  BY <1>1, <1>2, <1>5, <2>1 DEF Asked, record
<1> QED  BY <1>3, <1>4, <1>5 DEF DeclaredResource

\* compute_crush_assignment is given partitions, no two of the same name.
LEMMA PartitionsAreNamed ==
  ASSUME NEW r, NEW n \in Nat, n > 0
  PROVE  LET names == [k \in 1..n |-> <<r, k - 1>>] IN names # <<>> /\ IsInjective(names)
<1> DEFINE names == [k \in 1..n |-> <<r, k - 1>>]
<1>1. names # <<>>
  <2>1. 1 \in DOMAIN names
    BY SMT
  <2>2. DOMAIN <<>> = {}
    BY SMT
  <2> HIDE DEF names
  <2> QED  BY <2>1, <2>2
<1>2. ASSUME NEW j \in 1..n, NEW k \in 1..n, names[j] = names[k]
      PROVE  j = k
  <2>1. names[j] = <<r, j - 1>> /\ names[k] = <<r, k - 1>>
    BY <1>2
  <2>2. j - 1 = k - 1
    BY SMT, <1>2, <2>1
  <2> QED  BY SMT, <2>2
<1> QED  BY <1>1, <1>2 DEF IsInjective

\* The preference lists that put_resource has accepted are those the builder accepts.
LEMMA ListsBuild ==
  ASSUME NEW r, DeclaredResource(r), AcceptedResource(r), r.placement.kind = "SemiAuto"
  PROVE  IdealStateBuilds(r.replicas, r.placement.lists)
<1>1. Cardinality(DOMAIN r.placement.lists) = r.partitions /\ r.partitions > 0 /\ r.partitions \in Nat
  BY DEF AcceptedResource, ValidResource, DeclaredResource
<1>2. Cardinality({}) = 0
  BY FS_EmptySet
<1>3. r.partitions # 0
  BY SMT, <1>1
<1>4. DOMAIN r.placement.lists # {}
  BY <1>1, <1>2, <1>3
<1> QED  BY <1>4 DEF IdealStateBuilds, AcceptedResource, ValidResource

\* resource_plans: what AdminInv says of the stored records is what it asks of them.
LEMMA StoredIsPlanned ==
  ASSUME AdministrationAssumption, AdminInv
  PROVE  Planned
<1> DEFINE configured == {i \in AdminInstances : configs.zone[i] # Unset}
           zoneOf == [i \in configured |-> configs.zone[i]]
<1>1. ValidConfigs(zoneOf)
  BY DEF AdminInv, ConfigsOK, ValidConfigs
<1> HIDE DEF zoneOf
<1> SUFFICES ASSUME NEW key \in Resources, NEW record \in resources[key]
             PROVE  /\ Plannable(key, record, zoneOf, liveKeys) \/ Unplaceable(record, zoneOf)
                    /\ StateModelFor(record) # {}
  BY DEF Planned, zoneOf
<1>2. PICK b \in Admins : \E k \in DOMAIN Job[b].resources :
             Accepted(b, k) /\ key = ResourceAt(b, k).name /\ record = ResourceRecord(ResourceAt(b, k))
  BY DEF AdminInv, RecordsOK
<1>3. PICK k \in DOMAIN Job[b].resources :
             Accepted(b, k) /\ key = ResourceAt(b, k).name /\ record = ResourceRecord(ResourceAt(b, k))
  BY <1>2
<1> DEFINE r == ResourceAt(b, k)
<1>4. DeclaredResource(r) /\ AcceptedResource(r) /\ ValidId(key)
  BY <1>3, ApplyJob DEF Accepted, AcceptedResource, ValidResource
<1>5. key = r.name /\ record = ResourceRecord(r)
  BY <1>3
<1> HIDE DEF r
<1>6. /\ record.name = key /\ record.model = "LeaderStandby"
      /\ record.replicas = r.replicas /\ record.lists = r.placement.lists
      /\ record.kind = IF r.placement.kind = "Crush" THEN "CRUSH" ELSE "SEMI_AUTO"
      /\ r.placement.kind = "Crush" => record.partitions = [j \in 1..r.partitions |-> <<r.name, j - 1>>]
  BY <1>5 DEF ResourceRecord
<1>7. CASE r.placement.kind = "Crush"
  <2>1. r.partitions \in Nat /\ r.partitions > 0
    BY <1>4 DEF DeclaredResource, AcceptedResource, ValidResource
  <2>2. record.partitions # <<>> /\ IsInjective(record.partitions)
    BY <1>6, <1>7, <2>1, PartitionsAreNamed
  <2>3. record.kind = "CRUSH"
    BY <1>6, <1>7
  <2>4. CrushAccepts(record, zoneOf, liveKeys) \/ Unplaceable(record, zoneOf)
    BY <2>2, <2>3 DEF CrushAccepts, Unplaceable
  <2> QED  BY <1>1, <1>4, <1>6, <2>3, <2>4 DEF Plannable, StateModelFor
<1>8. CASE r.placement.kind = "SemiAuto"
  <2>1. record.kind = "SEMI_AUTO"
    BY <1>6, <1>8
  <2>2. IdealStateBuilds(record.replicas, record.lists)
    BY <1>4, <1>6, <1>8, ListsBuild
  <2>3. \A p \in DOMAIN record.lists : ValidId(p) /\ \A j \in DOMAIN record.lists[p] : ValidId(record.lists[p][j])
    BY <1>4, <1>6 DEF AcceptedResource
  <2> QED  BY <1>1, <1>4, <1>6, <2>1, <2>2, <2>3 DEF Plannable, StateModelFor
<1> QED  BY <1>4, <1>7, <1>8 DEF DeclaredResource

\* throttles: an accepted limit keeps its scope, its name and its bound.
LEMMA LimitIsEnforced ==
  ASSUME NEW limit, DeclaredLimit(limit), SoundRecord(LimitRecord(limit))
  PROVE  /\ ThrottleAccepted(LimitRecord(limit))
         /\ ThrottleConfig(LimitRecord(limit)).max = limit.max
         /\ ThrottleConfig(LimitRecord(limit)).name = IF limit.target = "Cluster" THEN Absent ELSE limit.name
<1> DEFINE record == LimitRecord(limit)
<1>1. /\ limit.target = "Cluster" => record.scope = "CLUSTER"
      /\ limit.target = "Resource" => record.scope = "RESOURCE"
      /\ limit.target = "Instance" => record.scope = "INSTANCE"
  BY DEF LimitRecord
<1>2. record.type \in {"ANY", "RECOVERY_BALANCE", "LOAD_BALANCE"}
  BY DEF LimitRecord, DeclaredLimit
<1>3. /\ record.resource = IF limit.target = "Resource" THEN limit.name ELSE Absent
      /\ record.instance = IF limit.target = "Instance" THEN limit.name ELSE Absent
      /\ record.max = limit.max
  BY DEF LimitRecord
<1>4. SoundRecord(record)
  OBVIOUS
<1>5. limit.target \in {"Cluster", "Resource", "Instance"}
  BY DEF DeclaredLimit
<1> HIDE DEF record
<1>6. ThrottleAccepted(record)
  BY <1>1, <1>2, <1>3, <1>4, <1>5 DEF ThrottleAccepted, SoundRecord
<1>7. /\ ThrottleConfig(record).max = limit.max
      /\ ThrottleConfig(record).name = IF limit.target = "Cluster" THEN Absent ELSE limit.name
  BY <1>1, <1>3, <1>5 DEF ThrottleConfig
<1> QED  BY <1>6, <1>7 DEF record

LEMMA LimitsAreEnforced ==
  ASSUME AdministrationAssumption, AdminInv
  PROVE  Enforced
<1> SUFFICES ASSUME NEW a \in Admins, Applies(a), limits = LimitRecords(a), NEW k \in DOMAIN limits
             PROVE  /\ ThrottleAccepted(limits[k])
                    /\ ThrottleConfig(limits[k]).max = Job[a].limits[k].max
                    /\ ThrottleConfig(limits[k]).name =
                         IF Job[a].limits[k].target = "Cluster" THEN Absent ELSE Job[a].limits[k].name
  BY DEF Enforced
<1>1. k \in DOMAIN Job[a].limits /\ limits[k] = LimitRecord(Job[a].limits[k])
  BY DEF LimitRecords
<1>2. DeclaredLimit(Job[a].limits[k])
  BY <1>1 DEF AdministrationAssumption
<1>3. SoundRecord(limits[k])
  BY DEF AdminInv, LimitsOK
<1> QED  BY <1>1, <1>2, <1>3, LimitIsEnforced

LEMMA InvariantPlans ==
  ASSUME AdministrationAssumption, AdminInv
  PROVE  AppliedIsPlanned
<1>1. ASSUME NEW a \in Admins, Applies(a), admin[a].pc = "ok"
      PROVE  Stored(a)
  BY <1>1 DEF AdminInv, ProgressOK
<1>2. ASSUME NEW r \in AllResources
      PROVE  Asked(r, ResourceRecord(r))
  <2>1. DeclaredResource(r)
    BY DEF AllResources, AdministrationAssumption
  <2> QED  BY <2>1, RecordAsks
<1> QED  BY <1>1, <1>2, StoredIsPlanned, LimitsAreEnforced DEF AppliedIsPlanned
-----------------------------------------------------------------------------
\* At every moment of any number of jobs, the instances an apply has put so far are
\* configured and the resources it has put are stored, unless another job is
\* about them (Admin::apply, put_instance, put_resource); whatever is stored
\* has passed the checks on its way in; and a compare-and-put is tried less
\* than ADMIN_CAS_RETRIES times.
THEOREM AdminInvariant ==
  ASSUME AdministrationAssumption
  PROVE  AdminSpec => []AdminInv
<1>1. AdminInit => AdminInv
  BY AdminStarts
<1>2. AdminInv /\ [AdminNext]_adminVars => AdminInv'
  BY AdminStep
<1> QED  BY <1>1, <1>2, PTL DEF AdminSpec

\* A specification whose apply has returned is stored, and the controller plans
\* with all that is stored and finds in it what was declared (put_resource and
\* put_transition_limits against resource_plans and throttles).
THEOREM AppliedPlanned ==
  ASSUME AdministrationAssumption
  PROVE  AdminSpec => []AppliedIsPlanned
<1>1. AdminInv => AppliedIsPlanned
  BY InvariantPlans
<1> QED  BY <1>1, AdminInvariant, PTL
-----------------------------------------------------------------------------
(***************************************************************************)
(* Placement.                                                              *)
(***************************************************************************)
Distinct(s) == \A j, k \in DOMAIN s : j # k => s[j] # s[k]

\* What a call of select_nodes_of_type has selected so far: children of its parent that
\* are available and not excluded, none twice.
SelectionOK ==
  /\ Distinct(call.selected)
  /\ \A c \in Chosen(call.selected) :
       c \in Children(call.parent) /\ c \notin call.excluded /\ ~Unavailable(c)

\* A call for instances excludes the ones that are listed.
FlatCall ==
  /\ call.parent = Root /\ call.excluded = Chosen(nodes)
  /\ Len(nodes) + Len(call.selected) + call.left <= replicas

\* A call for zones excludes the ones of this and of earlier attempts, and these hold
\* every instance that is listed.
ZoneCall ==
  /\ call.excluded = selectedZones
  /\ \A i \in Chosen(nodes) : ZoneOf[i] \in selectedZones
  /\ Len(nodes) + Len(call.selected) + call.left <= replicas

\* A call for the instance of a zone: neither its zone nor one that is still to come
\* holds an instance that is listed, and there is room for one instance of each.
EndNodeCall ==
  /\ call.parent \in selectedZones /\ Chosen(zones) \subseteq selectedZones
  /\ Distinct(zones) /\ call.parent \notin Chosen(zones)
  /\ \A i \in Chosen(nodes) :
       ZoneOf[i] \in selectedZones /\ ZoneOf[i] # call.parent /\ ZoneOf[i] \notin Chosen(zones)
  /\ Len(call.selected) + call.left <= 1
  /\ Len(nodes) + Len(zones) + 1 <= replicas

\* The inductive invariant: the list that stands is spread, and the call that runs can
\* only extend it to one that is.
CrushInv ==
  /\ CrushTypeOK
  /\ Spread(nodes) /\ Chosen(nodes) \subseteq liveInstances /\ Len(nodes) <= replicas
  /\ pc = "done" => Len(nodes) >= replicas \/ tries = MaxRetry
  /\ pc = "search" =>
       /\ SelectionOK /\ tries < MaxRetry
       /\ flat => FlatCall
       /\ ~flat /\ call.parent = Root => ZoneCall
       /\ ~flat /\ call.parent # Root => EndNodeCall

-----------------------------------------------------------------------------
(* Sequences.                                                              *)

\* What Append adds to the elements of a list, and when it keeps them distinct.
LEMMA Appended ==
  ASSUME NEW S, NEW s \in Seq(S), NEW c \in S
  PROVE  /\ Append(s, c) \in Seq(S) /\ Len(Append(s, c)) = Len(s) + 1
         /\ Chosen(Append(s, c)) = Chosen(s) \cup {c}
         /\ Distinct(s) /\ c \notin Chosen(s) => Distinct(Append(s, c))
<1>1. Append(s, c) \in Seq(S) /\ Len(Append(s, c)) = Len(s) + 1
  BY SMT
<1>2. DOMAIN s = 1 .. Len(s) /\ DOMAIN Append(s, c) = 1 .. Len(s) + 1 /\ Len(s) \in Nat
  BY SMT, <1>1
<1>3. /\ \A k \in 1 .. Len(s) : Append(s, c)[k] = s[k]
      /\ Append(s, c)[Len(s) + 1] = c
  BY SMT
<1>4. Chosen(Append(s, c)) = Chosen(s) \cup {c}
  <2>1. ASSUME NEW x \in Chosen(Append(s, c)) PROVE x \in Chosen(s) \cup {c}
    <3>1. PICK k \in 1 .. Len(s) + 1 : x = Append(s, c)[k]
      BY <1>2 DEF Chosen
    <3>2. CASE k \in 1 .. Len(s)
      BY <3>1, <3>2, <1>2, <1>3 DEF Chosen
    <3>3. CASE k = Len(s) + 1
      BY <3>1, <3>3, <1>3
    <3> QED  BY SMT, <1>2, <3>2, <3>3
  <2>2. ASSUME NEW x \in Chosen(s) PROVE x \in Chosen(Append(s, c))
    <3>1. PICK k \in 1 .. Len(s) : x = s[k]
      BY <1>2 DEF Chosen
    <3>2. k \in 1 .. Len(s) + 1 /\ x = Append(s, c)[k]
      BY SMT, <3>1, <1>2, <1>3
    <3> QED  BY <3>2, <1>2 DEF Chosen
  <2>3. c \in Chosen(Append(s, c))
    <3>1. Len(s) + 1 \in 1 .. Len(s) + 1
      BY SMT, <1>2
    <3> QED  BY <3>1, <1>2, <1>3 DEF Chosen
  <2> QED  BY <2>1, <2>2, <2>3
<1>5. ASSUME Distinct(s), c \notin Chosen(s),
             NEW j \in 1 .. Len(s) + 1, NEW k \in 1 .. Len(s) + 1, j # k
      PROVE  Append(s, c)[j] # Append(s, c)[k]
  <2>1. \A i \in 1 .. Len(s) : s[i] # c
    BY <1>5, <1>2 DEF Chosen
  <2>2. CASE j \in 1 .. Len(s) /\ k \in 1 .. Len(s)
    BY <1>5, <2>2, <1>2, <1>3 DEF Distinct
  <2>3. CASE j = Len(s) + 1
    <3>1. k \in 1 .. Len(s)
      BY SMT, <1>5, <2>3, <1>2
    <3> QED  BY <3>1, <2>1, <2>3, <1>3
  <2>4. CASE k = Len(s) + 1
    <3>1. j \in 1 .. Len(s)
      BY SMT, <1>5, <2>4, <1>2
    <3> QED  BY <3>1, <2>1, <2>4, <1>3
  <2> QED  BY SMT, <2>2, <2>3, <2>4, <1>2
<1> QED  BY <1>1, <1>2, <1>4, <1>5 DEF Distinct

\* The elements of a list and of one put behind it.
LEMMA Concatenated ==
  ASSUME NEW S, NEW s \in Seq(S), NEW t \in Seq(S)
  PROVE  /\ s \o t \in Seq(S) /\ Len(s \o t) = Len(s) + Len(t)
         /\ DOMAIN (s \o t) = 1 .. Len(s) + Len(t)
         /\ \A k \in 1 .. Len(s) + Len(t) :
              \/ k \in 1 .. Len(s) /\ (s \o t)[k] = s[k]
              \/ k - Len(s) \in 1 .. Len(t) /\ (s \o t)[k] = t[k - Len(s)]
         /\ Chosen(s \o t) = Chosen(s) \cup Chosen(t)
<1>1. s \o t \in Seq(S) /\ Len(s \o t) = Len(s) + Len(t) /\ Len(s) \in Nat /\ Len(t) \in Nat
  BY SMT
<1>2. DOMAIN (s \o t) = 1 .. Len(s) + Len(t) /\ DOMAIN s = 1 .. Len(s) /\ DOMAIN t = 1 .. Len(t)
  BY SMT, <1>1
<1>3. \A k \in 1 .. Len(s) + Len(t) :
        /\ k <= Len(s) => (s \o t)[k] = s[k]
        /\ k > Len(s) => (s \o t)[k] = t[k - Len(s)]
  BY SMT
<1>4. \A k \in 1 .. Len(s) + Len(t) :
        \/ k \in 1 .. Len(s) /\ (s \o t)[k] = s[k]
        \/ k - Len(s) \in 1 .. Len(t) /\ (s \o t)[k] = t[k - Len(s)]
  BY SMT, <1>1, <1>3
<1>5. Chosen(s \o t) \subseteq Chosen(s) \cup Chosen(t)
  BY <1>2, <1>4 DEF Chosen
<1>6. Chosen(s) \subseteq Chosen(s \o t)
  <2>1. ASSUME NEW k \in 1 .. Len(s) PROVE s[k] \in Chosen(s \o t)
    <3>1. k \in 1 .. Len(s) + Len(t) /\ (s \o t)[k] = s[k]
      BY SMT, <1>1, <1>3
    <3> QED  BY <3>1, <1>2 DEF Chosen
  <2> QED  BY <2>1, <1>2 DEF Chosen
<1>7. Chosen(t) \subseteq Chosen(s \o t)
  <2>1. ASSUME NEW k \in 1 .. Len(t) PROVE t[k] \in Chosen(s \o t)
    <3>1. k + Len(s) \in 1 .. Len(s) + Len(t) /\ k + Len(s) > Len(s) /\ (k + Len(s)) - Len(s) = k
      BY SMT, <1>1
    <3>2. (s \o t)[k + Len(s)] = t[k]
      BY <3>1, <1>3
    <3> QED  BY <3>1, <3>2, <1>2 DEF Chosen
  <2> QED  BY <2>1, <1>2 DEF Chosen
<1> QED  BY <1>1, <1>2, <1>4, <1>5, <1>6, <1>7

\* A list is over any set that has its elements.
LEMMA OfElements ==
  ASSUME NEW S, NEW T, NEW s \in Seq(S), \A c \in Chosen(s) : c \in T
  PROVE  s \in Seq(T)
<1>1. Len(s) \in Nat /\ DOMAIN s = 1 .. Len(s)
  BY SMT
<1>2. \A k \in 1 .. Len(s) : s[k] \in T
  BY <1>1 DEF Chosen
<1>3. s \in [1 .. Len(s) -> T]
  BY SMT, <1>1, <1>2
<1> QED  BY SMT, <1>1, <1>3

\* Taking the head off a list of distinct elements.
LEMMA HeadAndTail ==
  ASSUME NEW S, NEW s \in Seq(S), s # <<>>
  PROVE  /\ Head(s) \in S /\ Tail(s) \in Seq(S) /\ Len(s) \in Nat \ {0} /\ Len(Tail(s)) = Len(s) - 1
         /\ Chosen(s) = {Head(s)} \cup Chosen(Tail(s))
         /\ Distinct(s) => Distinct(Tail(s)) /\ Head(s) \notin Chosen(Tail(s))
<1>1. /\ Head(s) \in S /\ Tail(s) \in Seq(S) /\ Len(s) \in Nat \ {0} /\ Len(Tail(s)) = Len(s) - 1
      /\ Head(s) = s[1] /\ DOMAIN s = 1 .. Len(s)
  BY SMT
<1>2. DOMAIN Tail(s) = 1 .. Len(s) - 1 /\ \A k \in 1 .. Len(s) - 1 : Tail(s)[k] = s[k + 1]
  BY SMT, <1>1
<1>3. \A k \in 1 .. Len(s) : k = 1 \/ (k - 1 \in 1 .. Len(s) - 1 /\ (k - 1) + 1 = k)
  BY SMT, <1>1
<1>4. \A k \in 1 .. Len(s) - 1 : k + 1 \in 1 .. Len(s) /\ k + 1 # 1
  BY SMT, <1>1
<1>5. 1 \in 1 .. Len(s)
  BY SMT, <1>1
<1>6. Chosen(Tail(s)) \subseteq Chosen(s) /\ Head(s) \in Chosen(s)
  BY <1>1, <1>2, <1>4, <1>5 DEF Chosen
<1>7. \A x \in Chosen(s) : x = Head(s) \/ x \in Chosen(Tail(s))
  <2>1. ASSUME NEW k \in 1 .. Len(s) PROVE s[k] = Head(s) \/ s[k] \in Chosen(Tail(s))
    <3>1. CASE k = 1
      BY <3>1, <1>1
    <3>2. CASE k - 1 \in 1 .. Len(s) - 1 /\ (k - 1) + 1 = k
      <4>1. Tail(s)[k - 1] = s[k]
        BY <3>2, <1>2
      <4> QED  BY <4>1, <3>2, <1>2 DEF Chosen
    <3> QED  BY <3>1, <3>2, <1>3
  <2> QED  BY <2>1, <1>1 DEF Chosen
<1>8. ASSUME Distinct(s) PROVE Distinct(Tail(s)) /\ Head(s) \notin Chosen(Tail(s))
  <2>1. ASSUME NEW j \in 1 .. Len(s) - 1, NEW k \in 1 .. Len(s) - 1, j # k
        PROVE  Tail(s)[j] # Tail(s)[k]
    <3>1. j + 1 \in 1 .. Len(s) /\ k + 1 \in 1 .. Len(s) /\ j + 1 # k + 1
      BY SMT, <2>1, <1>4
    <3> QED  BY SMT, <3>1, <1>1, <1>2, <1>8 DEF Distinct
  <2>2. \A k \in 1 .. Len(s) - 1 : Tail(s)[k] # s[1]
    BY <1>1, <1>2, <1>4, <1>5, <1>8 DEF Distinct
  <2> QED  BY <2>1, <2>2, <1>1, <1>2 DEF Distinct, Chosen
<1> QED  BY <1>1, <1>6, <1>7, <1>8

-----------------------------------------------------------------------------
(* Draws.                                                                  *)

\* A list that is spread, extended by one that is and keeps clear of it.
LEMMA SpreadExtended ==
  ASSUME NEW s \in Seq(Instances), NEW t \in Seq(Instances), Spread(s), Spread(t),
         \A x \in Chosen(s), y \in Chosen(t) : x # y /\ (flat \/ ZoneOf[x] # ZoneOf[y])
  PROVE  Spread(s \o t)
<1>1. SUFFICES ASSUME NEW j \in DOMAIN (s \o t), NEW k \in DOMAIN (s \o t), j # k
      PROVE  (s \o t)[j] # (s \o t)[k] /\ (flat \/ ZoneOf[(s \o t)[j]] # ZoneOf[(s \o t)[k]])
  BY DEF Spread
<1>2. /\ DOMAIN (s \o t) = 1 .. Len(s) + Len(t)
      /\ \A i \in 1 .. Len(s) + Len(t) :
           \/ i \in 1 .. Len(s) /\ (s \o t)[i] = s[i]
           \/ i - Len(s) \in 1 .. Len(t) /\ (s \o t)[i] = t[i - Len(s)]
  BY SMT, Concatenated
<1>3. DOMAIN s = 1 .. Len(s) /\ DOMAIN t = 1 .. Len(t) /\ Len(s) \in Nat /\ Len(t) \in Nat
  BY SMT
<1>4. CASE j \in DOMAIN s /\ (s \o t)[j] = s[j] /\ k \in DOMAIN s /\ (s \o t)[k] = s[k]
  BY <1>1, <1>4 DEF Spread
<1>5. CASE j \in DOMAIN s /\ (s \o t)[j] = s[j]
           /\ k - Len(s) \in DOMAIN t /\ (s \o t)[k] = t[k - Len(s)]
  BY <1>5 DEF Chosen
<1>6. CASE j - Len(s) \in DOMAIN t /\ (s \o t)[j] = t[j - Len(s)]
           /\ k \in DOMAIN s /\ (s \o t)[k] = s[k]
  BY <1>6 DEF Chosen
<1>7. CASE j - Len(s) \in DOMAIN t /\ (s \o t)[j] = t[j - Len(s)]
           /\ k - Len(s) \in DOMAIN t /\ (s \o t)[k] = t[k - Len(s)]
  <2>1. j - Len(s) # k - Len(s)
    BY SMT, <1>1, <1>2, <1>3
  <2> QED  BY <2>1, <1>7 DEF Spread
<1> QED  BY <1>2, <1>3, <1>4, <1>5, <1>6, <1>7

\* The parts of a call that a draw of an unusable child keeps (select_nodes_of_type: a
\* rejection, a loopback, a replica given up).
LEMMA LoopbackKeeps ==
  ASSUME call \in Calls, Searching, Loopback
  PROVE  /\ call' \in Calls /\ call'.parent = call.parent /\ call'.excluded = call.excluded
         /\ call'.selected = call.selected /\ call'.left <= call.left
<1>1. call.left \in Nat /\ call.left > 0 /\ call.loopbacks \in 0 .. MaxLoopback /\ MaxLoopback \in Nat
  BY CrushAssumption DEF Calls, Searching
<1>2. CASE call.loopbacks = MaxLoopback
  <2>1. PICK n : n = call.left - 1
    OBVIOUS
  <2>2. n \in Nat /\ n <= call.left
    BY SMT, <1>1, <2>1
  <2>3. 0 \in 0 .. MaxLoopback
    BY SMT, <1>1
  <2>4. PICK t : t = [call EXCEPT !.left = n, !.rejected = {}, !.loopbacks = 0]
    OBVIOUS
  <2>5. /\ t \in Calls /\ t.parent = call.parent /\ t.excluded = call.excluded
        /\ t.selected = call.selected /\ t.left = n
    BY <2>2, <2>3, <2>4 DEF Calls
  <2>6. call' = t
    BY <1>2, <2>1, <2>4 DEF Loopback
  <2> QED  BY <2>2, <2>5, <2>6
<1>3. CASE call.loopbacks # MaxLoopback
  <2>1. PICK n : n = call.loopbacks + 1
    OBVIOUS
  <2>2. n \in 0 .. MaxLoopback
    BY SMT, <1>1, <1>3, <2>1
  <2>3. PICK t : t = [call EXCEPT !.rejected = {}, !.loopbacks = n]
    OBVIOUS
  <2>4. /\ t \in Calls /\ t.parent = call.parent /\ t.excluded = call.excluded
        /\ t.selected = call.selected /\ t.left = call.left
    BY <2>2, <2>3 DEF Calls
  <2>5. call' = t
    BY <1>3, <2>1, <2>3 DEF Loopback
  <2> QED  BY SMT, <1>1, <2>4, <2>5
<1> QED  BY <1>2, <1>3

\* A draw that selects nothing preserves the invariant.
LEMMA DrawWithoutSelection ==
  ASSUME CrushInv, pc = "search",
         call' \in Calls, call'.parent = call.parent, call'.excluded = call.excluded,
         call'.selected = call.selected, call'.left <= call.left,
         UNCHANGED <<liveInstances, flat, replicas, tries, zones, selectedZones, nodes, pc>>
  PROVE  CrushInv'
<1> USE DEF CrushInv
<1>1. CrushTypeOK'
  BY DEF CrushTypeOK
<1>2. SelectionOK'
  BY DEF SelectionOK, Children, Unavailable, Weight
<1>3. /\ call.left \in Nat /\ call'.left \in Nat /\ Len(nodes) \in Nat /\ Len(call.selected) \in Nat
      /\ Len(zones) \in Nat /\ replicas \in Nat
  BY SMT, CrushAssumption DEF CrushTypeOK, Calls
<1>4. flat => FlatCall'
  BY SMT, <1>3 DEF FlatCall
<1>5. ~flat /\ call.parent = Root => ZoneCall'
  BY SMT, <1>3 DEF ZoneCall
<1>6. ~flat /\ call.parent # Root => EndNodeCall'
  BY SMT, <1>3 DEF EndNodeCall
<1>7. Spread(nodes)'
  BY DEF Spread
<1> QED  BY <1>1, <1>2, <1>4, <1>5, <1>6, <1>7

\* A draw that selects a child preserves it.
LEMMA DrawNewStep ==
  ASSUME CrushInv, NEW c \in Instances \cup Zones, DrawNew(c)
  PROVE  CrushInv'
<1> USE DEF CrushInv
<1>1. /\ call \in Calls /\ pc = "search" /\ call.left \in Nat /\ call.left > 0
      /\ call.selected \in Seq(TreeNodes) /\ c \in TreeNodes /\ 0 \in 0 .. MaxLoopback
      /\ UNCHANGED <<liveInstances, flat, replicas, tries, zones, selectedZones, nodes, pc>>
  BY SMT, CrushAssumption DEF CrushTypeOK, Calls, DrawNew, Searching, TreeNodes
<1>2. c \in Children(call.parent) /\ c \notin Chosen(call.selected) /\ c \notin call.excluded /\ ~Unavailable(c)
  BY DEF DrawNew, Draws, Taken
<1>3. PICK s : s = Append(call.selected, c)
  OBVIOUS
<1>4. /\ s \in Seq(TreeNodes) /\ Len(s) = Len(call.selected) + 1
      /\ Chosen(s) = Chosen(call.selected) \cup {c} /\ Distinct(s)
  BY SMT, <1>1, <1>2, <1>3, Appended DEF SelectionOK
<1>5. PICK n : n = call.left - 1
  OBVIOUS
<1>6. n \in Nat /\ n + 1 = call.left
  BY SMT, <1>1, <1>5
<1>7. PICK t : t = [call EXCEPT !.selected = s, !.left = n, !.rejected = {}, !.loopbacks = 0]
  OBVIOUS
<1>8. /\ t \in Calls /\ t.parent = call.parent /\ t.excluded = call.excluded
      /\ t.selected = s /\ t.left = n
  BY <1>1, <1>4, <1>6, <1>7 DEF Calls
<1>9. call' = t
  BY <1>3, <1>5, <1>7 DEF DrawNew
<1>10. CrushTypeOK'
  BY <1>1, <1>8, <1>9 DEF CrushTypeOK
<1>11. SelectionOK'
  <2>1. \A x \in Chosen(s) : x \in Children(call.parent) /\ x \notin call.excluded /\ ~Unavailable(x)
    BY <1>1, <1>2, <1>4 DEF SelectionOK
  <2>2. \A x \in Chosen(s) : (x \in Children(call.parent))' /\ x \notin call'.excluded /\ ~Unavailable(x)'
    BY <2>1, <1>1, <1>8, <1>9 DEF Children, Unavailable, Weight
  <2> QED  BY <2>2, <1>4, <1>8, <1>9 DEF SelectionOK
<1>12. /\ Len(nodes) \in Nat /\ Len(call.selected) \in Nat /\ Len(zones) \in Nat /\ replicas \in Nat
       /\ Len(nodes) + Len(s) + n = Len(nodes) + Len(call.selected) + call.left
       /\ Len(s) + n = Len(call.selected) + call.left
  <2>1. Len(nodes) \in Nat /\ Len(call.selected) \in Nat /\ Len(zones) \in Nat /\ replicas \in Nat
    BY SMT, <1>1, CrushAssumption DEF CrushTypeOK
  <2> QED  BY SMTT(30), <2>1, <1>4, <1>6
<1>13. flat => FlatCall'
  BY <1>1, <1>8, <1>9, <1>12 DEF FlatCall
<1>14. ~flat /\ call.parent = Root => ZoneCall'
  BY <1>1, <1>8, <1>9, <1>12 DEF ZoneCall
<1>15. ~flat /\ call.parent # Root => EndNodeCall'
  BY <1>1, <1>4, <1>6, <1>8, <1>9, <1>12 DEF EndNodeCall
<1>16. Spread(nodes)'
  BY <1>1 DEF Spread
<1> QED  BY <1>1, <1>8, <1>9, <1>10, <1>11, <1>13, <1>14, <1>15, <1>16

-----------------------------------------------------------------------------
(* Calls that return.                                                      *)

\* The end of an attempt with a list that is spread (select_replicas: the next attempt
\* excludes what this one used).
LEMMA AttemptEnds ==
  ASSUME CrushInv, pc = "search", NEW list \in Seq(Instances), NEW taken \in SUBSET Zones,
         EndAttempt(list, taken), Spread(list), Chosen(list) \subseteq liveInstances, Len(list) <= replicas,
         ~flat => \A i \in Chosen(list) : ZoneOf[i] \in taken,
         selectedZones' = taken, UNCHANGED <<liveInstances, flat, replicas, zones>>
  PROVE  CrushInv'
<1> USE DEF CrushInv
<1>1. /\ nodes' = list /\ Len(list) \in Nat /\ replicas \in Nat /\ call \in Calls
      /\ tries \in Nat /\ tries < MaxRetry /\ MaxRetry \in Nat /\ flat \in BOOLEAN
  BY SMT, CrushAssumption DEF EndAttempt, CrushTypeOK
<1>2. Spread(nodes)'
  BY <1>1 DEF Spread
<1>3. (Chosen(nodes) \subseteq liveInstances)' /\ (Len(nodes) <= replicas)'
  BY <1>1 DEF Chosen
<1>4. tries' \in 0 .. MaxRetry
  BY SMT, <1>1 DEF EndAttempt
<1>5. CASE Len(list) >= replicas \/ tries + 1 >= MaxRetry
  <2>1. pc' = "done" /\ call' = call
    BY <1>5 DEF EndAttempt
  <2>2. CrushTypeOK'
    BY <1>1, <1>4, <2>1 DEF CrushTypeOK
  <2>3. Len(nodes') >= replicas' \/ tries' = MaxRetry
    BY SMT, <1>1, <1>5 DEF EndAttempt
  <2>4. pc' # "search"
    BY <2>1
  <2> QED  BY <2>2, <2>3, <2>4, <1>2, <1>3
<1>6. CASE ~(Len(list) >= replicas \/ tries + 1 >= MaxRetry)
  <2>1. PICK ex : ex = IF flat THEN Chosen(list) ELSE taken
    OBVIOUS
  <2>2. ex \in SUBSET TreeNodes
    BY SMT, <2>1 DEF TreeNodes, Chosen
  <2>3. PICK n : n = replicas - Len(list)
    OBVIOUS
  <2>4. n \in Nat /\ Len(list) + n = replicas
    BY SMT, <1>1, <1>6, <2>3
  <2>5. pc' = "search" /\ call' = Call(Root, n, ex) /\ tries' = tries + 1 /\ tries' < MaxRetry
    BY SMT, <1>1, <1>6, <2>1, <2>3 DEF EndAttempt, FirstCall
  <2>6. /\ call'.parent = Root /\ call'.left = n /\ call'.excluded = ex /\ call'.selected = <<>>
    BY <2>5 DEF Call
  <2>7. call' \in Calls
    <3>1. 0 \in 0 .. MaxLoopback /\ <<>> \in Seq(TreeNodes) /\ {} \in SUBSET TreeNodes /\ Root \in Zones \cup {Root}
      BY SMT, CrushAssumption
    <3> QED  BY <3>1, <2>2, <2>4, <2>5 DEF Call, Calls
  <2>8. CrushTypeOK'
    BY <1>1, <1>4, <2>5, <2>7 DEF CrushTypeOK
  <2>9. SelectionOK'
    BY SMT, <2>6 DEF SelectionOK, Distinct, Chosen
  <2>10. Len(<<>>) = 0 /\ Len(list) + 0 + n <= replicas
    BY SMT, <1>1, <2>4
  <2>11. flat => FlatCall'
    BY <1>1, <2>1, <2>6, <2>10 DEF FlatCall, Chosen
  <2>12. ~flat => ZoneCall'
    BY <1>1, <2>1, <2>6, <2>10 DEF ZoneCall, Chosen
  <2>13. pc' # "done"
    BY <2>5
  <2> QED  BY <1>2, <1>3, <2>5, <2>6, <2>8, <2>9, <2>11, <2>12, <2>13
<1> QED  BY <1>5, <1>6

\* In a flat topology the instances of an attempt are new ones, as many as there is room for.
LEMMA FlatCallReturnsStep ==
  ASSUME CrushInv, FlatCallReturns
  PROVE  CrushInv'
<1> USE DEF CrushInv
<1>1. /\ pc = "search" /\ call.left = 0 /\ flat /\ FlatCall /\ SelectionOK
      /\ EndAttempt(nodes \o call.selected, selectedZones)
      /\ UNCHANGED <<liveInstances, flat, replicas, zones, selectedZones>>
  BY DEF FlatCallReturns
<1>2. nodes \in Seq(Instances) /\ call.selected \in Seq(TreeNodes) /\ selectedZones \in SUBSET Zones
  BY DEF CrushTypeOK, Calls
<1>3. \A c \in Chosen(call.selected) : c \in Instances /\ c \in liveInstances /\ c \notin Chosen(nodes)
  BY <1>1 DEF FlatCall, SelectionOK, Children, Unavailable, Weight
<1>4. call.selected \in Seq(Instances)
  BY <1>2, <1>3, OfElements
<1>5. Spread(call.selected)
  BY <1>1 DEF Spread, SelectionOK, Distinct
<1>6. Spread(nodes \o call.selected)
  BY <1>1, <1>2, <1>3, <1>4, <1>5, SpreadExtended
<1>7. /\ nodes \o call.selected \in Seq(Instances)
      /\ Len(nodes \o call.selected) = Len(nodes) + Len(call.selected)
      /\ Chosen(nodes \o call.selected) = Chosen(nodes) \cup Chosen(call.selected)
  BY SMT, <1>2, <1>4, Concatenated
<1>8. Len(nodes \o call.selected) <= replicas
  <2>1. Len(nodes) \in Nat /\ Len(call.selected) \in Nat /\ replicas \in Nat
    BY SMT, <1>2, CrushAssumption DEF CrushTypeOK
  <2> QED  BY SMT, <2>1, <1>1, <1>7 DEF FlatCall
<1>9. Chosen(nodes \o call.selected) \subseteq liveInstances
  BY <1>3, <1>7
<1> QED  BY <1>1, <1>2, <1>6, <1>7, <1>8, <1>9, AttemptEnds

\* The call for the instance of a zone starts.
LEMMA EndNodeCallStarts ==
  ASSUME CrushInv, pc = "search", ~flat, NEW list \in Seq(Instances), NEW s \in Seq(Zones), s # <<>>,
         NEW taken \in SUBSET Zones,
         Spread(list), Chosen(list) \subseteq liveInstances, Len(list) + Len(s) <= replicas,
         Distinct(s), Chosen(s) \subseteq taken,
         \A i \in Chosen(list) : ZoneOf[i] \in taken /\ ZoneOf[i] \notin Chosen(s),
         nodes' = list, zones' = Tail(s), selectedZones' = taken, call' = Call(Head(s), 1, {}),
         UNCHANGED <<liveInstances, flat, replicas, tries, pc>>
  PROVE  CrushInv'
<1> USE DEF CrushInv
<1>1. /\ Head(s) \in Zones /\ Tail(s) \in Seq(Zones) /\ Len(s) \in Nat \ {0} /\ Len(Tail(s)) = Len(s) - 1
      /\ Chosen(s) = {Head(s)} \cup Chosen(Tail(s)) /\ Distinct(Tail(s)) /\ Head(s) \notin Chosen(Tail(s))
  BY HeadAndTail
<1>2. /\ call'.parent = Head(s) /\ call'.left = 1 /\ call'.excluded = {} /\ call'.selected = <<>>
  BY DEF Call
<1>3. call' \in Calls
  <2>1. 0 \in 0 .. MaxLoopback /\ <<>> \in Seq(TreeNodes) /\ {} \in SUBSET TreeNodes /\ 1 \in Nat
    BY SMT, CrushAssumption
  <2> QED  BY <2>1, <1>1 DEF Call, Calls
<1>4. CrushTypeOK'
  BY <1>1, <1>3 DEF CrushTypeOK
<1>5. SelectionOK'
  BY SMT, <1>2 DEF SelectionOK, Distinct, Chosen
<1>6. Len(list) \in Nat /\ replicas \in Nat
  BY SMT, CrushAssumption DEF CrushTypeOK
<1>7. Len(list) <= replicas /\ Len(list) + Len(Tail(s)) + 1 <= replicas /\ Len(<<>>) + 1 <= 1
  BY SMT, <1>1, <1>6
<1>8. Spread(nodes)'
  BY DEF Spread
<1>9. Chosen(nodes)' = Chosen(list) /\ Chosen(zones)' = Chosen(Tail(s))
  BY DEF Chosen
<1>10. EndNodeCall'
  BY <1>1, <1>2, <1>7, <1>9 DEF EndNodeCall
<1>11. call'.parent # Root
  BY <1>1, <1>2, NodesAssumption
<1> QED  BY <1>4, <1>5, <1>7, <1>8, <1>9, <1>10, <1>11

\* The zones of an attempt are new ones: the instances that are listed are in others.
LEMMA ZoneCallReturnsStep ==
  ASSUME CrushInv, ZoneCallReturns
  PROVE  CrushInv'
<1> USE DEF CrushInv
<1>1. /\ pc = "search" /\ call.left = 0 /\ ~flat /\ call.parent = Root /\ ZoneCall /\ SelectionOK
      /\ selectedZones' = selectedZones \cup Chosen(call.selected)
      /\ UNCHANGED <<liveInstances, flat, replicas>>
  BY DEF ZoneCallReturns
<1>2. nodes \in Seq(Instances) /\ call.selected \in Seq(TreeNodes) /\ selectedZones \in SUBSET Zones
  BY DEF CrushTypeOK, Calls
<1>3. CASE call.selected = <<>>
  <2>1. EndAttempt(nodes, selectedZones) /\ UNCHANGED zones
    BY <1>3 DEF ZoneCallReturns
  <2>2. selectedZones' = selectedZones
    BY SMTT(30), <1>1, <1>3 DEF Chosen
  <2> QED  BY <1>1, <1>2, <2>1, <2>2, AttemptEnds DEF ZoneCall
<1>4. CASE call.selected # <<>>
  <2>1. zones' = Tail(call.selected) /\ call' = Call(Head(call.selected), 1, {}) /\ UNCHANGED <<nodes, tries, pc>>
    BY <1>4 DEF ZoneCallReturns
  <2>2. \A z \in Chosen(call.selected) : z \in Zones /\ z \notin selectedZones
    BY <1>1 DEF ZoneCall, SelectionOK, Children
  <2>3. call.selected \in Seq(Zones)
    BY <1>2, <2>2, OfElements
  <2>4. \A i \in Chosen(nodes) : ZoneOf[i] \in selectedZones' /\ ZoneOf[i] \notin Chosen(call.selected)
    BY <1>1, <2>2 DEF ZoneCall
  <2>5. Len(nodes) + Len(call.selected) <= replicas
    <3>1. Len(nodes) \in Nat /\ Len(call.selected) \in Nat /\ replicas \in Nat
      BY SMT, <1>2, CrushAssumption DEF CrushTypeOK
    <3> QED  BY SMT, <3>1, <1>1 DEF ZoneCall
  <2>6. selectedZones' \in SUBSET Zones /\ Chosen(call.selected) \subseteq selectedZones'
    BY <1>1, <1>2, <2>2
  <2>7. Distinct(call.selected)
    BY <1>1 DEF SelectionOK
  <2>8. PICK taken \in SUBSET Zones : taken = selectedZones'
    BY <2>6
  <2> QED  BY <1>1, <1>2, <1>4, <2>1, <2>3, <2>4, <2>5, <2>6, <2>7, <2>8, EndNodeCallStarts
<1> QED  BY <1>3, <1>4

\* A zone gives one instance at most, the first of its zone on the list.
LEMMA EndNodeCallReturnsStep ==
  ASSUME CrushInv, EndNodeCallReturns
  PROVE  CrushInv'
<1> USE DEF CrushInv
<1>1. /\ pc = "search" /\ call.left = 0 /\ ~flat /\ call.parent # Root /\ EndNodeCall /\ SelectionOK
      /\ UNCHANGED <<liveInstances, flat, replicas, selectedZones>>
  BY DEF EndNodeCallReturns
<1>2. /\ nodes \in Seq(Instances) /\ call.selected \in Seq(TreeNodes) /\ selectedZones \in SUBSET Zones
      /\ zones \in Seq(Zones)
  BY DEF CrushTypeOK, Calls
<1>3. \A c \in Chosen(call.selected) : c \in Instances /\ c \in liveInstances /\ ZoneOf[c] = call.parent
  BY <1>1 DEF SelectionOK, Children, Unavailable, Weight
<1>4. call.selected \in Seq(Instances)
  BY <1>2, <1>3, OfElements
<1>5. Len(nodes) \in Nat /\ Len(call.selected) \in Nat /\ Len(zones) \in Nat /\ replicas \in Nat
  BY SMT, <1>2, CrushAssumption DEF CrushTypeOK
<1>6. Len(call.selected) <= 1
  BY SMT, <1>1, <1>5 DEF EndNodeCall
<1>7. Spread(call.selected)
  <2>1. DOMAIN call.selected = 1 .. Len(call.selected)
    BY SMT, <1>4
  <2>2. \A j, k \in DOMAIN call.selected : j = k
    BY SMT, <2>1, <1>5, <1>6
  <2> QED  BY <2>2 DEF Spread
<1>8. PICK list : list = nodes \o call.selected
  OBVIOUS
<1>9. Spread(list)
  <2>1. \A x \in Chosen(nodes), y \in Chosen(call.selected) : ZoneOf[x] # ZoneOf[y]
    BY <1>1, <1>3 DEF EndNodeCall
  <2>2. \A x \in Chosen(nodes), y \in Chosen(call.selected) : x # y
    BY <2>1
  <2> QED  BY <1>2, <1>4, <1>7, <1>8, <2>1, <2>2, SpreadExtended
<1>10. /\ list \in Seq(Instances) /\ Len(list) = Len(nodes) + Len(call.selected)
       /\ Chosen(list) = Chosen(nodes) \cup Chosen(call.selected)
  BY SMT, <1>2, <1>4, <1>8, Concatenated
<1>11. Chosen(list) \subseteq liveInstances
  BY <1>3, <1>10
<1>12. Len(list) + Len(zones) <= replicas
  BY SMT, <1>1, <1>5, <1>6, <1>10 DEF EndNodeCall
<1>13. \A i \in Chosen(list) : ZoneOf[i] \in selectedZones /\ ZoneOf[i] \notin Chosen(zones)
  BY <1>1, <1>3, <1>10 DEF EndNodeCall
<1>14. CASE zones = <<>>
  <2>1. EndAttempt(list, selectedZones) /\ UNCHANGED zones
    BY <1>8, <1>14 DEF EndNodeCallReturns
  <2>2. Len(list) <= replicas
    BY SMT, <1>5, <1>10, <1>12
  <2> QED  BY <1>1, <1>2, <1>9, <1>10, <1>11, <1>13, <2>1, <2>2, AttemptEnds
<1>15. CASE zones # <<>>
  <2>1. nodes' = list /\ zones' = Tail(zones) /\ call' = Call(Head(zones), 1, {}) /\ UNCHANGED <<tries, pc>>
    BY <1>8, <1>15 DEF EndNodeCallReturns
  <2>2. Distinct(zones) /\ Chosen(zones) \subseteq selectedZones
    BY <1>1 DEF EndNodeCall
  <2> QED  BY <1>1, <1>2, <1>9, <1>10, <1>11, <1>12, <1>13, <1>15, <2>1, <2>2, EndNodeCallStarts
<1> QED  BY <1>14, <1>15

-----------------------------------------------------------------------------
(* The theorems.                                                           *)

\* Before the first draw nothing is listed and everything may be selected.
LEMMA CrushInvInit ==
  ASSUME CrushInit
  PROVE  CrushInv
<1>1. replicas \in Nat /\ MaxRetry \in Nat \ {0} /\ MaxLoopback \in Nat
  BY CrushAssumption DEF CrushInit
<1>2. call = Call(Root, replicas, {})
  BY DEF CrushInit, FirstCall
<1>3. call.parent = Root /\ call.left = replicas /\ call.excluded = {} /\ call.selected = <<>>
  BY <1>2 DEF Call
<1>4. call \in Calls
  <2>1. 0 \in 0 .. MaxLoopback /\ <<>> \in Seq(TreeNodes) /\ {} \in SUBSET TreeNodes /\ Root \in Zones \cup {Root}
    BY SMT, <1>1
  <2> QED  BY <2>1, <1>1, <1>2 DEF Call, Calls
<1>5. /\ nodes = <<>> /\ zones = <<>> /\ selectedZones = {} /\ tries = 0 /\ flat \in BOOLEAN
      /\ liveInstances \subseteq Instances /\ replicas \in Counts
      /\ pc = IF replicas = 0 THEN "done" ELSE "search"
  BY DEF CrushInit
<1>6. CrushTypeOK
  <2>1. nodes \in Seq(Instances) /\ zones \in Seq(Zones) /\ tries \in 0 .. MaxRetry
    BY SMT, <1>1, <1>5
  <2> QED  BY <2>1, <1>4, <1>5 DEF CrushTypeOK
<1>7. Len(nodes) = 0 /\ Chosen(nodes) = {} /\ DOMAIN nodes = {}
  BY SMT, <1>5 DEF Chosen
<1>8. Spread(nodes)
  BY <1>7 DEF Spread
<1>9. SelectionOK
  BY SMT, <1>3 DEF SelectionOK, Distinct, Chosen
<1>10. Len(call.selected) = 0 /\ 0 + 0 + replicas <= replicas /\ 0 <= replicas /\ tries < MaxRetry
  BY SMT, <1>1, <1>3, <1>5
<1>11. FlatCall
  BY <1>3, <1>7, <1>10 DEF FlatCall
<1>12. ZoneCall
  BY <1>3, <1>5, <1>7, <1>10 DEF ZoneCall
<1>13. pc = "done" => Len(nodes) >= replicas
  BY SMT, <1>1, <1>5, <1>7
<1> QED  BY <1>3, <1>6, <1>7, <1>8, <1>9, <1>10, <1>11, <1>12, <1>13 DEF CrushInv

\* Every draw and every return of a call preserves the invariant.
LEMMA CrushStep ==
  ASSUME CrushInv, [CrushNext]_crushVars
  PROVE  CrushInv'
<1>1. CASE UNCHANGED crushVars
  BY SMTT(30), <1>1 DEF CrushInv, crushVars, CrushTypeOK, Spread, Chosen, SelectionOK, Distinct, Children, Unavailable,
              Weight, FlatCall, ZoneCall, EndNodeCall
<1>2. ASSUME NEW c \in Instances \cup Zones, DrawTaken(c) PROVE CrushInv'
  <2>1. /\ pc = "search" /\ call \in Calls /\ Searching
        /\ UNCHANGED <<liveInstances, flat, replicas, tries, zones, selectedZones, nodes, pc>>
    BY <1>2 DEF DrawTaken, Searching, CrushInv, CrushTypeOK
  <2>2. CASE Loopback
    BY <2>1, <2>2, LoopbackKeeps, DrawWithoutSelection
  <2>3. CASE call' = [call EXCEPT !.rejected = call.rejected \cup {c}]
    <3>1. PICK r : r = call.rejected \cup {c}
      OBVIOUS
    <3>2. r \in SUBSET TreeNodes
      BY <3>1, <2>1 DEF Calls, TreeNodes
    <3>3. call' = [call EXCEPT !.rejected = r]
      BY <2>3, <3>1
    <3>4. /\ call' \in Calls /\ call'.parent = call.parent /\ call'.excluded = call.excluded
          /\ call'.selected = call.selected /\ call'.left = call.left
      BY <2>1, <3>2, <3>3 DEF Calls
    <3>5. call'.left <= call.left
      BY SMT, <2>1, <3>4 DEF Calls
    <3> QED  BY <2>1, <3>4, <3>5, DrawWithoutSelection
  <2> QED  BY <1>2, <2>2, <2>3 DEF DrawTaken
<1>3. ASSUME NEW c \in Instances \cup Zones, DrawUnavailable(c) PROVE CrushInv'
  <2>1. /\ pc = "search" /\ call \in Calls /\ Searching /\ Loopback
        /\ UNCHANGED <<liveInstances, flat, replicas, tries, zones, selectedZones, nodes, pc>>
    BY <1>3 DEF DrawUnavailable, Searching, CrushInv, CrushTypeOK
  <2> QED  BY <2>1, LoopbackKeeps, DrawWithoutSelection
<1> QED  BY <1>1, <1>2, <1>3, DrawNewStep, FlatCallReturnsStep, ZoneCallReturnsStep,
            EndNodeCallReturnsStep DEF CrushNext

\* At every step of compute_crush_assignment the call of select_nodes_of_type that runs
\* can only extend the list by instances that are not on it, and in other fault zones.
THEOREM CrushInvariant == CrushSpec => []CrushInv
<1> QED  BY CrushInvInit, CrushStep, PTL DEF CrushSpec

\* A preference list of compute_crush_assignment holds live instances, none twice, no two
\* of one fault zone and no more than asked for, and is shorter only after every retry:
\* for every topology, however the hash falls, and for every MAX_RETRY and
\* MAX_LOOPBACK_COUNT.
THEOREM CrushSpread == CrushSpec => []PlacementIsSpread
<1>1. CrushInv => PlacementIsSpread
  <2>1. CrushInv => Len(nodes) \in Nat /\ replicas \in Nat
    BY SMT, CrushAssumption DEF CrushInv, CrushTypeOK
  <2> QED  BY SMT, <2>1 DEF CrushInv, PlacementIsSpread
<1> QED  BY <1>1, CrushInvariant, PTL
=============================================================================
