---------------------------- MODULE MCComponents ----------------------------
(***************************************************************************)
(* Components side by side, each on its own: CRUSH placement (module       *)
(* Crush), the builder of state models (StateModel), the tasks of a        *)
(* participant (Workers), participant sessions (Registration, as it is and *)
(* with processes that follow one another) and administrators              *)
(* (Administration).  A behaviour is one of one of them; the others stay   *)
(* in an initial state.                                                    *)
(***************************************************************************)
EXTENDS Crush, Workers, Administration, TLC

CONSTANTS m1, m2, m3, p1, p2, n1, n2, n3, i1, i2, i3, i4, a1, a2, a3, a4

VARIABLES
  part,
  builder, result,
  sLive, known, record, sequence, leases, proc, operator

\* Two instances share a zone.
MCZoneOf == (i1 :> "z1") @@ (i2 :> "z1") @@ (i3 :> "z2") @@ (i4 :> "z3")

M == INSTANCE StateModel WITH
       Names <- <<"LEADER", "STANDBY", "OFFLINE", "DROPPED">>, MaxStates <- 4, MaxTransitions <- 5

\* A participant with two partitions; at the start its queue is empty, or holds a message
\* of an earlier session, or one of this session.
MCPartOf == (m1 :> p1) @@ (m2 :> p1) @@ (m3 :> p2)

MCBacklogs ==
  {[queue |-> {}, old |-> {}], [queue |-> {m1}, old |-> {m1}], [queue |-> {m2}, old |-> {}]}

ASSUME WorkersConstants == WorkersAssumption

R == INSTANCE Registration WITH Procs <- {n1, n2}, Instances <- {i1, i2},
       InstanceOf <- (n1 :> i1) @@ (n2 :> i1), Parts <- {p1}, States <- {"OFFLINE", "LEADER"},
       Initial <- "OFFLINE", MaxTries <- 2, MaxSession <- 2, Batch <- 1, live <- sLive

S == INSTANCE Registration WITH Procs <- {n1, n2, n3}, Instances <- {i1, i2},
       InstanceOf <- (n1 :> i1) @@ (n2 :> i1) @@ (n3 :> i2), Parts <- {p1},
       States <- {"OFFLINE", "LEADER"}, Initial <- "OFFLINE", MaxTries <- 1, MaxSession <- 3, Batch <- 1,
       live <- sLive

ASSUME RegistrationConstants == R!RegistrationAssumption /\ S!RegistrationAssumption

\* Two specifications that disagree on an instance and on a resource, the first of them
\* with a topology CRUSH does not support, the second with a partition name put_resource
\* rejects; and a removal, with limits that are set below the facade.
Config(name, namespace) == [cluster |-> name, namespace |-> namespace, endpoints |-> <<"etcd">>]

Jobs ==
  (a1 :> [kind |-> "apply", config |-> Config("c", "ns"), runs |-> 2,
          instances |-> <<[Instance(i1) EXCEPT !.zone = "z1"], Instance(i2)>>,
          resources |-> <<[LeaderStandbyResource("r1") EXCEPT !.partitions = 1, !.replicas = 2,
                             !.placement = SemiAuto("r1_0" :> <<i1, i2>>)],
                          [LeaderStandbyResource("r2") EXCEPT !.partitions = 2, !.replicas = 1,
                             !.placement = CrushWithTopology(
                               Topology(<<"rack", "zone", "instance">>, "zone", "instance"))]>>,
          limits |-> <<Limit("Cluster", Absent, 1),
                       [Limit("Instance", i1, 2) EXCEPT !.type = "LoadBalance"]>>])
  @@ (a2 :> [kind |-> "apply", config |-> Config("c", "ns"), runs |-> 1,
             instances |-> <<[Instance(i1) EXCEPT !.zone = "z2"]>>,
             resources |-> <<[LeaderStandbyResource("r1") EXCEPT !.partitions = 2, !.replicas = 1,
                                !.placement = CrushWithTopology(ZonesTopology)],
                             [LeaderStandbyResource("r3") EXCEPT !.partitions = 1, !.replicas = 1,
                                !.placement = SemiAuto("" :> <<i1>>)]>>,
             limits |-> <<>>])
  @@ (a3 :> [kind |-> "remove", config |-> Config("c", "ns"), runs |-> 1, instance |-> i1,
             limits |-> <<[scope |-> "ZONE", type |-> "ANY", max |-> 1]>>])

\* Applications that do not fit: two that name the cluster differently and ask for what
\* cannot be done, and two with a namespace and endpoints that are refused.
Misfits ==
  (a1 :> [kind |-> "drop", config |-> Config("c", "ns"), runs |-> 1, limits |-> <<>>])
  @@ (a2 :> [kind |-> "drop", config |-> Config("d", "ns"), runs |-> 2, limits |-> <<>>])
  @@ (a3 :> [kind |-> "drop", config |-> Config("c", "/"), runs |-> 2, limits |-> <<>>])
  @@ (a4 :> [kind |-> "drop", config |-> [Config("c", "ns") EXCEPT !.endpoints = <<"">>], runs |-> 2,
             limits |-> <<>>])

B == INSTANCE Administration WITH Admins <- {a1, a2, a3, a4}, Job <- Misfits

ASSUME AdministrationConstants == AdministrationAssumption /\ B!AdministrationAssumption

modelVars == <<builder, result>>
sessionsVars == <<sLive, known, record, sequence, leases, proc, operator>>
allVars == <<part, crushVars, modelVars, vars, sessionsVars, adminVars>>

ComponentsInit ==
  /\ part \in {"crush", "model", "workers", "sessions", "serial", "administration", "misfits"}
  /\ CrushInit /\ (part # "crush" => liveInstances = {} /\ flat /\ replicas = 0)
  /\ M!Init /\ (part # "model" => builder.name = "model")
  /\ Init /\ (part # "workers" => images = <<{}>>)
  /\ IF part = "misfits" THEN B!AdminInit ELSE AdminInit
  /\ IF part = "serial" THEN S!RegInit ELSE R!RegInit

ComponentsNext ==
  /\ UNCHANGED part
  /\ \/ part = "crush" /\ CrushNext /\ UNCHANGED <<modelVars, vars, sessionsVars, adminVars>>
     \/ part = "model" /\ M!Next /\ UNCHANGED <<crushVars, vars, sessionsVars, adminVars>>
     \/ part = "workers" /\ Next /\ UNCHANGED <<crushVars, modelVars, sessionsVars, adminVars>>
     \/ part = "sessions" /\ R!RegNext /\ UNCHANGED <<crushVars, modelVars, vars, adminVars>>
     \/ part = "serial" /\ S!SerialNext /\ UNCHANGED <<crushVars, modelVars, vars, adminVars>>
     \/ part = "administration" /\ AdminNext /\ UNCHANGED <<crushVars, modelVars, vars, sessionsVars>>
     \/ part = "misfits" /\ B!AdminNext /\ UNCHANGED <<crushVars, modelVars, vars, sessionsVars>>

ComponentsSpec == ComponentsInit /\ [][ComponentsNext]_allVars

\* The component that takes the steps is well typed; the others are in an initial state.
ComponentsTypeOK ==
  CASE part = "crush"          -> CrushTypeOK
    [] part = "model"          -> M!TypeOK
    [] part = "workers"        -> TypeOK
    [] part = "sessions"       -> R!TypeOK
    [] part = "serial"         -> S!TypeOK
    [] part = "administration" -> AdminTypeOK
    [] part = "misfits"        -> B!AdminTypeOK

\* A replica that is sent hop by hop takes a shortest way (next_state_toward).
RoutesAreShortest == M!RoutesAreShortest

\* The removal of a resource's CurrentState leaves exactly what is written after its keys
\* are listed or deleted (remove_current_states_for_resource).
RemovalIsExact == R!RemovalIsExact

\* Registration in etcd does what the in-memory session registry does (model/session.rs),
\* as long as the processes of an instance follow one another.
SessionsImplemented == [][part = "serial" => S!Next \/ UNCHANGED <<sLive, known, record>>]_allVars

=============================================================================
