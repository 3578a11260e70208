-------------------------------- MODULE Store --------------------------------
(***************************************************************************)
(* The etcd namespace the control plane shares: every key the controller,  *)
(* the participants and the administrator read or write, and the revision  *)
(* counter.  A transaction is one action.  `rev` is etcd's revision with   *)
(* the writes removed whose revision no compare and no message id refers   *)
(* to: those to the session sequence and the election keys.                *)
(*                                                                         *)
(* An operator whose comment begins with "Mutant" is a plausible mistake   *)
(* in the definition that follows it.  No specification uses it.           *)
(***************************************************************************)
EXTENDS Planner

CONSTANTS
  Controllers,
  InitPlacement,
  InitConfigured,
  NoView,        \* the external-view key before the first publication
  MaxRevision,   \* bound on rev
  MaxSession     \* bound on the session sequence

ASSUME BoundAssumption == MaxRevision \in Nat /\ MaxSession \in Nat

ASSUME ControllerAssumption == "none" \notin Controllers

ASSUME InitAssumption == InitPlacement \in Placements /\ InitConfigured \subseteq Instances

VARIABLES
  rev,         \* the store revision
  marker,      \* mod revision of the authoritative-input marker
  live,        \* LiveInstance key: the session of each instance, 0 if absent
  sequence,    \* the session-sequence key
  registered,  \* session markers: the instance of each registered session
  current,     \* CurrentState keys by session and partition
  configured,  \* instance configs
  placement,   \* the resource record
  queue,       \* controller/output/pending-transitions
  queueRev,    \* its mod revision, 0 if absent
  view,        \* controller/output/external-view
  processed,   \* controller/output/processed-revision
  active,      \* the active-controller key: its controller and lease
  deleted      \* revision of the last lease-backed deletion of a live key

inputVars  == <<sequence, registered, current, configured, placement>>
outputVars == <<queue, queueRev, view, processed>>
storeVars  == <<rev, marker, live, inputVars, outputVars, active, deleted>>

Sessions == 1..MaxSession

NoOne == [controller |-> "none", lease |-> 0]

Messages ==
  [id : Nat, part : Partitions, inst : Instances, sess : Sessions,
   from : ReplicaStates, to : TargetStates]

Views == [Partitions -> [Instances -> ReplicaStates \cup {ABSENT}]]

\* A key that is absent has no value.
ASSUME ViewAssumption == NoView \notin Views

NoReplicas == [p \in Partitions |-> ABSENT]

StoreTypeOK ==
  /\ rev \in Nat /\ marker \in Nat /\ queueRev \in Nat
  /\ processed \in Nat /\ deleted \in Nat
  /\ live \in [Instances -> {0} \cup Sessions]
  /\ sequence \in 0..MaxSession
  /\ registered \in [Sessions -> Instances \cup {ABSENT}]
  /\ current \in [Sessions -> [Partitions -> ReplicaStates \cup {ABSENT}]]
  /\ configured \in SUBSET Instances
  /\ placement \in Placements
  /\ queue \subseteq Messages
  /\ view \in Views \cup {NoView}
  /\ active \in [controller : Controllers \cup {"none"}, lease : Nat]

\* The namespace after ensure_cluster and the first Admin::apply.
StoreInit ==
  /\ rev = 1 /\ marker = 1
  /\ live = [i \in Instances |-> 0]
  /\ sequence = 0
  /\ registered = [s \in Sessions |-> ABSENT]
  /\ current = [s \in Sessions |-> NoReplicas]
  /\ configured = InitConfigured
  /\ placement = InitPlacement
  /\ queue = {} /\ queueRev = 0
  /\ view = NoView /\ processed = 0
  /\ active = NoOne
  /\ deleted = 0

-----------------------------------------------------------------------------
\* The revision the next write gets, and its bound.
NewRev == rev + 1

CanWrite == rev < MaxRevision

\* A write to authoritative input puts the marker in the same transaction.
WriteInput == CanWrite /\ rev' = NewRev /\ marker' = NewRev

\* A write to the queue alone.
WriteQueue(q) ==
  /\ CanWrite /\ rev' = NewRev /\ queueRev' = NewRev /\ queue' = q
  /\ UNCHANGED <<marker, view, processed>>

\* The CurrentState that the live session of an instance owns.
ActiveStates(i) == IF live[i] = 0 THEN NoReplicas ELSE current[live[i]]

\* controller_snapshot: one read of the whole namespace.
Snapshot ==
  [ revision |-> rev, auth |-> marker,
    live |-> live, states |-> [i \in Instances |-> ActiveStates(i)],
    configured |-> configured, placement |-> placement,
    queue |-> queue, queueRev |-> queueRev, view |-> view, processed |-> processed ]

\* A live key disappears with its lease: no transaction, so no marker.
DeleteLive(i) ==
  /\ CanWrite
  /\ rev' = NewRev /\ deleted' = NewRev
  /\ live' = [live EXCEPT ![i] = 0]
  /\ UNCHANGED <<marker, inputVars, outputVars, active>>

=============================================================================
