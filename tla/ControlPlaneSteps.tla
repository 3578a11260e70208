------------------------- MODULE ControlPlaneSteps -------------------------
(*****************************************************************************)
(* The steps of the control plane: that they keep its types, for any number  *)
(* of instances, partitions, controllers and processes, and any bounds; what *)
(* each group of them does to the store; and what it leaves true of the      *)
(* snapshots, plans and requests the controllers hold; then what they do to  *)
(* the sessions, the workers and the queue.                                  *)
(*                                                                           *)
(* Planning happens outside the store's transactions, so the argument is     *)
(* about what a stale snapshot may still be used for.  SnapshotOK says       *)
(* that a snapshot agrees with the store as long as the two revisions its    *)
(* publication compares have not moved; a live session may only have         *)
(* disappeared since, which the third compare detects.                       *)
(*                                                                           *)
(* A session belongs to one process, a process's image of the queue is a     *)
(* past queue, a worker that may still complete holds the queue revision its *)
(* completion compares; and the compares of a publication make the snapshot  *)
(* it was planned from current, which is what the queue and the view it      *)
(* writes rest on.                                                           *)
(*****************************************************************************)
EXTENDS ControlPlane, TLAPS

\* A leaf goes to Zenon; one that needs arithmetic, or the theory of functions
\* and records, cites SMT.
USE ZenonT(60)
-----------------------------------------------------------------------------
(***************************************************************************)
(* Type correctness.                                                       *)
(***************************************************************************)

\* Each hop of the state model is one of its target states, or there is none.
LEMMA NextStateTowardType ==
  ASSUME NEW from, NEW to \in TargetStates, NextStateToward(from, to) # NoState
  PROVE  NextStateToward(from, to) \in TargetStates
  BY DEF NextStateToward, TargetStates, NoState

\* The best possible state is one of the model's target states.
LEMMA BestPossibleStateType ==
  ASSUME NEW S, NEW p, NEW i
  PROVE  BestPossibleState(S, p, i) \in TargetStates
  BY DEF BestPossibleState, TargetStates

\* What generate_transitions requests, a message can carry.
LEMMA TransitionRequestsType ==
  ASSUME NEW S \in Snapshots, NEW t \in TransitionRequests(S)
  PROVE  /\ t.part \in Partitions /\ t.inst \in Instances
         /\ t.from \in ReplicaStates /\ t.to \in TargetStates
         /\ t.from = PlanningState(S, t.part, t.inst)
         /\ t.to = NextHop(S, t.part, t.inst)
<1>1. PICK r \in Partitions \X Instances :
        /\ PlanningState(S, r[1], r[2]) # ABSENT /\ NextHop(S, r[1], r[2]) # NoState
        /\ t = [part |-> r[1], inst |-> r[2], from |-> PlanningState(S, r[1], r[2]),
                to |-> NextHop(S, r[1], r[2])]
  BY DEF TransitionRequests
<1>2. PlanningState(S, r[1], r[2]) \in ReplicaStates
  BY SMT, <1>1 DEF PlanningState, ActiveCurrentState, Snapshots, ReplicaStates, InitialState
<1>3. NextHop(S, r[1], r[2]) \in TargetStates
  BY <1>1, BestPossibleStateType, NextStateTowardType DEF NextHop
<1> QED
  BY <1>1, <1>2, <1>3

\* A message for a transition of a live instance is well formed.
LEMMA MessageForType ==
  ASSUME NEW S \in Snapshots, NEW pending \in SUBSET Messages,
         NEW t \in TransitionRequests(S), t.inst \in LiveInstances(S)
  PROVE  MessageFor(S, pending, t) \in Messages
<1> DEFINE same == {m \in pending : SameTransition(m, t, S.live[t.inst])}
<1>1. (IF same = {} THEN S.revision ELSE (CHOOSE m \in same : TRUE).id) \in Nat
  BY DEF Snapshots, Messages
<1>2. S.live[t.inst] \in Sessions
  BY DEF Snapshots, LiveInstances
<1> QED
  BY <1>1, <1>2, TransitionRequestsType DEF MessageFor, Messages

\* The queue a plan publishes is a set of messages.
LEMMA NextPendingType ==
  ASSUME NEW S \in Snapshots, NEW pending \in SUBSET Messages, NEW mode \in Modes,
         NEW d \in Dispatches(S, pending, mode)
  PROVE  NextPending(S, pending, mode, d) \in SUBSET Messages
<1>1. d \subseteq TransitionRequests(S)
  BY DEF Dispatches, SelectTransitions
<1>2. RetainPending(S, pending, mode) \subseteq Messages
  BY DEF RetainPending
<1> QED
  BY <1>1, <1>2, MessageForType DEF NextPending

\* controller_snapshot returns a snapshot.
LEMMA SnapshotType == StoreTypeOK => Snapshot \in Snapshots
  BY DEF StoreTypeOK, Snapshot, Snapshots, ActiveStates, NoReplicas

LEMMA NoSnapshotType == NoSnapshot \in Snapshots
  BY InitAssumption DEF NoSnapshot, Snapshots, NoReplicas

\* The published view is a view.
LEMMA ExternalViewType ==
  ASSUME NEW S \in Snapshots
  PROVE  ExternalView(S) \in Views
  BY SMTT(60) DEF ExternalView, ActiveCurrentState, Snapshots, Views

LEMMA StandbyType ==
  /\ Standby \in ControllerStates
  /\ [Standby EXCEPT !.pc = "failed"] \in ControllerStates
  /\ \A n \in Nat : [Standby EXCEPT !.pc = "idle", !.lease = n] \in ControllerStates
  BY NoSnapshotType DEF Standby, ControllerStates, Modes

LEMMA WorkerConstantsType ==
  /\ Idle \in WorkerStates /\ Done \in WorkerStates
  /\ NoWorkers \in [Partitions -> WorkerStates]
  BY DEF Idle, Done, NoWorkers, WorkerStates

LEMMA ProcConstantsType ==
  /\ Down \in ProcStates
  /\ [Down EXCEPT !.pc = "waiting"] \in ProcStates
  BY DEF Down, ProcStates

-----------------------------------------------------------------------------
\* The initial state of the control plane is well typed.
THEOREM TypeInit == Init => TypeOK
<1> SUFFICES ASSUME Init PROVE TypeOK
  OBVIOUS
<1>1. StoreTypeOK
  BY SMTT(60), InitAssumption, BoundAssumption
  DEF Init, StoreInit, StoreTypeOK, NoReplicas, NoOne
<1>2. ControllerTypeOK
  BY StandbyType DEF Init, ControllerInit, ControllerTypeOK
<1>3. ParticipantTypeOK
  BY WorkerConstantsType, ProcConstantsType DEF Init, ParticipantInit, ParticipantTypeOK
<1> QED
  BY <1>1, <1>2, <1>3 DEF Init, TypeOK

-----------------------------------------------------------------------------
\* A step that leaves the store alone leaves it well typed.
LEMMA UnchangedStoreType ==
  StoreTypeOK /\ UNCHANGED storeVars => StoreTypeOK'
  BY DEF StoreTypeOK, storeVars, inputVars, outputVars

\* The parts of the controller's steps.
LEMMA ReplanType ==
  ASSUME TypeOK, NEW c \in Controllers, Replan(c)
  PROVE  ctl' \in [Controllers -> ControllerStates]
<1> DEFINE s == [ctl[c] EXCEPT !.pc = "planning", !.snap = Snapshot, !.pending = queue, !.next = {}]
<1>1. ctl \in [Controllers -> ControllerStates] /\ ctl[c] \in ControllerStates
  BY DEF TypeOK, ControllerTypeOK
<1>2. Snapshot \in Snapshots /\ queue \subseteq Messages
  BY SnapshotType DEF TypeOK, StoreTypeOK
<1>3. s \in ControllerStates
  BY <1>1, <1>2 DEF ControllerStates
<1>4. ctl' = [ctl EXCEPT ![c] = s]
  BY DEF Replan
<1> HIDE DEF s
<1> QED
  BY <1>1, <1>3, <1>4

LEMMA EndReconcileType ==
  ASSUME TypeOK, NEW c \in Controllers, EndReconcile(c)
  PROVE  ctl' \in [Controllers -> ControllerStates]
<1>1. ctl[c] \in ControllerStates /\ ctl[c].outer \in Snapshots
  BY DEF TypeOK, ControllerTypeOK, ControllerStates
<1>2. [i \in Instances |-> IF ctl[c].outer.live[i] # 0 THEN ctl[c].outer.live[i]
                            ELSE ctl[c].known[i]] \in [Instances -> {0} \cup Sessions]
  BY <1>1 DEF ControllerStates, Snapshots
<1> DEFINE known == [i \in Instances |-> IF ctl[c].outer.live[i] # 0 THEN ctl[c].outer.live[i]
                                         ELSE ctl[c].known[i]]
           new == [ctl[c] EXCEPT !.pc = "idle", !.mode = "Normal", !.known = known,
                     !.outer = NoSnapshot, !.snap = NoSnapshot, !.pending = {}, !.next = {}]
<1>3. ctl' = [ctl EXCEPT ![c] = new]
  BY DEF EndReconcile
<1> HIDE DEF known
<1>4. new \in ControllerStates
  BY <1>1, <1>2, NoSnapshotType DEF ControllerStates, Modes, known
<1> QED
  BY <1>3, <1>4 DEF TypeOK, ControllerTypeOK

LEMMA RequestType ==
  ASSUME TypeOK, NEW c \in Controllers
  PROVE  Request(c) \in Requests
  BY DEF TypeOK, ControllerTypeOK, ControllerStates, Request, Requests

LEMMA CommitType ==
  ASSUME TypeOK, NEW r \in Requests, Commit(r)
  PROVE  StoreTypeOK' /\ leases' \in Nat /\ publisher' \in Nat
<1>1. r.snap \in Snapshots /\ r.snap.auth \in Nat /\ r.lease \in Nat /\ r.next \subseteq Messages
  BY DEF Requests, Snapshots
<1> QED
  BY SMT, <1>1, ExternalViewType
  DEF TypeOK, StoreTypeOK, ControllerTypeOK, Commit, NewRev, inputVars

LEMMA LeaveInFlightType ==
  ASSUME TypeOK, NEW c \in Controllers, LeaveInFlight(c)
  PROVE  delayed' \subseteq Requests
  BY SMT, RequestType DEF TypeOK, ControllerTypeOK, LeaveInFlight

-----------------------------------------------------------------------------
\* Every step of a controller leaves the store and the controllers well typed.
LEMMA ControllerStepType ==
  ASSUME TypeOK, NEW c \in Controllers, ControllerStep(c)
  PROVE  StoreTypeOK' /\ ControllerTypeOK'
<1> USE DEF TypeOK
<1>1. CASE Acquire(c)
  <2> DEFINE new == [Standby EXCEPT !.pc = "idle", !.lease = leases']
  <2>1. leases' \in Nat /\ active' \in [controller : Controllers \cup {"none"}, lease : Nat]
    BY SMTT(60), <1>1 DEF Acquire, ControllerTypeOK
  <2>2. ctl' = [ctl EXCEPT ![c] = new] /\ new \in ControllerStates
    BY <1>1, <2>1, StandbyType DEF Acquire
  <2>3. StoreTypeOK'
    BY <1>1, <2>1 DEF Acquire, StoreTypeOK, inputVars, outputVars
  <2> HIDE DEF new
  <2> QED
    BY <1>1, <2>1, <2>2, <2>3 DEF Acquire, ControllerTypeOK
<1>2. CASE RestartController(c)
  BY <1>2, StandbyType
  DEF RestartController, StoreTypeOK, ControllerTypeOK, storeVars, inputVars, outputVars
<1>3. CASE TakeSnapshot(c)
  <2>1. ModeFor(c, Snapshot) \in Modes
    BY DEF ModeFor, Modes
  <2> DEFINE new == [ctl[c] EXCEPT !.pc = "planning", !.outer = Snapshot, !.snap = Snapshot,
                       !.pending = queue, !.mode = ModeFor(c, Snapshot),
                       !.since = IF ctl[c].mode = "Startup" THEN rev ELSE ctl[c].since]
  <2>2. ctl' = [ctl EXCEPT ![c] = new]
    BY <1>3 DEF TakeSnapshot
  <2>3. new \in ControllerStates
    BY <2>1, SnapshotType DEF StoreTypeOK, ControllerTypeOK, ControllerStates
  <2> HIDE DEF new
  <2> QED
    BY <1>3, <2>2, <2>3, UnchangedStoreType DEF TakeSnapshot, ControllerTypeOK
<1>4. CASE CheckInputs(c)
  <2>1. UNCHANGED <<storeVars, leases, delayed, publisher>>
    BY <1>4 DEF CheckInputs
  <2>2. ctl' \in [Controllers -> ControllerStates]
    <3>1. CASE Replan(c) \/ EndReconcile(c)
      BY <3>1, ReplanType, EndReconcileType
    <3>2. ASSUME NEW d \in Dispatches(ctl[c].snap, ctl[c].pending, ctl[c].mode),
                 ctl' = [ctl EXCEPT ![c] = [@ EXCEPT !.pc = "publishing",
                          !.next = NextPending(ctl[c].snap, ctl[c].pending, ctl[c].mode, d)]]
          PROVE  ctl' \in [Controllers -> ControllerStates]
      <4>1. NextPending(ctl[c].snap, ctl[c].pending, ctl[c].mode, d) \in SUBSET Messages
        BY NextPendingType DEF ControllerTypeOK, ControllerStates
      <4> QED
        BY <3>2, <4>1 DEF ControllerTypeOK, ControllerStates
    <3> QED
      BY <1>4, <3>1, <3>2 DEF CheckInputs
  <2> QED
    BY <2>1, <2>2 DEF StoreTypeOK, ControllerTypeOK, storeVars, inputVars, outputVars
<1>5. CASE PlanError(c)
  <2>1. StoreTypeOK'
    BY SMT, <1>5 DEF PlanError, StoreTypeOK, inputVars, outputVars, NoOne
  <2>2. ControllerTypeOK'
    BY <1>5, StandbyType DEF PlanError, ControllerTypeOK
  <2> QED
    BY <2>1, <2>2
<1>6. CASE Publish(c)
  BY SMT, <1>6, RequestType, CommitType
  DEF Publish, ControllerTypeOK, ControllerStates
<1>7. CASE Rejected(c)
  <2>1. ctl' \in [Controllers -> ControllerStates]
    BY <1>7, ReplanType, StandbyType DEF Rejected, ControllerTypeOK
  <2> QED
    BY <1>7, <2>1
    DEF Rejected, StoreTypeOK, ControllerTypeOK, storeVars, inputVars, outputVars
<1>8. CASE PostPublish(c)
  <2>1. ctl' \in [Controllers -> ControllerStates]
    BY <1>8, ReplanType, EndReconcileType DEF PostPublish
  <2> QED
    BY <1>8, <2>1
    DEF PostPublish, StoreTypeOK, ControllerTypeOK, storeVars, inputVars, outputVars
<1>9. CASE RecordLeaseExpiry(c)
  <2>1. StoreTypeOK'
    BY SMTT(60), <1>9 DEF RecordLeaseExpiry, WriteInput, NewRev, StoreTypeOK, inputVars, outputVars
  <2>2. ControllerTypeOK'
    BY <1>9, StandbyType DEF RecordLeaseExpiry, ControllerTypeOK
  <2> QED
    BY <2>1, <2>2
<1> QED
  BY <1>1, <1>2, <1>3, <1>4, <1>5, <1>6, <1>7, <1>8, <1>9 DEF ControllerStep

LEMMA ControllerFaultType ==
  ASSUME TypeOK, NEW c \in Controllers, ControllerFault(c)
  PROVE  StoreTypeOK' /\ ControllerTypeOK'
<1> USE DEF TypeOK
<1>1. CASE TransientError(c)
  <2>1. ctl[c].outer.queue \subseteq Messages
    BY DEF ControllerTypeOK, ControllerStates, Snapshots
  <2> DEFINE new == [ctl[c] EXCEPT !.pc = "planning", !.snap = ctl[c].outer, !.next = {},
                       !.pending = IF ctl[c].mode = "Startup" THEN ctl[c].pending
                                   ELSE ctl[c].outer.queue]
  <2>2. ctl' = [ctl EXCEPT ![c] = new]
    BY <1>1 DEF TransientError
  <2>3. new \in ControllerStates
    BY <2>1 DEF ControllerTypeOK, ControllerStates
  <2> HIDE DEF new
  <2> QED
    BY <1>1, <2>2, <2>3, LeaveInFlightType, UnchangedStoreType
    DEF TransientError, ControllerTypeOK
<1>2. CASE LeaveTerm(c)
  BY <1>2, LeaveInFlightType, StandbyType
  DEF LeaveTerm, StoreTypeOK, ControllerTypeOK, storeVars, inputVars, outputVars
<1>3. CASE Relinquish(c)
  BY <1>3, StandbyType
  DEF Relinquish, StoreTypeOK, ControllerTypeOK, inputVars, outputVars, NoOne
<1> QED
  BY <1>1, <1>2, <1>3 DEF ControllerFault

-----------------------------------------------------------------------------
\* The parts of the participant's steps.
LEMMA DeleteLiveType ==
  ASSUME StoreTypeOK, NEW i \in Instances, DeleteLive(i)
  PROVE  StoreTypeOK'
  BY SMT DEF StoreTypeOK, DeleteLive, NewRev, inputVars, outputVars

LEMMA WriteQueueType ==
  ASSUME StoreTypeOK, NEW Q \in SUBSET Messages, WriteQueue(Q),
         UNCHANGED <<live, inputVars, active, deleted>>
  PROVE  StoreTypeOK'
  BY SMT DEF StoreTypeOK, WriteQueue, NewRev, inputVars

LEMMA PutRegistrationType ==
  ASSUME TypeOK, NEW q \in Procs, PutRegistration(q)
  PROVE  StoreTypeOK'
<1>1. ProcInstance[q] \in Instances /\ proc[q].session \in {0} \cup Sessions
  BY ProcAssumption DEF TypeOK, ParticipantTypeOK, ProcStates
<1>2. [p \in Partitions |-> IF p \in proc[q].carried THEN InitialState ELSE ABSENT]
        \in [Partitions -> ReplicaStates \cup {ABSENT}]
  BY DEF InitialState, ReplicaStates
<1>3. live' \in [Instances -> {0} \cup Sessions]
  BY <1>1 DEF TypeOK, StoreTypeOK, PutRegistration
<1>4. registered' \in [Sessions -> Instances \cup {ABSENT}]
  BY <1>1 DEF TypeOK, StoreTypeOK, PutRegistration
<1>5. current' \in [Sessions -> [Partitions -> ReplicaStates \cup {ABSENT}]]
  BY <1>2 DEF TypeOK, StoreTypeOK, PutRegistration
<1> QED
  BY SMT, <1>3, <1>4, <1>5 DEF TypeOK, StoreTypeOK, PutRegistration, WriteInput, NewRev, outputVars

LEMMA SpawnType ==
  ASSUME NEW workers \in [Partitions -> WorkerStates], NEW messages \in SUBSET Messages
  PROVE  Spawn(workers, messages) \in [Partitions -> WorkerStates]
<1>1. ASSUME NEW p \in Partitions, {m \in messages : m.part = p} # {}
      PROVE  [Idle EXCEPT !.pc = "read",
                !.msg = CHOOSE m \in {m \in messages : m.part = p} : TRUE] \in WorkerStates
  <2> DEFINE here == {m \in messages : m.part = p}
  <2>1. (CHOOSE m \in here : TRUE) \in Messages
    BY <1>1
  <2> HIDE DEF here
  <2> QED
    BY <2>1 DEF Idle, WorkerStates, here
<1> QED
  BY <1>1 DEF Spawn

LEMMA SetWorkerType ==
  ASSUME TypeOK, NEW q \in Procs, NEW p \in Partitions, NEW w \in WorkerStates,
         SetWorker(q, p, w)
  PROVE  worker' \in [Procs -> [Partitions -> WorkerStates]]
  BY DEF TypeOK, ParticipantTypeOK, SetWorker

LEMMA WorkerType ==
  ASSUME TypeOK, NEW q \in Procs, NEW p \in Partitions
  PROVE  worker[q][p] \in WorkerStates
  BY DEF TypeOK, ParticipantTypeOK

LEMMA CompleteReadType ==
  ASSUME TypeOK, NEW q \in Procs, NEW p \in Partitions, NEW w \in WorkerStates,
         CompleteRead(q, p, w)
  PROVE  StoreTypeOK' /\ ParticipantTypeOK'
<1>1. [w EXCEPT !.pc = "complete", !.fence = queueRev] \in WorkerStates
  BY DEF TypeOK, StoreTypeOK, WorkerStates
<1>2. [w EXCEPT !.pc = "txn", !.seen = queue] \in WorkerStates
  BY DEF TypeOK, StoreTypeOK, WorkerStates
<1>3. worker' \in [Procs -> [Partitions -> WorkerStates]]
  <2>1. PICK v \in WorkerStates : SetWorker(q, p, v)
    BY <1>1, <1>2, WorkerConstantsType DEF CompleteRead
  <2> QED
    BY <2>1, SetWorkerType
<1> QED
  BY <1>3, UnchangedStoreType DEF TypeOK, ParticipantTypeOK, CompleteRead

\* The queue without a message is still a set of messages.
LEMMA WithoutType ==
  ASSUME TypeOK, NEW q \in Procs, NEW p \in Partitions
  PROVE  Without(q, p) \in SUBSET Messages
  BY DEF TypeOK, StoreTypeOK, Without

-----------------------------------------------------------------------------
\* Every step of a worker leaves the store and the participants well typed.
LEMMA WorkerStepType ==
  ASSUME TypeOK, NEW q \in Procs, NEW p \in Partitions, WorkerStep(q, p) \/ HandlerError(q, p)
  PROVE  StoreTypeOK' /\ ParticipantTypeOK'
<1> USE DEF TypeOK
<1>0. worker[q][p] \in WorkerStates
  BY WorkerType
<1>1. CASE ReadCurrent(q, p)
  <2>1. [worker[q][p] EXCEPT !.pc = IF Applicable(q, p) THEN "claim" ELSE "cleanup"]
          \in WorkerStates
    BY <1>0 DEF WorkerStates
  <2> QED
    BY <1>1, <2>1, SetWorkerType, UnchangedStoreType DEF ReadCurrent, ParticipantTypeOK
<1>2. CASE Claim(q, p)
  <2>1. /\ [worker[q][p] EXCEPT !.pc = "cleanup"] \in WorkerStates
        /\ [worker[q][p] EXCEPT !.pc = "handle", !.fence = queueRev] \in WorkerStates
    BY <1>0 DEF WorkerStates, StoreTypeOK
  <2>2. PICK v \in WorkerStates : SetWorker(q, p, v)
    BY <1>2, <2>1, WorkerConstantsType DEF Claim
  <2> QED
    BY <1>2, <2>2, SetWorkerType, UnchangedStoreType DEF Claim, ParticipantTypeOK
<1>3. CASE Handle(q, p)
  <2>1. [worker[q][p] EXCEPT !.result = worker[q][p].msg.to] \in WorkerStates
    BY SMT, <1>0 DEF WorkerStates, Messages, NoMessage
  <2> QED
    BY <1>3, <2>1, CompleteReadType DEF Handle, HandlerReturns
<1>4. CASE HandlerError(q, p)
  <2>1. [worker[q][p] EXCEPT !.result = "ERROR"] \in WorkerStates
    BY <1>0 DEF WorkerStates
  <2> QED
    BY <1>4, <2>1, CompleteReadType DEF HandlerError, HandlerReturns
<1>5. CASE RetryComplete(q, p)
  BY <1>0, <1>5, CompleteReadType DEF RetryComplete
<1>6. CASE CompleteApply(q, p)
  <2>1. worker[q][p].seen \subseteq Messages /\ worker[q][p].result \in TargetStates \cup {"ERROR", ABSENT}
    BY <1>0 DEF WorkerStates
  <2>2. (IF worker[q][p].result = "DROPPED" THEN ABSENT ELSE worker[q][p].result)
          \in ReplicaStates \cup {ABSENT}
    BY <2>1 DEF TargetStates, ReplicaStates
  <2> DEFINE state == IF worker[q][p].result = "DROPPED" THEN ABSENT ELSE worker[q][p].result
  <2>3. current' = [current EXCEPT ![proc[q].session][p] = state]
    BY <1>6 DEF CompleteApply
  <2>4. state \in ReplicaStates \cup {ABSENT}
    BY <2>2
  <2> HIDE DEF state
  <2>5. current' \in [Sessions -> [Partitions -> ReplicaStates \cup {ABSENT}]]
    BY <2>3, <2>4 DEF StoreTypeOK
  <2>6. StoreTypeOK'
    BY SMTT(30), <1>6, <2>1, <2>5 DEF CompleteApply, StoreTypeOK, WriteInput, NewRev
  <2> QED
    BY <1>6, <2>6, SetWorkerType, WorkerConstantsType DEF CompleteApply, ParticipantTypeOK
<1>7. CASE CompleteRefused(q, p)
  <2>1. [worker[q][p] EXCEPT !.seen = {},
           !.pc = IF live[ProcInstance[q]] = proc[q].session THEN "complete" ELSE "lost"]
          \in WorkerStates
    BY <1>0 DEF WorkerStates
  <2> QED
    BY <1>7, <2>1, SetWorkerType, UnchangedStoreType DEF CompleteRefused, ParticipantTypeOK
<1>8. CASE LostCleanup(q, p)
  <2>1. StoreTypeOK'
    BY <1>8, WithoutType, WriteQueueType, UnchangedStoreType DEF LostCleanup
  <2> QED
    BY <1>8, <2>1, SetWorkerType, WorkerConstantsType DEF LostCleanup, ParticipantTypeOK
<1>9. CASE Cleanup(q, p)
  <2>1. StoreTypeOK'
    BY <1>9, WithoutType, WriteQueueType, UnchangedStoreType DEF Cleanup
  <2> QED
    BY <1>9, <2>1, SetWorkerType, WorkerConstantsType DEF Cleanup, ParticipantTypeOK
<1>10. CASE WorkerExit(q, p)
  <2>1. [worker[q] EXCEPT ![p] = Idle] \in [Partitions -> WorkerStates]
    BY WorkerConstantsType DEF ParticipantTypeOK
  <2>2. Spawn([worker[q] EXCEPT ![p] = Idle], image[q]) \in [Partitions -> WorkerStates]
    BY <2>1, SpawnType DEF ParticipantTypeOK
  <2>3. worker' \in [Procs -> [Partitions -> WorkerStates]]
    <3>1. PICK new \in [Partitions -> WorkerStates] : worker' = [worker EXCEPT ![q] = new]
      BY <1>10, <2>1, <2>2 DEF WorkerExit
    <3> QED
      BY <3>1 DEF ParticipantTypeOK
  <2> QED
    BY <1>10, <2>3, UnchangedStoreType DEF WorkerExit, ParticipantTypeOK
<1> QED
  BY <1>1, <1>2, <1>3, <1>4, <1>5, <1>6, <1>7, <1>8, <1>9, <1>10 DEF WorkerStep

LEMMA RevokeType ==
  ASSUME TypeOK, NEW q \in Procs, Revoke(q)
  PROVE  StoreTypeOK'
  BY ProcAssumption, DeleteLiveType, UnchangedStoreType DEF TypeOK, Revoke

\* Every step and every fault of a process, likewise.
LEMMA ProcessStepType ==
  ASSUME TypeOK, NEW q \in Procs,
         ProcessStep(q) \/ ObserveQueue(q) \/ RegisterUnanswered(q)
           \/ PresumeExpired(q) \/ Stop(q) \/ Fail(q)
  PROVE  StoreTypeOK' /\ ParticipantTypeOK'
<1> USE DEF TypeOK
<1>0. \A pc \in {"down", "waiting", "allocating", "registering", "running", "draining", "stopping"} :
        [proc EXCEPT ![q].pc = pc] \in [Procs -> ProcStates]
  BY DEF ParticipantTypeOK, ProcStates
<1>1. CASE SeeNoSession(q) \/ NoticeExpired(q) \/ Restart(q) \/ PresumeExpired(q) \/ Stop(q)
  BY <1>0, <1>1, UnchangedStoreType
  DEF SeeNoSession, NoticeExpired, Restart, PresumeExpired, Stop, ParticipantTypeOK
<1>2. CASE Allocate(q)
  <2>1. sequence' \in Sessions /\ sequence' \in 0..MaxSession
    BY SMTT(30), <1>2, BoundAssumption DEF Allocate, StoreTypeOK, Sessions
  <2>2. StoreTypeOK'
    BY <1>2, <2>1 DEF Allocate, StoreTypeOK, outputVars
  <2>3. proc' \in [Procs -> ProcStates]
    BY <1>2, <2>1 DEF Allocate, ParticipantTypeOK, ProcStates
  <2> QED
    BY <1>2, <2>2, <2>3 DEF Allocate, ParticipantTypeOK
<1>3. CASE Register(q)
  <2>1. StoreTypeOK'
    BY <1>3, PutRegistrationType, UnchangedStoreType DEF Register
  <2>2. [proc EXCEPT ![q].pc = "running", ![q].carried = {}] \in [Procs -> ProcStates]
    BY DEF ParticipantTypeOK, ProcStates
  <2>3. proc' \in [Procs -> ProcStates]
    BY <1>3, <2>2, ProcConstantsType DEF Register, ParticipantTypeOK
  <2> QED
    BY <1>3, <2>1, <2>3 DEF Register, ParticipantTypeOK
<1>4. CASE RegisterUnanswered(q)
  BY <1>4, PutRegistrationType, ProcConstantsType DEF RegisterUnanswered, ParticipantTypeOK
<1>5. CASE ObserveQueue(q)
  <2> DEFINE mine == {m \in queue : m.inst = ProcInstance[q]}
  <2>1. mine \subseteq Messages
    BY DEF StoreTypeOK
  <2>2. Spawn(worker[q], mine) \in [Partitions -> WorkerStates]
    BY <2>1, SpawnType DEF ParticipantTypeOK
  <2> QED
    BY <1>5, <2>1, <2>2, UnchangedStoreType DEF ObserveQueue, ParticipantTypeOK
<1>6. CASE Drained(q)
  <2>1. StoreTypeOK'
    BY <1>6, RevokeType, UnchangedStoreType DEF Drained
  <2> QED
    BY <1>6, <2>1, ProcConstantsType DEF Drained, ParticipantTypeOK
<1>7. CASE Fail(q)
  <2>1. StoreTypeOK'
    BY <1>7, RevokeType, UnchangedStoreType DEF Fail
  <2> QED
    BY <1>7, <2>1, ProcConstantsType, WorkerConstantsType DEF Fail, ParticipantTypeOK
<1> QED
  BY <1>1, <1>2, <1>3, <1>4, <1>5, <1>6, <1>7 DEF ProcessStep

-----------------------------------------------------------------------------
\* No step of the control plane leaves its types.
THEOREM TypeStep == TypeOK /\ [Next]_vars => TypeOK'
<1> SUFFICES ASSUME TypeOK, [Next]_vars PROVE TypeOK'
  OBVIOUS
<1>0. CASE UNCHANGED vars
  BY <1>0
  DEF TypeOK, StoreTypeOK, ControllerTypeOK, ParticipantTypeOK, vars, storeVars, inputVars,
      outputVars, ctlVars, partVars
<1>1. UNCHANGED ctlVars => ControllerTypeOK'
  BY DEF TypeOK, ControllerTypeOK, ctlVars
<1>2. UNCHANGED partVars => ParticipantTypeOK'
  BY DEF TypeOK, ParticipantTypeOK, partVars
<1>3. Next => faults' \in Nat /\ changes' \in Nat
  BY SMT DEF Next, TypeOK
<1>4. ASSUME NEW c \in Controllers, ControllerStep(c) \/ ControllerFault(c), UNCHANGED partVars
      PROVE  StoreTypeOK' /\ ControllerTypeOK' /\ ParticipantTypeOK'
  BY <1>2, <1>4, ControllerStepType, ControllerFaultType
<1>5. ASSUME NEW r \in delayed, DelayedPublish(r), UNCHANGED partVars
      PROVE  StoreTypeOK' /\ ControllerTypeOK' /\ ParticipantTypeOK'
  <2>1. r \in Requests
    BY DEF TypeOK, ControllerTypeOK
  <2> QED
    BY <1>2, <1>5, <2>1, CommitType DEF TypeOK, ControllerTypeOK, DelayedPublish
<1>6. ASSUME NEW q \in Procs, ParticipantStep(q) \/ ParticipantFault(q), UNCHANGED ctlVars
      PROVE  StoreTypeOK' /\ ControllerTypeOK' /\ ParticipantTypeOK'
  BY <1>1, <1>6, WorkerStepType, ProcessStepType DEF ParticipantStep, ParticipantFault
<1>7. ASSUME NEW i \in Instances, ExpireOrphan(i) \/ ExpireSession(i), UNCHANGED ctlVars
      PROVE  StoreTypeOK' /\ ControllerTypeOK' /\ ParticipantTypeOK'
  BY <1>1, <1>2, <1>7, DeleteLiveType DEF TypeOK, ExpireOrphan, ExpireSession
<1>8. ASSUME ExpireController, UNCHANGED partVars
      PROVE  StoreTypeOK' /\ ControllerTypeOK' /\ ParticipantTypeOK'
  <2>1. StoreTypeOK'
    BY <1>8 DEF TypeOK, StoreTypeOK, ExpireController, inputVars, outputVars, NoOne
  <2> QED
    BY <1>1, <1>2, <1>8, <2>1 DEF ExpireController
<1>9. ASSUME AdminStep, UNCHANGED <<ctlVars, partVars>>
      PROVE  StoreTypeOK' /\ ControllerTypeOK' /\ ParticipantTypeOK'
  <2>1. StoreTypeOK'
    BY SMT, <1>9 DEF AdminStep, PutResource, PutInstance, RemoveInstance, WriteInput, NewRev,
                TypeOK, StoreTypeOK, outputVars
  <2> QED
    BY <1>1, <1>2, <1>9, <2>1
<1> QED
  BY <1>0, <1>3, <1>4, <1>5, <1>6, <1>7, <1>8, <1>9 DEF Next, SystemStep, FaultStep, TypeOK

\* Every reachable state of the control plane is well typed.
THEOREM TypeCorrect == Spec => []TypeOK
  BY TypeInit, TypeStep, PTL DEF Spec


-----------------------------------------------------------------------------
(***************************************************************************)
(* Hops, plans and messages.                                               *)
(***************************************************************************)

\* The only hop into LEADER is from STANDBY, and only towards LEADER.
LEMMA LeaderHop ==
  ASSUME NEW from, NEW to, NextStateToward(from, to) = "LEADER"
  PROVE  from = "STANDBY" /\ to = "LEADER"
  BY DEF NextStateToward, Transitions, NoState

\* A message of the next queue was retained, or is new for an idle replica of
\* a selected transition.
LEMMA PlanMembers ==
  ASSUME NEW S \in Snapshots, NEW pending \in SUBSET Messages, NEW mode \in Modes,
         NEW d \in Dispatches(S, pending, mode), NEW m \in NextPending(S, pending, mode, d)
  PROVE  \/ m \in RetainPending(S, pending, mode)
         \/ /\ \E t \in SelectTransitions(S, pending, mode) :
                 t.inst \in LiveInstances(S) /\ m = MessageFor(S, pending, t)
            /\ \A k \in RetainPending(S, pending, mode) : ~(k.part = m.part /\ k.inst = m.inst)
<1>1. d \subseteq SelectTransitions(S, pending, mode)
  BY DEF Dispatches
<1> QED
  BY <1>1 DEF NextPending

\* A message carries the transition it was made for, the live session, and a
\* new id unless it repeats a pending message.
LEMMA NewMessage ==
  ASSUME NEW S \in Snapshots, NEW pending \in SUBSET Messages,
         NEW t \in TransitionRequests(S), t.inst \in LiveInstances(S),
         NEW m, m = MessageFor(S, pending, t)
  PROVE  /\ m.part = t.part /\ m.inst = t.inst /\ m.from = t.from /\ m.to = t.to
         /\ m.sess = S.live[m.inst] /\ m.sess # 0
         /\ m.id = S.revision \/ m \in pending
<1> DEFINE same == {n \in pending : SameTransition(n, t, S.live[t.inst])}
           old == CHOOSE n \in same : TRUE
<1>1. m = [id |-> IF same = {} THEN S.revision ELSE old.id, part |-> t.part, inst |-> t.inst,
           sess |-> S.live[t.inst], from |-> t.from, to |-> t.to]
  BY DEF MessageFor
<1>2. same # {} => old \in same
  OBVIOUS
<1> HIDE DEF old
<1>3. same # {} => m = old
  BY <1>1, <1>2 DEF SameTransition, Messages
<1> QED
  BY SMTT(30), <1>1, <1>2, <1>3 DEF LiveInstances

-----------------------------------------------------------------------------
(***************************************************************************)
(* What a step may do to the store.                                        *)
(***************************************************************************)
StoreKept ==
  UNCHANGED <<rev, marker, live, registered, current, configured, placement, outputVars, deleted>>

Publication ==
  \E r \in Requests : SnapshotOK(r.snap) /\ PlanOK(r.snap, r.next) /\ Commit(r)

Registration ==
  \E q \in Procs : proc[q].pc = "registering" /\ PutRegistration(q)

Completion == \E q \in Procs, p \in Partitions : CompleteApply(q, p)

Withdrawal ==
  \E Q \in SUBSET queue : WriteQueue(Q) /\ UNCHANGED <<live, inputVars, active, deleted>>

Expiry == \E i \in Instances : DeleteLive(i)

\* The administrator's writes and record_lease_expiry.
InputWrite ==
  /\ WriteInput
  /\ UNCHANGED <<live, registered, current, outputVars, deleted>>
  /\ \A i \in Instances : i \in configured /\ live[i] # 0 => i \in configured'

StoreStep ==
  \/ StoreKept \/ Publication \/ Registration \/ Completion \/ Withdrawal \/ Expiry
  \/ InputWrite

\* There are no other ways to change the store.
LEMMA StoreSteps ==
  ASSUME TypeOK, ControllersOK, [Next]_vars
  PROVE  StoreStep
<1> USE DEF StoreStep
<1>0. CASE UNCHANGED vars
  BY <1>0 DEF vars, storeVars, inputVars, StoreKept
<1>1. UNCHANGED storeVars => StoreKept
  BY DEF storeVars, inputVars, StoreKept
<1>2. ASSUME NEW c \in Controllers, ControllerStep(c)
      PROVE  StoreStep
  <2>1. CASE Publish(c)
    <3>1. Request(c) \in Requests /\ Request(c).snap = ctl[c].snap /\ Request(c).next = ctl[c].next
      BY RequestType DEF Request
    <3> QED
      BY <2>1, <3>1 DEF Publish, Publication, ControllersOK, ControllerOK
  <2>2. CASE RecordLeaseExpiry(c)
    BY <2>2 DEF RecordLeaseExpiry, InputWrite, StoreKept, inputVars
  <2>3. CASE Acquire(c) \/ PlanError(c)
    BY <2>3 DEF Acquire, PlanError, StoreKept, inputVars
  <2> QED
    BY <1>1, <1>2, <2>1, <2>2, <2>3
    DEF ControllerStep, RestartController, TakeSnapshot, CheckInputs, Rejected, PostPublish
<1>3. ASSUME NEW c \in Controllers, ControllerFault(c)
      PROVE  StoreStep
  BY <1>1, <1>3 DEF ControllerFault, TransientError, LeaveTerm, Relinquish, StoreKept, inputVars
<1>4. ASSUME NEW r \in delayed, DelayedPublish(r)
      PROVE  StoreStep
  BY <1>4 DEF DelayedPublish, Publication, ControllersOK, TypeOK, ControllerTypeOK
<1>5. ASSUME NEW q \in Procs, Revoke(q)
      PROVE  StoreStep
  BY <1>1, <1>5, ProcAssumption DEF Revoke, Expiry
<1>6. ASSUME NEW q \in Procs, NEW p \in Partitions, WorkerStep(q, p) \/ HandlerError(q, p)
      PROVE  StoreStep
  <2>1. CASE CompleteApply(q, p)
    BY <2>1 DEF Completion
  <2>2. CASE LostCleanup(q, p) \/ Cleanup(q, p)
    BY <1>1, <2>2 DEF LostCleanup, Cleanup, Withdrawal, Without
  <2> QED
    BY <1>1, <1>6, <2>1, <2>2
    DEF WorkerStep, ReadCurrent, Claim, Handle, HandlerError, HandlerReturns, RetryComplete,
        CompleteRead, CompleteRefused, WorkerExit
<1>7. ASSUME NEW q \in Procs, ParticipantStep(q) \/ ParticipantFault(q)
      PROVE  StoreStep
  <2>1. CASE Register(q) \/ RegisterUnanswered(q)
    BY <1>1, <2>1 DEF Register, RegisterUnanswered, Registration
  <2>2. CASE Allocate(q)
    BY <2>2 DEF Allocate, StoreKept
  <2>3. CASE Drained(q) \/ Fail(q)
    BY <1>1, <1>5, <2>3 DEF Drained, Fail
  <2> QED
    BY <1>1, <1>6, <1>7, <2>1, <2>2, <2>3
    DEF ParticipantStep, ParticipantFault, ProcessStep, SeeNoSession, ObserveQueue,
        NoticeExpired, PresumeExpired, Stop, Restart
<1>8. ASSUME NEW i \in Instances, ExpireOrphan(i) \/ ExpireSession(i)
      PROVE  StoreStep
  BY <1>8 DEF ExpireOrphan, ExpireSession, Expiry
<1>9. ASSUME ExpireController
      PROVE  StoreStep
  BY <1>9 DEF ExpireController, StoreKept, inputVars
<1>10. ASSUME AdminStep
       PROVE  StoreStep
  BY <1>10 DEF AdminStep, PutResource, PutInstance, RemoveInstance, InputWrite
<1> QED
  BY <1>0, <1>2, <1>3, <1>4, <1>7, <1>8, <1>9, <1>10 DEF Next, SystemStep, FaultStep

-----------------------------------------------------------------------------
(***************************************************************************)
(* The store only moves forward, and what reads it stays accurate for as   *)
(* long as the revisions it goes by do not move.                           *)
(***************************************************************************)
QueueForward == UNCHANGED <<queue, queueRev>> \/ queueRev' > queueRev

InputsForward ==
  \/ marker' > marker
  \/ /\ UNCHANGED <<marker, configured, current>>
     /\ \A i \in Instances : live'[i] \in {0, live[i]}

\* A write to the queue moves its revision; a write to the inputs moves the
\* marker, and only a live key can disappear without one.
LEMMA StoreForward ==
  ASSUME TypeOK, RevisionsOrdered, StoreStep
  PROVE  QueueForward /\ InputsForward /\ rev' >= rev
<1> USE DEF TypeOK, StoreTypeOK, RevisionsOrdered, QueueForward, InputsForward
<1>1. CASE StoreKept
  BY SMTT(30), <1>1 DEF StoreKept, outputVars
<1>2. CASE Publication
  BY SMTT(30), <1>2 DEF Publication, Commit, NewRev, inputVars
<1>3. CASE Registration
  BY SMTT(30), <1>3 DEF Registration, PutRegistration, WriteInput, NewRev, outputVars
<1>4. CASE Completion
  BY SMTT(30), <1>4 DEF Completion, CompleteApply, WriteInput, NewRev
<1>5. CASE Withdrawal
  BY SMTT(30), <1>5 DEF Withdrawal, WriteQueue, NewRev, inputVars
<1>6. CASE Expiry
  BY SMTT(30), <1>6 DEF Expiry, DeleteLive, NewRev, inputVars, outputVars
<1>7. CASE InputWrite
  BY SMTT(30), <1>7 DEF InputWrite, WriteInput, NewRev, outputVars
<1> QED
  BY <1>1, <1>2, <1>3, <1>4, <1>5, <1>6, <1>7 DEF StoreStep

\* A snapshot that describes the store goes on describing it.
LEMMA SnapshotKept ==
  ASSUME TypeOK, TypeOK', QueueForward, InputsForward, rev' >= rev,
         NEW S \in Snapshots, SnapshotOK(S)
  PROVE  SnapshotOK(S)'
<1>1. /\ S.queueRev \in Nat /\ S.revision \in Nat /\ S.auth \in Nat
      /\ marker \in Nat /\ marker' \in Nat /\ queueRev \in Nat /\ queueRev' \in Nat
      /\ rev \in Nat /\ rev' \in Nat
  BY DEF TypeOK, StoreTypeOK, Snapshots
<1>2. S.queueRev <= S.revision /\ S.revision <= rev' /\ S.queueRev <= queueRev' /\ S.auth <= marker'
  BY SMTT(30), <1>1 DEF SnapshotOK, QueueForward, InputsForward
<1>3. S.queueRev = queueRev' => S.queue = queue'
  BY SMTT(30), <1>1 DEF SnapshotOK, QueueForward
<1>4. ASSUME S.auth = marker'
      PROVE  /\ S.configured = configured'
             /\ \A i \in Instances : live'[i] # 0 =>
                  S.live[i] = live'[i] /\ S.states[i] = current'[live'[i]]
  BY SMTT(30), <1>1, <1>4 DEF SnapshotOK, InputsForward
<1> QED
  BY <1>2, <1>3, <1>4 DEF SnapshotOK

\* A plan for the queue it replaces goes on being one until the queue moves.
LEMMA PlanKept ==
  ASSUME TypeOK, TypeOK', QueueForward,
         NEW S \in Snapshots, NEW next, SnapshotOK(S), PlanOK(S, next)
  PROVE  PlanOK(S, next)'
<1>1. S.queueRev \in Nat /\ queueRev \in Nat /\ queueRev' \in Nat /\ S.queueRev <= queueRev
  BY DEF TypeOK, StoreTypeOK, Snapshots, SnapshotOK
<1>2. ASSUME S.queueRev = queueRev'
      PROVE  queue' = queue /\ S.queueRev = queueRev
  BY SMTT(30), <1>1, <1>2 DEF QueueForward
<1> QED
  BY <1>2 DEF PlanOK

LEMMA ControllerKept ==
  ASSUME TypeOK, TypeOK', QueueForward, InputsForward, rev' >= rev,
         NEW v \in ControllerStates, ControllerOK(v)
  PROVE  ControllerOK(v)'
<1>1. v.outer \in Snapshots /\ v.snap \in Snapshots
  BY DEF ControllerStates
<1>2. SnapshotOK(v.outer)' /\ SnapshotOK(v.snap)'
  BY <1>1, SnapshotKept DEF ControllerOK
<1>3. v.pc = "publishing" => PlanOK(v.snap, v.next)'
  BY <1>1, PlanKept DEF ControllerOK
<1>4. ASSUME v.pc \in {"planning", "publishing", "published"}, NEW S \in {v.outer, v.snap}, S.queueRev = queueRev'
      PROVE  v.pending = queue'
  <2>1. S.queueRev \in Nat /\ queueRev \in Nat /\ queueRev' \in Nat /\ S.queueRev <= queueRev
    BY <1>1 DEF TypeOK, StoreTypeOK, Snapshots, SnapshotOK, ControllerOK
  <2>2. queue' = queue /\ S.queueRev = queueRev
    BY SMTT(30), <1>4, <2>1 DEF QueueForward
  <2> QED
    BY <1>4, <2>2 DEF ControllerOK
<1> QED
  BY <1>2, <1>3, <1>4 DEF ControllerOK

LEMMA WorkerKept ==
  ASSUME TypeOK, TypeOK', QueueForward, NEW v, NEW q \in Procs, NEW p \in Partitions,
         NEW w \in WorkerStates, WorkerOK(v, q, p, w)
  PROVE  WorkerOK(v, q, p, w)'
<1>1. w.fence \in Nat /\ queueRev \in Nat /\ queueRev' \in Nat
  BY DEF TypeOK, StoreTypeOK, WorkerStates
<1>2. w.pc = "txn" => w.fence <= queueRev' /\ (w.fence = queueRev' => w.seen = queue')
  BY SMTT(30), <1>1 DEF QueueForward, WorkerOK
<1> QED
  BY <1>2 DEF WorkerOK

-----------------------------------------------------------------------------
(***************************************************************************)
(* The controllers.                                                        *)
(***************************************************************************)
\* What controller_snapshot reads describes the store.
LEMMA SnapshotDescribes ==
  ASSUME TypeOK, RevisionsOrdered
  PROVE  SnapshotOK(Snapshot)
  BY SMTT(30) DEF TypeOK, StoreTypeOK, RevisionsOrdered, SnapshotOK, Snapshot, ActiveStates

LEMMA NoSnapshotDescribes ==
  ASSUME TypeOK, RevisionsOrdered
  PROVE  SnapshotOK(NoSnapshot)
  BY SMTT(30) DEF TypeOK, StoreTypeOK, RevisionsOrdered, SnapshotOK, NoSnapshot

LEMMA StandbyOK ==
  ASSUME TypeOK, RevisionsOrdered, NEW v, v.outer = NoSnapshot, v.snap = NoSnapshot,
         v.pc \notin {"planning", "publishing", "published"}
  PROVE  ControllerOK(v)
  BY NoSnapshotDescribes DEF ControllerOK

LEMMA ReplanOK ==
  ASSUME TypeOK, RevisionsOrdered, ControllersOK, NEW c \in Controllers, Replan(c)
  PROVE  \E v \in ControllerStates : ControllerOK(v) /\ ctl' = [ctl EXCEPT ![c] = v]
<1> DEFINE new == [ctl[c] EXCEPT !.pc = "planning", !.snap = Snapshot, !.pending = queue,
                                 !.next = {}]
<1>1. ctl' = [ctl EXCEPT ![c] = new]
  BY DEF Replan
<1>2. new \in ControllerStates
  BY SnapshotType DEF TypeOK, StoreTypeOK, ControllerTypeOK, ControllerStates
<1>3. new.pc = "planning" /\ new.snap = Snapshot /\ new.pending = queue /\ new.outer = ctl[c].outer
  BY DEF TypeOK, ControllerTypeOK, ControllerStates
<1> HIDE DEF new
<1>4. ControllerOK(new)
  BY <1>3, SnapshotDescribes DEF ControllerOK, ControllersOK
<1> QED
  BY <1>1, <1>2, <1>4

LEMMA EndReconcileOK ==
  ASSUME TypeOK, RevisionsOrdered, NEW c \in Controllers, EndReconcile(c)
  PROVE  \E v \in ControllerStates : ControllerOK(v) /\ ctl' = [ctl EXCEPT ![c] = v]
<1>1. ctl' \in [Controllers -> ControllerStates]
  BY EndReconcileType
<1>2. /\ ctl' = [ctl EXCEPT ![c] = ctl'[c]]
      /\ ctl'[c].pc = "idle" /\ ctl'[c].outer = NoSnapshot /\ ctl'[c].snap = NoSnapshot
  BY DEF EndReconcile, TypeOK, ControllerTypeOK, ControllerStates
<1>3. PICK v \in ControllerStates : v = ctl'[c]
  BY <1>1
<1> QED
  BY <1>2, <1>3, StandbyOK

\* Whatever a controller goes on with after a step describes the store that
\* the step started from.
LEMMA ControllerMoves ==
  ASSUME TypeOK, RevisionsOrdered, ControllersOK, NEW c \in Controllers,
         ControllerStep(c) \/ ControllerFault(c)
  PROVE  \E v \in ControllerStates : ControllerOK(v) /\ ctl' = [ctl EXCEPT ![c] = v]
<1> USE DEF TypeOK
<1>0. ctl[c] \in ControllerStates /\ ControllerOK(ctl[c])
  BY DEF ControllerTypeOK, ControllersOK
<1>1. \A v \in ControllerStates :
        v.outer = NoSnapshot /\ v.snap = NoSnapshot /\ v.pc \notin {"planning", "publishing", "published"}
          => ControllerOK(v)
  BY StandbyOK
<1>2. ASSUME ctl' = [ctl EXCEPT ![c] = Standby]
      PROVE  \E v \in ControllerStates : ControllerOK(v) /\ ctl' = [ctl EXCEPT ![c] = v]
  <2>1. Standby.outer = NoSnapshot /\ Standby.snap = NoSnapshot /\ Standby.pc = "standby"
    BY DEF Standby
  <2> QED
    BY <1>1, <1>2, <2>1, StandbyType
<1>3. CASE Acquire(c)
  <2> DEFINE new == [Standby EXCEPT !.pc = "idle", !.lease = leases']
  <2>0. leases' \in Nat
    BY SMT, <1>3 DEF Acquire, ControllerTypeOK
  <2>1. ctl' = [ctl EXCEPT ![c] = new] /\ new \in ControllerStates
    BY <1>3, <2>0, StandbyType DEF Acquire
  <2>2. new.outer = NoSnapshot /\ new.snap = NoSnapshot /\ new.pc = "idle"
    BY DEF Standby
  <2> HIDE DEF new
  <2> QED
    BY <1>1, <2>1, <2>2
<1>4. CASE PlanError(c)
  <2> DEFINE new == [Standby EXCEPT !.pc = "failed"]
  <2>1. ctl' = [ctl EXCEPT ![c] = new] /\ new \in ControllerStates
    BY <1>4, StandbyType DEF PlanError
  <2>2. new.outer = NoSnapshot /\ new.snap = NoSnapshot /\ new.pc = "failed"
    BY DEF Standby
  <2> HIDE DEF new
  <2> QED
    BY <1>1, <2>1, <2>2
<1>5. CASE RestartController(c) \/ LeaveTerm(c) \/ Relinquish(c)
  BY <1>2, <1>5 DEF RestartController, LeaveTerm, Relinquish
<1>6. CASE TakeSnapshot(c)
  <2> DEFINE new == [ctl[c] EXCEPT !.pc = "planning", !.outer = Snapshot, !.snap = Snapshot,
                       !.pending = queue, !.mode = ModeFor(c, Snapshot),
                       !.since = IF ctl[c].mode = "Startup" THEN rev ELSE ctl[c].since]
  <2>1. ctl' = [ctl EXCEPT ![c] = new]
    BY <1>6 DEF TakeSnapshot
  <2>2. ModeFor(c, Snapshot) \in Modes
    BY DEF ModeFor, Modes
  <2>3. new \in ControllerStates
    BY <2>2, SnapshotType DEF StoreTypeOK, ControllerTypeOK, ControllerStates
  <2>4. new.pc = "planning" /\ new.outer = Snapshot /\ new.snap = Snapshot /\ new.pending = queue
    BY <1>0 DEF ControllerStates
  <2> HIDE DEF new
  <2>5. ControllerOK(new)
    BY <2>4, SnapshotDescribes DEF ControllerOK
  <2> QED
    BY <2>1, <2>3, <2>5
<1>7. CASE CheckInputs(c)
  <2>1. ASSUME NEW d \in Dispatches(ctl[c].snap, ctl[c].pending, ctl[c].mode),
               ctl[c].pc = "planning",
               ctl' = [ctl EXCEPT ![c] = [@ EXCEPT !.pc = "publishing",
                        !.next = NextPending(ctl[c].snap, ctl[c].pending, ctl[c].mode, d)]]
        PROVE  \E v \in ControllerStates : ControllerOK(v) /\ ctl' = [ctl EXCEPT ![c] = v]
    <3> DEFINE next == NextPending(ctl[c].snap, ctl[c].pending, ctl[c].mode, d)
               new == [ctl[c] EXCEPT !.pc = "publishing", !.next = next]
    <3>1. next \in SUBSET Messages
      BY <1>0, NextPendingType DEF ControllerStates
    <3>2. PlanOK(ctl[c].snap, next)
      <4>1. ctl[c].snap.queueRev = queueRev => ctl[c].pending = queue
        BY <1>0, <2>1 DEF ControllerOK
      <4>2. ctl[c].mode \in Modes
        BY <1>0 DEF ControllerStates
      <4> QED
        BY <4>1, <4>2 DEF PlanOK
    <3>3. ctl' = [ctl EXCEPT ![c] = new]
      BY <2>1
    <3> HIDE DEF next
    <3>4. /\ new \in ControllerStates /\ new.pc = "publishing"
          /\ new.outer = ctl[c].outer /\ new.snap = ctl[c].snap /\ new.next = next
          /\ new.pending = ctl[c].pending
      BY <1>0, <3>1 DEF ControllerStates
    <3> HIDE DEF new
    <3>5. ControllerOK(new)
      BY <1>0, <2>1, <3>2, <3>4 DEF ControllerOK
    <3> QED
      BY <3>3, <3>4, <3>5
  <2> QED
    BY <1>7, <2>1, ReplanOK, EndReconcileOK DEF CheckInputs
<1>8. CASE Publish(c)
  <2> DEFINE new == [ctl[c] EXCEPT !.pc = "published"]
  <2>1. /\ ctl' = [ctl EXCEPT ![c] = new] /\ new \in ControllerStates
        /\ new.pc = "published" /\ new.outer = ctl[c].outer /\ new.snap = ctl[c].snap
        /\ new.pending = ctl[c].pending
    BY <1>0, <1>8 DEF Publish, ControllerStates, ControllerTypeOK
  <2> HIDE DEF new
  <2>2. ControllerOK(new)
    BY <1>0, <1>8, <2>1 DEF ControllerOK, Publish
  <2> QED
    BY <2>1, <2>2
<1>9. CASE Rejected(c)
  BY <1>2, <1>9, ReplanOK DEF Rejected
<1>10. CASE PostPublish(c)
  BY <1>10, ReplanOK, EndReconcileOK DEF PostPublish
<1>11. CASE RecordLeaseExpiry(c)
  <2>1. CASE UNCHANGED ctl
    <3>1. ctl' = [ctl EXCEPT ![c] = ctl[c]]
      BY <2>1 DEF ControllerTypeOK
    <3> QED
      BY <1>0, <3>1
  <2> QED
    BY <1>2, <1>11, <2>1 DEF RecordLeaseExpiry
<1>12. CASE TransientError(c)
  <2> DEFINE new == [ctl[c] EXCEPT !.pc = "planning", !.snap = ctl[c].outer, !.next = {},
                       !.pending = IF ctl[c].mode = "Startup" THEN ctl[c].pending
                                   ELSE ctl[c].outer.queue]
  <2>1. ctl' = [ctl EXCEPT ![c] = new]
    BY <1>12 DEF TransientError
  <2>2. ctl[c].outer.queue \subseteq Messages
    BY <1>0 DEF ControllerStates, Snapshots
  <2>3. new \in ControllerStates
    BY <1>0, <2>2 DEF ControllerStates
  <2>4. /\ new.pc = "planning" /\ new.outer = ctl[c].outer /\ new.snap = ctl[c].outer
        /\ new.pending = IF ctl[c].mode = "Startup" THEN ctl[c].pending ELSE ctl[c].outer.queue
    BY <1>0 DEF ControllerStates
  <2> HIDE DEF new
  <2>5. ControllerOK(new)
    BY <1>0, <1>12, <2>4 DEF ControllerOK, SnapshotOK, TransientError
  <2> QED
    BY <2>1, <2>3, <2>5
<1> QED
  BY <1>3, <1>4, <1>5, <1>6, <1>7, <1>8, <1>9, <1>10, <1>11, <1>12
  DEF ControllerStep, ControllerFault

\* A publication left in flight was a sound one.
LEMMA DelayedMoves ==
  ASSUME TypeOK, ControllersOK, [Next]_vars, NEW r \in delayed'
  PROVE  r \in Requests /\ SnapshotOK(r.snap) /\ PlanOK(r.snap, r.next)
<1> USE DEF TypeOK, ControllerTypeOK, ControllersOK
<1>1. CASE r \in delayed
  BY <1>1
<1>2. ASSUME NEW c \in Controllers, ctl[c].pc = "publishing", r = Request(c)
      PROVE  r \in Requests /\ SnapshotOK(r.snap) /\ PlanOK(r.snap, r.next)
  <2>1. r \in Requests
    BY <1>2, RequestType
  <2>2. r.snap = ctl[c].snap /\ r.next = ctl[c].next
    BY <1>2 DEF Request
  <2> QED
    BY <1>2, <2>1, <2>2 DEF ControllerOK
<1>3. r \in delayed \/ \E c \in Controllers : ctl[c].pc = "publishing" /\ r = Request(c)
  <2>1. ASSUME NEW c \in Controllers, ControllerStep(c) \/ ControllerFault(c)
        PROVE  delayed' = delayed \/ LeaveInFlight(c)
    BY <2>1
    DEF ControllerStep, ControllerFault, Acquire, RestartController, TakeSnapshot, CheckInputs,
        PlanError, Publish, Rejected, PostPublish, RecordLeaseExpiry, TransientError, LeaveTerm,
        Relinquish
  <2>2. delayed' \subseteq delayed \/ \E c \in Controllers : LeaveInFlight(c)
    BY <2>1
    DEF Next, SystemStep, FaultStep, DelayedPublish, ExpireController, ctlVars, vars
  <2> QED
    BY <2>2 DEF LeaveInFlight
<1> QED
  BY <1>1, <1>2, <1>3

LEMMA ControllersStep ==
  ASSUME TypeOK, TypeOK', RevisionsOrdered, ControllersOK, [Next]_vars
  PROVE  ControllersOK'
<1>1. QueueForward /\ InputsForward /\ rev' >= rev
  BY StoreSteps, StoreForward
<1>2. \A r \in delayed' : SnapshotOK(r.snap)' /\ PlanOK(r.snap, r.next)'
  <2> SUFFICES ASSUME NEW r \in delayed'
               PROVE  SnapshotOK(r.snap)' /\ PlanOK(r.snap, r.next)'
    OBVIOUS
  <2>1. r \in Requests /\ r.snap \in Snapshots /\ SnapshotOK(r.snap) /\ PlanOK(r.snap, r.next)
    BY DelayedMoves DEF Requests
  <2> QED
    BY <1>1, <2>1, SnapshotKept, PlanKept
<1>3. \A v \in ControllerStates : ControllerOK(v) => ControllerOK(v)'
  BY <1>1, ControllerKept
<1>4. ASSUME NEW c \in Controllers
      PROVE  \E v \in ControllerStates : ctl'[c] = v /\ ControllerOK(v)
  <2>1. ctl[c] \in ControllerStates /\ ControllerOK(ctl[c])
    BY DEF TypeOK, ControllerTypeOK, ControllersOK
  <2>2. ASSUME NEW b \in Controllers, ControllerStep(b) \/ ControllerFault(b)
        PROVE  \E v \in ControllerStates : ctl'[c] = v /\ ControllerOK(v)
    <3>1. PICK v \in ControllerStates : ControllerOK(v) /\ ctl' = [ctl EXCEPT ![b] = v]
      BY <2>2, ControllerMoves
    <3> QED
      BY <2>1, <3>1 DEF TypeOK, ControllerTypeOK
  <2>3. ctl' = ctl \/ \E b \in Controllers : ControllerStep(b) \/ ControllerFault(b)
    BY DEF Next, SystemStep, FaultStep, DelayedPublish, ExpireController, ctlVars, vars
  <2> QED
    BY <2>1, <2>2, <2>3
<1>5. ASSUME NEW c \in Controllers
      PROVE  ControllerOK(ctl[c])'
  <2>1. PICK v \in ControllerStates : ctl'[c] = v /\ ControllerOK(v)
    BY <1>4
  <2>2. ControllerOK(v)'
    BY <1>3, <2>1
  <2> QED
    BY <2>1, <2>2 DEF ControllerOK, SnapshotOK, PlanOK
<1> QED
  BY <1>2, <1>5 DEF ControllersOK

-----------------------------------------------------------------------------
(***************************************************************************)
(* The revisions.                                                          *)
(***************************************************************************)
LEMMA RevisionsStep ==
  ASSUME TypeOK, RevisionsOrdered, StoreStep
  PROVE  RevisionsOrdered'
<1> USE DEF TypeOK, StoreTypeOK, RevisionsOrdered
<1>1. CASE StoreKept
  BY <1>1 DEF StoreKept, outputVars
<1>2. CASE Publication
  <2>1. PICK r \in Requests : Commit(r)
    BY <1>2 DEF Publication
  <2>2. r.snap.auth \in Nat
    BY DEF Requests, Snapshots
  <2> QED
    BY SMTT(30), <2>1, <2>2 DEF Commit, InputsUnchanged, NewRev
<1>3. CASE Registration
  BY SMTT(60), <1>3 DEF Registration, PutRegistration, WriteInput, NewRev, outputVars
<1>4. CASE Completion
  BY SMTT(30), <1>4 DEF Completion, CompleteApply, WriteInput, NewRev
<1>5. CASE Withdrawal
  BY SMTT(30), <1>5 DEF Withdrawal, WriteQueue, NewRev, inputVars
<1>6. CASE Expiry
  BY SMTT(30), <1>6 DEF Expiry, DeleteLive, NewRev, inputVars, outputVars
<1>7. CASE InputWrite
  BY SMTT(30), <1>7 DEF InputWrite, WriteInput, NewRev, outputVars
<1> QED
  BY <1>1, <1>2, <1>3, <1>4, <1>5, <1>6, <1>7 DEF StoreStep

-----------------------------------------------------------------------------
(***************************************************************************)
(* The sessions.                                                           *)
(***************************************************************************)
\* A live key disappears, at most.
LiveShrinks == \A i \in Instances : live'[i] \in {0, live[i]}

\* Steps that leave processes and session markers alone keep the sessions.
LEMMA SessionsKept ==
  ASSUME TypeOK, TypeOK', SessionsOwned, LiveShrinks, UNCHANGED <<proc, registered, sequence>>
  PROVE  SessionsOwned'
<1>1. \A i \in Instances : live'[i] # 0 => registered'[live'[i]] = i
  BY DEF SessionsOwned, LiveShrinks
<1> QED
  BY <1>1 DEF SessionsOwned

\* No process holds a session beyond the sequence.
LEMMA SessionsBounded ==
  ASSUME TypeOK, SessionsOwned, NEW q \in Procs
  PROVE  proc[q].session \in 0..sequence
<1>1. proc[q] \in ProcStates /\ ProcInstance[q] \in Instances
  BY ProcAssumption DEF TypeOK, ParticipantTypeOK
<1>2. CASE proc[q].pc \in {"running", "draining", "stopping"}
  BY SMTT(30), <1>1, <1>2, InstanceAssumption, BoundAssumption
  DEF SessionsOwned, ProcStates, Sessions, TypeOK, StoreTypeOK
<1>3. CASE proc[q].pc \in {"down", "waiting", "allocating", "registering"}
  BY SMTT(30), <1>3, BoundAssumption DEF SessionsOwned, TypeOK, StoreTypeOK
<1> QED
  BY <1>1, <1>2, <1>3 DEF ProcStates

LEMMA AllocateSessions ==
  ASSUME TypeOK, TypeOK', SessionsOwned, NEW q \in Procs, Allocate(q)
  PROVE  SessionsOwned'
<1>1. sequence' = sequence + 1 /\ sequence \in Nat /\ sequence' \in Sessions
  BY SMTT(30), BoundAssumption DEF Allocate, TypeOK, StoreTypeOK, Sessions
<1>2. /\ proc'[q].pc = "registering" /\ proc'[q].session = sequence'
      /\ \A r \in Procs \ {q} : proc'[r] = proc[r]
      /\ live' = live /\ registered' = registered
  BY DEF Allocate, TypeOK, ParticipantTypeOK
<1>3. \A r \in Procs \ {q} : proc[r].session \in 0..sequence
  BY SessionsBounded
<1>4. registered[sequence'] = ABSENT
  BY SMT, <1>1 DEF SessionsOwned
<1>5. \A s \in Sessions : s > sequence' => registered'[s] = ABSENT
  BY SMT, <1>1, <1>2 DEF SessionsOwned, Sessions
<1>6. \A r \in Procs : proc'[r].pc = "registering" =>
         /\ proc'[r].session \in 1..sequence'
         /\ registered'[proc'[r].session] = ABSENT
         /\ \A t \in Procs \ {r} : proc'[t].session # proc'[r].session
  BY SMTT(30), <1>1, <1>2, <1>3, <1>4 DEF SessionsOwned
<1> QED
  BY <1>1, <1>2, <1>5, <1>6 DEF SessionsOwned

\* The registration transaction gives a session nobody else has to the live key.
LEMMA PutRegistrationSessions ==
  ASSUME TypeOK, TypeOK', SessionsOwned, NEW q \in Procs, proc[q].pc = "registering",
         PutRegistration(q), \A r \in Procs \ {q} : proc'[r] = proc[r],
         \/ proc'[q].pc = "running" /\ proc'[q].session = proc[q].session
         \/ proc'[q].pc = "waiting" /\ proc'[q].session = 0
  PROVE  SessionsOwned'
<1> DEFINE s == proc[q].session
           i == ProcInstance[q]
<1>1. /\ s \in Sessions /\ s \in 1..sequence /\ sequence \in Nat /\ i \in Instances
      /\ registered[s] = ABSENT /\ ABSENT \notin Instances
      /\ \A r \in Procs \ {q} : proc[r].session # s
  BY SMTT(60), ProcAssumption, InstanceAssumption, BoundAssumption
  DEF SessionsOwned, TypeOK, StoreTypeOK, Sessions
<1>2. /\ live' = [live EXCEPT ![i] = s] /\ registered' = [registered EXCEPT ![s] = i]
      /\ sequence' = sequence
  BY DEF PutRegistration
<1>3. \A t \in Sessions : registered'[t] = IF t = s THEN i ELSE registered[t]
  BY <1>2 DEF TypeOK, StoreTypeOK
<1>4. \A j \in Instances : live'[j] # 0 => registered'[live'[j]] = j
  BY SMTT(60), <1>1, <1>2, <1>3 DEF TypeOK, StoreTypeOK, SessionsOwned
<1>5. \A t \in Sessions : t > sequence' => registered'[t] = ABSENT
  BY SMTT(30), <1>1, <1>2, <1>3 DEF SessionsOwned, Sessions
<1>6. ASSUME NEW r \in Procs \ {q}, proc[r].pc = "registering"
      PROVE  /\ proc[r].session \in 1..sequence
             /\ registered'[proc[r].session] = ABSENT
             /\ \A t \in Procs \ {r} : proc'[t].session # proc[r].session
  <2>1. /\ proc[r].session \in 1..sequence /\ registered[proc[r].session] = ABSENT
        /\ \A t \in Procs \ {r} : proc[t].session # proc[r].session
    BY <1>6 DEF SessionsOwned
  <2>2. proc[r].session \in Sessions
    BY SMTT(60), <1>1, <2>1, BoundAssumption DEF TypeOK, StoreTypeOK, Sessions
  <2>3. \A t \in Procs \ {r} : proc'[t].session # proc[r].session
    BY SMTT(30), <1>1, <2>1
  <2> QED
    BY <1>1, <1>3, <2>1, <2>2, <2>3
<1>7. ASSUME NEW r \in Procs \ {q}, proc[r].pc \in {"running", "draining", "stopping"}
      PROVE  proc[r].session # 0 /\ registered'[proc[r].session] = ProcInstance[r]
  BY <1>1, <1>3, <1>7 DEF SessionsOwned, TypeOK, ParticipantTypeOK, ProcStates
<1> HIDE DEF s, i
<1>8. proc'[q].pc = "running" => proc'[q].session = s /\ s # 0 /\ registered'[s] = ProcInstance[q]
  BY SMTT(30), <1>1, <1>3 DEF s, i
<1> QED
  BY SMTT(30), <1>2, <1>4, <1>5, <1>6, <1>7, <1>8 DEF SessionsOwned

\* A process that keeps its session, or has none, keeps the sessions.
LEMMA ProcessSessions ==
  ASSUME TypeOK, TypeOK', SessionsOwned, NEW q \in Procs, LiveShrinks,
         UNCHANGED <<registered, sequence>>,
         \A r \in Procs \ {q} : proc'[r] = proc[r],
         \/ /\ proc[q].pc \in {"running", "draining", "stopping"}
            /\ proc'[q].pc \in {"running", "draining", "stopping"}
            /\ proc'[q].session = proc[q].session
         \/ proc'[q].pc \in {"down", "waiting", "allocating"} /\ proc'[q].session = 0
  PROVE  SessionsOwned'
<1>1. \A i \in Instances : live'[i] # 0 => registered'[live'[i]] = i
  BY DEF SessionsOwned, LiveShrinks
<1>2. \A r \in Procs \ {q} : proc'[r].pc = "registering" =>
         /\ proc'[r].session \in 1..sequence
         /\ registered[proc'[r].session] = ABSENT
         /\ \A t \in Procs \ {r} : proc'[t].session # proc'[r].session
  BY SMTT(30) DEF SessionsOwned
<1> QED
  BY SMT, <1>1, <1>2 DEF SessionsOwned

LEMMA SessionsStep ==
  ASSUME TypeOK, TypeOK', SessionsOwned, ControllersOK, [Next]_vars
  PROVE  SessionsOwned'
<1> USE DEF TypeOK
<1>1. UNCHANGED storeVars => LiveShrinks /\ UNCHANGED <<registered, sequence>>
  BY DEF storeVars, inputVars, LiveShrinks
<1>2. ASSUME NEW i \in Instances, DeleteLive(i)
      PROVE  LiveShrinks /\ UNCHANGED <<registered, sequence>>
  BY <1>2 DEF DeleteLive, LiveShrinks, StoreTypeOK, inputVars
<1>3. ASSUME NEW c \in Controllers, ControllerStep(c) \/ ControllerFault(c)
      PROVE  LiveShrinks /\ UNCHANGED <<registered, sequence>>
  BY <1>1, <1>3
  DEF ControllerStep, ControllerFault, Acquire, RestartController, TakeSnapshot, CheckInputs,
      PlanError, Publish, Commit, Rejected, PostPublish, RecordLeaseExpiry, TransientError,
      LeaveTerm, Relinquish, inputVars, LiveShrinks
<1>4. ASSUME NEW q \in Procs, NEW p \in Partitions, WorkerStep(q, p) \/ HandlerError(q, p)
      PROVE  LiveShrinks /\ UNCHANGED <<proc, registered, sequence>>
  BY <1>1, <1>4
  DEF WorkerStep, ReadCurrent, Claim, Handle, HandlerError, HandlerReturns, RetryComplete,
      CompleteRead, CompleteApply, CompleteRefused, LostCleanup, Cleanup, WorkerExit, inputVars,
      LiveShrinks
<1>5. ASSUME NEW q \in Procs, Revoke(q)
      PROVE  LiveShrinks /\ UNCHANGED <<registered, sequence>>
  BY <1>1, <1>2, <1>5, ProcAssumption DEF Revoke
<1>6. ASSUME NEW q \in Procs, ProcessStep(q) \/ ObserveQueue(q) \/ RegisterUnanswered(q)
               \/ PresumeExpired(q) \/ Stop(q) \/ Fail(q)
      PROVE  SessionsOwned'
  <2>0. proc \in [Procs -> ProcStates]
    BY DEF ParticipantTypeOK
  <2>1. CASE SeeNoSession(q) \/ Restart(q)
    BY SMTT(30), <1>1, <2>0, <2>1, ProcessSessions DEF SeeNoSession, Restart, SessionsOwned, ProcStates
  <2>2. CASE NoticeExpired(q) \/ PresumeExpired(q) \/ Stop(q)
    BY SMT, <1>1, <2>0, <2>2, ProcessSessions DEF NoticeExpired, PresumeExpired, Stop, ProcStates
  <2>3. CASE Allocate(q)
    BY <2>3, AllocateSessions
  <2>4. CASE Register(q)
    <3>1. CASE PutRegistration(q) /\ proc' = [proc EXCEPT ![q].pc = "running", ![q].carried = {}]
      BY <2>0, <2>4, <3>1, PutRegistrationSessions DEF Register, ProcStates
    <3>2. CASE UNCHANGED storeVars /\ proc' = [proc EXCEPT ![q] = [Down EXCEPT !.pc = "waiting"]]
      BY <1>1, <2>0, <3>2, ProcessSessions DEF Down
    <3> QED
      BY <2>4, <3>1, <3>2 DEF Register
  <2>5. CASE RegisterUnanswered(q)
    BY <2>0, <2>5, PutRegistrationSessions DEF RegisterUnanswered, Down
  <2>6. CASE ObserveQueue(q)
    BY <1>1, <2>6, SessionsKept DEF ObserveQueue
  <2>7. CASE Drained(q)
    <3>1. LiveShrinks /\ UNCHANGED <<registered, sequence>>
      BY <1>1, <1>5, <2>7 DEF Drained
    <3> QED
      BY SMTT(30), <2>0, <2>7, <3>1, ProcessSessions DEF Drained, Down
  <2>8. CASE Fail(q)
    <3>1. LiveShrinks /\ UNCHANGED <<registered, sequence>>
      BY <1>1, <1>5, <2>8 DEF Fail
    <3> QED
      BY <2>0, <2>8, <3>1, ProcessSessions DEF Fail, Down
  <2> QED
    BY <1>6, <2>1, <2>2, <2>3, <2>4, <2>5, <2>6, <2>7, <2>8 DEF ProcessStep
<1>7. ASSUME NEW r \in delayed, DelayedPublish(r)
      PROVE  LiveShrinks /\ UNCHANGED <<registered, sequence>>
  BY <1>7 DEF DelayedPublish, Commit, inputVars, LiveShrinks
<1>8. ASSUME ExpireController \/ AdminStep
      PROVE  LiveShrinks /\ UNCHANGED <<registered, sequence>>
  BY <1>8 DEF ExpireController, AdminStep, PutResource, PutInstance, RemoveInstance, inputVars,
              LiveShrinks
<1>9. CASE UNCHANGED vars
  BY <1>1, <1>9, SessionsKept DEF vars, partVars
<1> QED
  BY <1>2, <1>3, <1>4, <1>6, <1>7, <1>8, <1>9, SessionsKept
  DEF Next, SystemStep, FaultStep, ParticipantStep, ParticipantFault, ExpireOrphan,
      ExpireSession, partVars

-----------------------------------------------------------------------------
(***************************************************************************)
(* The workers.                                                            *)
(***************************************************************************)
\* A process observes the messages of its own instance.
LEMMA ImagesStep ==
  ASSUME TypeOK, ImagesOK, [Next]_vars
  PROVE  ImagesOK'
<1>1. ASSUME NEW q \in Procs, NEW p \in Partitions, WorkerStep(q, p) \/ HandlerError(q, p)
      PROVE  image' = image
  BY <1>1
  DEF WorkerStep, ReadCurrent, Claim, Handle, HandlerError, HandlerReturns, RetryComplete,
      CompleteRead, CompleteApply, CompleteRefused, LostCleanup, Cleanup, WorkerExit
<1>2. ASSUME NEW q \in Procs, ParticipantStep(q) \/ ParticipantFault(q)
      PROVE  \/ image' = image
             \/ \E M \in SUBSET queue :
                  image' = [image EXCEPT ![q] = M] /\ \A m \in M : m.inst = ProcInstance[q]
  <2>1. CASE ObserveQueue(q)
    BY <2>1 DEF ObserveQueue
  <2>2. CASE Drained(q) \/ Fail(q)
    <3>1. image' = [image EXCEPT ![q] = {}] /\ {} \in SUBSET queue
      BY <2>2 DEF Drained, Fail
    <3> QED
      BY <3>1
  <2> QED
    BY <1>1, <1>2, <2>1, <2>2
    DEF ParticipantStep, ParticipantFault, ProcessStep, SeeNoSession, Allocate, Register,
        RegisterUnanswered, NoticeExpired, PresumeExpired, Stop, Restart
<1>3. image' = image \/ \E q \in Procs : ParticipantStep(q) \/ ParticipantFault(q)
  BY DEF Next, SystemStep, FaultStep, ExpireOrphan, ExpireSession, partVars, vars
<1> QED
  BY <1>2, <1>3 DEF ImagesOK, TypeOK, ParticipantTypeOK

\* Workers are started for the messages of their process and partition.
LEMMA SpawnOK ==
  ASSUME NEW workers \in [Partitions -> WorkerStates], NEW messages \in SUBSET Messages,
         NEW q \in Procs, NEW p \in Partitions, NEW v,
         v.pc = "running", \A m \in messages : m.inst = ProcInstance[q],
         WorkerOK(v, q, p, workers[p])
  PROVE  WorkerOK(v, q, p, Spawn(workers, messages)[p])
<1> DEFINE here == {m \in messages : m.part = p}
           msg == CHOOSE m \in here : TRUE
<1>1. CASE workers[p].pc = "idle" /\ here # {}
  <2>1. msg \in here
    BY <1>1
  <2>2. Spawn(workers, messages)[p] = [Idle EXCEPT !.pc = "read", !.msg = msg]
    BY <1>1 DEF Spawn
  <2> HIDE DEF msg
  <2>3. [Idle EXCEPT !.pc = "read", !.msg = msg].pc = "read"
        /\ [Idle EXCEPT !.pc = "read", !.msg = msg].msg = msg
    BY DEF Idle
  <2> QED
    BY <2>1, <2>2, <2>3 DEF WorkerOK
<1>2. CASE ~(workers[p].pc = "idle" /\ here # {})
  BY <1>2 DEF Spawn
<1> QED
  BY <1>1, <1>2

\* The read of complete_pending_transition_with_fence.
LEMMA CompleteReadOK ==
  ASSUME TypeOK, NEW q \in Procs, NEW p \in Partitions, NEW w \in WorkerStates,
         WorkerOK(proc[q], q, p, w), w.pc \in {"handle", "complete"},
         w.result \in {w.msg.to, "ERROR"}, CompleteRead(q, p, w)
  PROVE  \E u \in WorkerStates : WorkerOK(proc[q], q, p, u) /\ SetWorker(q, p, u)
<1>1. [w EXCEPT !.pc = "complete", !.fence = queueRev] \in WorkerStates
  BY DEF TypeOK, StoreTypeOK, WorkerStates
<1>2. [w EXCEPT !.pc = "txn", !.seen = queue] \in WorkerStates
  BY DEF TypeOK, StoreTypeOK, WorkerStates
<1>3. WorkerOK(proc[q], q, p, [w EXCEPT !.pc = "complete", !.fence = queueRev])
  BY DEF WorkerOK, WorkerStates
<1>4. w.msg \in queue /\ queueRev = w.fence =>
        WorkerOK(proc[q], q, p, [w EXCEPT !.pc = "txn", !.seen = queue])
  BY SMT DEF WorkerOK, WorkerStates, TypeOK, StoreTypeOK
<1>5. WorkerOK(proc[q], q, p, Done)
  BY DEF WorkerOK, Done, Idle
<1>6. \/ SetWorker(q, p, Done)
      \/ SetWorker(q, p, [w EXCEPT !.pc = "complete", !.fence = queueRev])
      \/ /\ w.msg \in queue /\ queueRev = w.fence
         /\ SetWorker(q, p, [w EXCEPT !.pc = "txn", !.seen = queue])
  BY DEF CompleteRead
<1> QED
  BY <1>1, <1>2, <1>3, <1>4, <1>5, <1>6, WorkerConstantsType

\* What a worker goes on with after a step.
LEMMA WorkerMoves ==
  ASSUME TypeOK, WorkersOK, NEW q \in Procs, NEW p \in Partitions,
         WorkerStep(q, p) \/ HandlerError(q, p), ~WorkerExit(q, p)
  PROVE  \E u \in WorkerStates : WorkerOK(proc[q], q, p, u) /\ SetWorker(q, p, u)
<1> DEFINE w == worker[q][p]
<1>0. w \in WorkerStates /\ WorkerOK(proc[q], q, p, w)
  BY WorkerType DEF WorkersOK
<1>1. WorkerOK(proc[q], q, p, Done) /\ Done \in WorkerStates
  BY WorkerConstantsType DEF WorkerOK, Done, Idle
<1> HIDE DEF w
<1>2. CASE ReadCurrent(q, p)
  <2> DEFINE u == [w EXCEPT !.pc = IF Applicable(q, p) THEN "claim" ELSE "cleanup"]
  <2>1. u \in WorkerStates /\ u.msg = w.msg /\ u.pc = IF Applicable(q, p) THEN "claim" ELSE "cleanup"
    BY <1>0 DEF WorkerStates
  <2>2. Applicable(q, p) => w.msg.sess = proc[q].session
    BY DEF Applicable, w
  <2>3. SetWorker(q, p, u) /\ w.pc = "read"
    BY <1>2 DEF ReadCurrent, w
  <2> HIDE DEF u
  <2>4. WorkerOK(proc[q], q, p, u)
    BY <1>0, <2>1, <2>2, <2>3 DEF WorkerOK
  <2> QED
    BY <2>1, <2>3, <2>4
<1>3. CASE Claim(q, p)
  <2> DEFINE u == [w EXCEPT !.pc = "cleanup"]
             h == [w EXCEPT !.pc = "handle", !.fence = queueRev]
  <2>1. u \in WorkerStates /\ u.msg = w.msg /\ u.pc = "cleanup"
    BY <1>0 DEF WorkerStates
  <2>2. h \in WorkerStates /\ h.msg = w.msg /\ h.pc = "handle"
    BY <1>0 DEF WorkerStates, TypeOK, StoreTypeOK
  <2>3. /\ SetWorker(q, p, Done) \/ SetWorker(q, p, u) \/ SetWorker(q, p, h)
        /\ w.pc = "claim"
    BY <1>3 DEF Claim, w
  <2> HIDE DEF u, h
  <2>4. WorkerOK(proc[q], q, p, u) /\ WorkerOK(proc[q], q, p, h)
    BY <1>0, <2>1, <2>2, <2>3 DEF WorkerOK
  <2> QED
    BY <1>1, <2>1, <2>2, <2>3, <2>4
<1>4. ASSUME NEW result \in {w.msg.to, "ERROR"}, HandlerReturns(q, p, result)
      PROVE  \E u \in WorkerStates : WorkerOK(proc[q], q, p, u) /\ SetWorker(q, p, u)
  <2> DEFINE u == [w EXCEPT !.result = result]
  <2>1. u \in WorkerStates /\ u.msg = w.msg /\ u.pc = w.pc /\ u.result = result
    BY SMT, <1>0 DEF WorkerStates, Messages, NoMessage
  <2>2. CompleteRead(q, p, u) /\ w.pc = "handle"
    BY <1>4 DEF HandlerReturns, w
  <2> HIDE DEF u
  <2>3. WorkerOK(proc[q], q, p, u)
    BY <1>0, <2>1, <2>2 DEF WorkerOK
  <2> QED
    BY <2>1, <2>2, <2>3, CompleteReadOK
<1>5. CASE Handle(q, p) \/ HandlerError(q, p)
  BY <1>4, <1>5 DEF Handle, HandlerError, w
<1>6. CASE RetryComplete(q, p)
  BY <1>0, <1>6, CompleteReadOK DEF RetryComplete, WorkerOK, w
<1>7. CASE CompleteApply(q, p) \/ LostCleanup(q, p) \/ Cleanup(q, p)
  BY <1>1, <1>7 DEF CompleteApply, LostCleanup, Cleanup
<1>8. CASE CompleteRefused(q, p)
  <2> DEFINE u == [w EXCEPT !.seen = {},
                     !.pc = IF live[ProcInstance[q]] = proc[q].session THEN "complete" ELSE "lost"]
  <2>1. /\ u \in WorkerStates /\ u.msg = w.msg /\ u.result = w.result
        /\ u.pc \in {"complete", "lost"}
    BY <1>0 DEF WorkerStates
  <2>2. SetWorker(q, p, u) /\ w.pc = "txn"
    BY <1>8 DEF CompleteRefused, w
  <2> HIDE DEF u
  <2>3. WorkerOK(proc[q], q, p, u)
    BY <1>0, <2>1, <2>2 DEF WorkerOK
  <2> QED
    BY <2>1, <2>2, <2>3
<1> QED
  BY <1>2, <1>3, <1>5, <1>6, <1>7, <1>8 DEF WorkerStep

LEMMA WorkersStep ==
  ASSUME TypeOK, TypeOK', WorkersOK, ImagesOK, QueueForward, [Next]_vars
  PROVE  WorkersOK'
<1> USE DEF TypeOK
<1>0. /\ proc \in [Procs -> ProcStates] /\ worker \in [Procs -> [Partitions -> WorkerStates]]
      /\ image \in [Procs -> SUBSET Messages]
  BY DEF ParticipantTypeOK
<1>1. SUFFICES ASSUME NEW q \in Procs, NEW p \in Partitions
               PROVE  WorkerOK(proc'[q], q, p, worker'[q][p])
  <2>1. ASSUME NEW q \in Procs, NEW p \in Partitions
        PROVE  WorkerOK(proc[q], q, p, worker[q][p])'
    <3>1. PICK v \in ProcStates, w \in WorkerStates : v = proc'[q] /\ w = worker'[q][p]
      BY DEF ParticipantTypeOK
    <3>2. WorkerOK(v, q, p, w)'
      BY <1>1, <3>1, WorkerKept
    <3> QED
      BY <3>1, <3>2 DEF WorkerOK
  <2> QED
    BY <2>1 DEF WorkersOK
<1>2. WorkerOK(proc[q], q, p, worker[q][p]) /\ worker[q][p] \in WorkerStates
  BY <1>0 DEF WorkersOK
<1>3. \A v : WorkerOK(v, q, p, Idle)
  BY DEF WorkerOK, Idle
<1>4. ASSUME NEW r \in Procs, NEW s \in Partitions, WorkerStep(r, s) \/ HandlerError(r, s)
      PROVE  WorkerOK(proc'[q], q, p, worker'[q][p])
  <2>1. proc' = proc
    BY <1>4
    DEF WorkerStep, ReadCurrent, Claim, Handle, HandlerError, HandlerReturns, RetryComplete,
        CompleteRead, CompleteApply, CompleteRefused, LostCleanup, Cleanup, WorkerExit
  <2>2. CASE WorkerExit(r, s)
    <3> DEFINE released == [worker[r] EXCEPT ![s] = Idle]
    <3>1. released \in [Partitions -> WorkerStates]
      BY <1>0, WorkerConstantsType
    <3>2. q = r => WorkerOK(proc[q], q, p, released[p])
      BY <1>0, <1>2, <1>3
    <3> HIDE DEF released
    <3>3. q = r /\ proc[r].pc = "running" =>
            WorkerOK(proc[q], q, p, Spawn(released, image[r])[p])
      BY <1>0, <3>1, <3>2, SpawnOK DEF ImagesOK
    <3>4. worker' = [worker EXCEPT ![r] = IF proc[r].pc = "running"
                                          THEN Spawn(released, image[r]) ELSE released]
      BY <2>2 DEF WorkerExit, released
    <3>5. CASE q # r
      BY <1>0, <1>2, <2>1, <3>4, <3>5
    <3>6. CASE q = r
      BY <1>0, <2>1, <3>2, <3>3, <3>4, <3>6
    <3> QED
      BY <3>5, <3>6
  <2>3. CASE ~WorkerExit(r, s)
    <3>1. PICK u \in WorkerStates : WorkerOK(proc[r], r, s, u) /\ SetWorker(r, s, u)
      BY <1>4, <2>3, WorkerMoves
    <3>2. worker'[q][p] = IF q = r /\ p = s THEN u ELSE worker[q][p]
      BY <1>0, <3>1 DEF SetWorker
    <3> QED
      BY <1>2, <2>1, <3>1, <3>2
  <2> QED
    BY <2>2, <2>3
<1>5. ASSUME NEW r \in Procs, ProcessStep(r) \/ ObserveQueue(r) \/ RegisterUnanswered(r)
               \/ PresumeExpired(r) \/ Stop(r) \/ Fail(r)
      PROVE  WorkerOK(proc'[q], q, p, worker'[q][p])
  <2>1. CASE SeeNoSession(r) \/ Restart(r) \/ Allocate(r) \/ Register(r) \/ RegisterUnanswered(r)
    <3>1. /\ worker' = worker /\ (q # r => proc'[q] = proc[q])
          /\ proc[r].pc \notin {"running", "draining", "stopping"}
      BY <1>0, <2>1 DEF SeeNoSession, Restart, Allocate, Register, RegisterUnanswered
    <3>2. q = r => worker[q][p].pc \in {"idle", "done"}
      BY <1>2, <3>1 DEF WorkerOK
    <3> QED
      BY <1>2, <3>1, <3>2 DEF WorkerOK
  <2>2. CASE NoticeExpired(r) \/ PresumeExpired(r) \/ Stop(r)
    <3>1. PICK pc \in {"draining", "stopping"} :
            worker' = worker /\ proc' = [proc EXCEPT ![r].pc = pc]
      BY <2>2 DEF NoticeExpired, PresumeExpired, Stop
    <3>2. /\ proc'[q].session = proc[q].session
          /\ proc'[q].pc = proc[q].pc \/ proc'[q].pc = pc
      BY <1>0, <3>1 DEF ProcStates
    <3> QED
      BY <1>2, <3>1, <3>2 DEF WorkerOK
  <2>3. CASE ObserveQueue(r)
    <3> DEFINE mine == {m \in queue : m.inst = ProcInstance[r]}
    <3>1. mine \in SUBSET Messages /\ \A m \in mine : m.inst = ProcInstance[r]
      BY DEF StoreTypeOK
    <3>2. worker' = [worker EXCEPT ![r] = Spawn(worker[r], mine)]
          /\ proc' = proc /\ proc[r].pc = "running"
      BY <2>3 DEF ObserveQueue
    <3> HIDE DEF mine
    <3>3. q = r => WorkerOK(proc[q], q, p, Spawn(worker[r], mine)[p])
      BY <1>0, <1>2, <3>1, <3>2, SpawnOK
    <3>4. CASE q # r
      BY <1>0, <1>2, <3>2, <3>4
    <3>5. CASE q = r
      BY <1>0, <3>2, <3>3, <3>5
    <3> QED
      BY <3>4, <3>5
  <2>4. CASE Drained(r)
    <3>1. worker' = worker /\ worker[r] = NoWorkers /\ (q # r => proc'[q] = proc[q])
      BY <1>0, <2>4 DEF Drained
    <3>2. q = r => worker'[q][p] = Idle
      BY <3>1 DEF NoWorkers
    <3> QED
      BY <1>2, <1>3, <3>1, <3>2
  <2>5. CASE Fail(r)
    <3>1. /\ worker' = [worker EXCEPT ![r] = NoWorkers] /\ (q # r => proc'[q] = proc[q])
      BY <1>0, <2>5 DEF Fail
    <3>2. worker'[q][p] = IF q = r THEN Idle ELSE worker[q][p]
      BY <1>0, <3>1 DEF NoWorkers
    <3> QED
      BY <1>2, <1>3, <3>1, <3>2
  <2> QED
    BY <1>5, <2>1, <2>2, <2>3, <2>4, <2>5 DEF ProcessStep
<1>6. CASE UNCHANGED <<proc, worker>>
  BY <1>2, <1>6
<1> QED
  BY <1>4, <1>5, <1>6
  DEF Next, SystemStep, FaultStep, ParticipantStep, ParticipantFault, ExpireOrphan,
      ExpireSession, partVars, vars

-----------------------------------------------------------------------------
(*****************************************************************************)
(* What a publication puts in the queue.  Its compares make the snapshot     *)
(* it was planned from current, so it plans from the state it is applied     *)
(* to, and the leader slot that the selection stage found free is free.      *)
(*****************************************************************************)

\* The compares make the snapshot of a committed publication current.
LEMMA PublicationIsCurrent ==
  ASSUME TypeOK, NEW r \in Requests, SnapshotOK(r.snap), PlanOK(r.snap, r.next), Commit(r)
  PROVE  /\ r.snap \in Snapshots
         /\ r.snap.live = live /\ r.snap.configured = configured
         /\ \A i \in Instances : r.snap.states[i] = ActiveStates(i)
         /\ \E mode \in Modes : \E d \in Dispatches(r.snap, queue, mode) :
              queue' = NextPending(r.snap, queue, mode, d)
<1>1. r.snap \in Snapshots
  BY DEF Requests
<1>2. /\ r.snap.queueRev = queueRev /\ r.snap.auth = marker
      /\ \A i \in Instances : r.snap.live[i] # 0 => live[i] = r.snap.live[i]
      /\ queue' = r.next
  BY DEF Commit, InputsUnchanged
<1>3. \A i \in Instances : r.snap.live[i] = live[i]
  BY <1>1, <1>2 DEF SnapshotOK
<1>4. r.snap.live = live
  BY SMTT(30), <1>1, <1>3 DEF TypeOK, StoreTypeOK, Snapshots
<1>5. \A i \in Instances : r.snap.states[i] = ActiveStates(i)
  BY <1>2, <1>3 DEF SnapshotOK, ActiveStates
<1> QED
  BY <1>1, <1>2, <1>4, <1>5 DEF SnapshotOK, PlanOK

\* A published message was queued, or is new and for the live session.
LEMMA PublishedMessages ==
  ASSUME TypeOK, NEW r \in Requests, SnapshotOK(r.snap), PlanOK(r.snap, r.next), Commit(r),
         NEW m \in queue', m \notin queue
  PROVE  /\ m.sess = live[m.inst] /\ m.sess # 0 /\ m.id = r.snap.revision
         /\ m.to = "LEADER" => m.from = "STANDBY"
<1> DEFINE S == r.snap
<1>1. S \in Snapshots /\ S.live = live
  BY PublicationIsCurrent
<1>2a. PICK mode \in Modes : \E d \in Dispatches(S, queue, mode) : queue' = NextPending(S, queue, mode, d)
  BY PublicationIsCurrent
<1>2. PICK d \in Dispatches(S, queue, mode) : queue' = NextPending(S, queue, mode, d)
  BY <1>2a
<1> HIDE DEF S
<1>3. queue \in SUBSET Messages
  BY DEF TypeOK, StoreTypeOK
<1>4. PICK t \in SelectTransitions(S, queue, mode) :
        t.inst \in LiveInstances(S) /\ m = MessageFor(S, queue, t)
  BY SMTT(30), <1>1, <1>2, <1>3, PlanMembers DEF RetainPending
<1>5. t \in TransitionRequests(S)
  BY <1>4 DEF SelectTransitions
<1>6. /\ m.from = t.from /\ m.to = t.to /\ m.sess = S.live[m.inst] /\ m.sess # 0
      /\ m.id = S.revision
  BY <1>1, <1>3, <1>4, <1>5, NewMessage
<1>7. t.to = "LEADER" => t.from = "STANDBY"
  BY <1>1, <1>5, TransitionRequestsType, LeaderHop DEF NextHop
<1> QED
  BY <1>1, <1>6, <1>7 DEF S

LEMMA QueueStep ==
  ASSUME TypeOK, TypeOK', RevisionsOrdered, SessionsOwned, WorkersOK, QueueOK, StoreStep
  PROVE  QueueOK'
<1> USE DEF TypeOK, StoreTypeOK
<1>1. ASSUME queue' \subseteq queue, registered' = registered, queueRev' >= queueRev
      PROVE  QueueOK'
  BY SMTT(30), <1>1 DEF QueueOK, Messages
<1>2. CASE StoreKept \/ Expiry \/ InputWrite
  BY SMTT(30), <1>1, <1>2 DEF StoreKept, Expiry, DeleteLive, InputWrite, inputVars, outputVars
<1>3. CASE Publication
  <2>1. PICK r \in Requests : SnapshotOK(r.snap) /\ PlanOK(r.snap, r.next) /\ Commit(r)
    BY <1>3 DEF Publication
  <2>2. queueRev' = rev + 1 /\ registered' = registered /\ queueRev <= rev
    BY <2>1 DEF Commit, NewRev, RevisionsOrdered, inputVars
  <2>3. ASSUME NEW m \in queue', m \in queue
        PROVE  registered'[m.sess] = m.inst /\ m.id < queueRev' /\ (m.to = "LEADER" => m.from = "STANDBY")
    BY SMTT(30), <2>2, <2>3 DEF QueueOK, Messages
  <2>4. ASSUME NEW m \in queue', m \notin queue
        PROVE  registered'[m.sess] = m.inst /\ m.id < queueRev' /\ (m.to = "LEADER" => m.from = "STANDBY")
    <3>1. /\ m.sess = live[m.inst] /\ m.sess # 0 /\ m.id = r.snap.revision
          /\ m.to = "LEADER" => m.from = "STANDBY"
      BY <2>1, <2>4, PublishedMessages
    <3>2. m.inst \in Instances
      BY DEF Messages
    <3>3. r.snap.revision \in Nat /\ r.snap.revision <= rev
      BY <2>1 DEF SnapshotOK, Requests, Snapshots
    <3> QED
      BY SMTT(60), <2>2, <3>1, <3>2, <3>3 DEF SessionsOwned
  <2> QED
    BY <2>3, <2>4 DEF QueueOK
<1>4. CASE Registration
  <2>1. PICK q \in Procs : proc[q].pc = "registering" /\ PutRegistration(q)
    BY <1>4 DEF Registration
  <2>2. /\ queue' = queue /\ queueRev' = queueRev /\ registered[proc[q].session] = ABSENT
        /\ registered' = [registered EXCEPT ![proc[q].session] = ProcInstance[q]]
    BY <2>1 DEF PutRegistration, SessionsOwned, outputVars
  <2> QED
    BY <2>2, InstanceAssumption DEF QueueOK, Messages
<1>5. CASE Completion
  <2>1. PICK q \in Procs, p \in Partitions : CompleteApply(q, p)
    BY <1>5 DEF Completion
  <2>2. worker[q][p].seen = queue
    <3>1. worker[q][p].pc = "txn" /\ queueRev = worker[q][p].fence
      BY <2>1 DEF CompleteApply, CompletionFence
    <3> QED
      BY <3>1 DEF WorkersOK, WorkerOK
  <2> QED
    BY SMT, <1>1, <2>1, <2>2 DEF CompleteApply, WriteInput, NewRev, RevisionsOrdered
<1>6. CASE Withdrawal
  BY SMTT(60), <1>1, <1>6 DEF Withdrawal, WriteQueue, NewRev, RevisionsOrdered, inputVars
<1> QED
  BY <1>2, <1>3, <1>4, <1>5, <1>6 DEF StoreStep

\* Only publications add to the queue.
LEMMA QueueGrows ==
  ASSUME TypeOK, WorkersOK, StoreStep, ~(queue' \subseteq queue)
  PROVE  Publication
<1>1. ASSUME Completion
      PROVE  queue' \subseteq queue
  <2>1. PICK q \in Procs, p \in Partitions : CompleteApply(q, p)
    BY <1>1 DEF Completion
  <2>2. worker[q][p].seen = queue
    <3>1. worker[q][p].pc = "txn" /\ queueRev = worker[q][p].fence
      BY <2>1 DEF CompleteApply, CompletionFence
    <3> QED
      BY <3>1 DEF WorkersOK, WorkerOK
  <2> QED
    BY <2>1, <2>2 DEF CompleteApply
<1> QED
  BY <1>1
  DEF StoreStep, StoreKept, Registration, PutRegistration, Withdrawal, WriteQueue, Expiry,
      DeleteLive, InputWrite, outputVars

LEMMA OnePendingStep ==
  ASSUME TypeOK, WorkersOK, OnePendingPerReplica, StoreStep
  PROVE  OnePendingPerReplica'
<1>1. CASE queue' \subseteq queue
  BY <1>1 DEF OnePendingPerReplica
<1>2. CASE ~(queue' \subseteq queue)
  <2>1. PICK r \in Requests : SnapshotOK(r.snap) /\ PlanOK(r.snap, r.next) /\ Commit(r)
    BY <1>2, QueueGrows DEF Publication
  <2> DEFINE S == r.snap
  <2>2. S \in Snapshots
    BY <2>1, PublicationIsCurrent
  <2>3a. PICK mode \in Modes : \E d \in Dispatches(S, queue, mode) : queue' = NextPending(S, queue, mode, d)
    BY <2>1, PublicationIsCurrent
  <2>3. PICK d \in Dispatches(S, queue, mode) : queue' = NextPending(S, queue, mode, d)
    BY <2>3a
  <2> HIDE DEF S
  <2>4. queue \in SUBSET Messages
    BY DEF TypeOK, StoreTypeOK
  <2> SUFFICES ASSUME NEW m \in queue', NEW n \in queue', m.part = n.part, m.inst = n.inst
               PROVE  m = n
    BY DEF OnePendingPerReplica
  <2>5. CASE m \in RetainPending(S, queue, mode) \/ n \in RetainPending(S, queue, mode)
    <3>1. m \in RetainPending(S, queue, mode) /\ n \in RetainPending(S, queue, mode)
      BY SMTT(30), <2>2, <2>3, <2>4, <2>5, PlanMembers
    <3> QED
      BY <3>1 DEF RetainPending, OnePendingPerReplica
  <2>6. CASE m \notin RetainPending(S, queue, mode) /\ n \notin RetainPending(S, queue, mode)
    <3>1. PICK t \in SelectTransitions(S, queue, mode) :
            t.inst \in LiveInstances(S) /\ m = MessageFor(S, queue, t)
      BY SMTT(30), <2>2, <2>3, <2>4, <2>6, PlanMembers
    <3>2. PICK u \in SelectTransitions(S, queue, mode) :
            u.inst \in LiveInstances(S) /\ n = MessageFor(S, queue, u)
      BY SMTT(30), <2>2, <2>3, <2>4, <2>6, PlanMembers
    <3>3. t \in TransitionRequests(S) /\ u \in TransitionRequests(S)
      BY DEF SelectTransitions
    <3>4. t.part = u.part /\ t.inst = u.inst
      BY SMTT(30), <2>2, <2>4, <3>1, <3>2, <3>3, NewMessage
    <3>5. t = u
      BY SMT, <3>3, <3>4 DEF TransitionRequests
    <3> QED
      BY <3>1, <3>2, <3>5
  <2> QED
    BY <2>5, <2>6
<1> QED
  BY <1>1, <1>2

\* ExternalView depends on the configured instances and the active states.
LEMMA ViewDepends ==
  ASSUME NEW S, NEW T, S.configured = T.configured,
         \A i \in Instances : S.states[i] = T.states[i]
  PROVE  ExternalView(S) = ExternalView(T)
  BY DEF ExternalView, ActiveCurrentState

LEMMA ProcessedViewStep ==
  ASSUME TypeOK, RevisionsOrdered, ProcessedViewIsExact, StoreStep
  PROVE  ProcessedViewIsExact'
<1> USE DEF TypeOK, StoreTypeOK
<1>1. CASE StoreKept \/ Withdrawal
  <2>1. /\ processed' = processed /\ marker' = marker /\ deleted' = deleted /\ view' = view
        /\ live' = live /\ current' = current /\ configured' = configured
    BY <1>1 DEF StoreKept, Withdrawal, WriteQueue, inputVars, outputVars
  <2>2. ExternalView(Snapshot') = ExternalView(Snapshot)
    BY <2>1, ViewDepends DEF Snapshot, ActiveStates
  <2>3. ExternalView(Snapshot)' = ExternalView(Snapshot')
    BY DEF ExternalView, ActiveCurrentState
  <2> QED
    BY <2>1, <2>2, <2>3 DEF ProcessedViewIsExact
<1>2. CASE Registration \/ Completion \/ InputWrite
  <2>1. marker' = rev + 1 /\ processed' = processed
    BY <1>2 DEF Registration, PutRegistration, Completion, CompleteApply, InputWrite, WriteInput,
      NewRev, outputVars
  <2> QED
    BY SMTT(60), <2>1 DEF ProcessedViewIsExact, RevisionsOrdered
<1>3. CASE Expiry
  BY SMTT(30), <1>3 DEF Expiry, DeleteLive, NewRev, ProcessedViewIsExact, RevisionsOrdered
<1>4. CASE Publication
  <2>1. PICK r \in Requests : SnapshotOK(r.snap) /\ PlanOK(r.snap, r.next) /\ Commit(r)
    BY <1>4 DEF Publication
  <2>2. /\ view' = ExternalView(r.snap)
        /\ live' = live /\ current' = current /\ configured' = configured
    BY <2>1 DEF Commit, inputVars
  <2>3. r.snap.configured = configured /\ \A i \in Instances : r.snap.states[i] = ActiveStates(i)
    BY <2>1, PublicationIsCurrent
  <2>4. ExternalView(r.snap) = ExternalView(Snapshot')
    BY <2>2, <2>3, ViewDepends DEF Snapshot, ActiveStates
  <2>5. ExternalView(Snapshot)' = ExternalView(Snapshot')
    BY DEF ExternalView, ActiveCurrentState
  <2> QED
    BY <2>2, <2>4, <2>5 DEF ProcessedViewIsExact
<1> QED
  BY <1>1, <1>2, <1>3, <1>4 DEF StoreStep

==============================================================================
