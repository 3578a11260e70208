------------------------- MODULE ControlPlaneProofs -------------------------
(*****************************************************************************)
(* The safety of the control plane, for every value of its constants: the    *)
(* inductive invariant holds initially and is kept by every step, and the    *)
(* safety and action properties follow from it.                              *)
(*****************************************************************************)
EXTENDS ControlPlaneSteps, Oracle

\* A leaf goes to Zenon; one that needs arithmetic, or the theory of functions
\* and records, cites SMT.
USE ZenonT(60)
-----------------------------------------------------------------------------
(***************************************************************************)
(* One leader.                                                             *)
(***************************************************************************)
\* A claim that a publication leaves or makes is an old one, which the
\* selection stage counted, or the plan's, for which it found the slot free.
LEMMA PublishedClaim ==
  ASSUME NEW S \in Snapshots, S.live = live, S.configured = configured,
         \A j \in Instances : S.states[j] = ActiveStates(j),
         LeaderClaims, queue \in SUBSET Messages, live' = live, current' = current,
         NEW mode \in Modes, NEW d \in Dispatches(S, queue, mode),
         queue' = NextPending(S, queue, mode, d),
         NEW i \in Instances, NEW p \in Partitions, LeaderClaim(i, p)'
  PROVE  \/ LeaderClaim(i, p) /\ ~LeaderSlotFree(S, queue, mode, p)
         \/ /\ LeaderSlotFree(S, queue, mode, p)
            /\ i = BestLeader(S, p) /\ i \in configured
<1>1. CASE current[live[i]][p] = "LEADER"
  <2>0. live[i] # 0
    BY DEF LeaderClaim
  <2>1. LeaderClaim(i, p)
    BY <1>1, <2>0 DEF LeaderClaim
  <2>2. i \in configured /\ i \in LiveInstances(S)
    BY <2>0, <2>1 DEF LeaderClaims, LiveInstances
  <2>3. ActiveCurrentState(S, p, i) = "LEADER"
    BY <1>1, <2>2 DEF ActiveCurrentState, ActiveStates, LiveInstances
  <2>4. PlanningState(S, p, i) = "LEADER"
    BY <2>3 DEF PlanningState, ABSENT
  <2> QED
    BY <2>1, <2>2, <2>4 DEF LeaderSlotFree
<1>2. CASE current[live[i]][p] # "LEADER"
  <2>1. PICK m \in queue' : m.inst = i /\ m.part = p /\ m.sess = live[i] /\ m.to = "LEADER"
    BY <1>2 DEF LeaderClaim
  <2>2. live[i] # 0
    BY DEF LeaderClaim
  <2>3. CASE m \in RetainPending(S, queue, mode)
    <3>1. m \in queue /\ LeaderClaim(i, p)
      BY <2>1, <2>2, <2>3 DEF RetainPending, LeaderClaim
    <3>2. m \in OperationalPending(S, queue, mode)
      BY <2>1, <2>3 DEF OperationalPending, RetainPending
    <3> QED
      BY <2>1, <3>1, <3>2 DEF LeaderSlotFree
  <2>4. CASE m \notin RetainPending(S, queue, mode)
    <3>1. PICK t \in SelectTransitions(S, queue, mode) :
            t.inst \in LiveInstances(S) /\ m = MessageFor(S, queue, t)
      BY SMT, <2>4, PlanMembers
    <3>2. t \in TransitionRequests(S)
      BY DEF SelectTransitions
    <3>3. t.part = p /\ t.inst = i /\ t.to = "LEADER"
      BY SMTT(30), <2>1, <3>1, <3>2, NewMessage
    <3>4. LeaderSlotFree(S, queue, mode, p)
      BY <3>3 DEF SelectTransitions
    <3>5. PlanningState(S, p, i) = "STANDBY" /\ BestPossibleState(S, p, i) = "LEADER"
      BY SMTT(30), <3>2, <3>3, TransitionRequestsType, LeaderHop DEF NextHop
    <3>6. i = BestLeader(S, p)
      BY <3>5 DEF BestPossibleState
    <3>7. i \in configured
      BY <3>5 DEF PlanningState, ActiveCurrentState, InitialState, ABSENT
    <3> QED
      BY <3>4, <3>6, <3>7
  <2> QED
    BY <2>3, <2>4
<1> QED
  BY <1>1, <1>2

\* A publication keeps the claims.
LEMMA PublicationClaims ==
  ASSUME TypeOK, LeaderClaims, NEW r \in Requests, SnapshotOK(r.snap), PlanOK(r.snap, r.next),
         Commit(r)
  PROVE  LeaderClaims'
<1>1. /\ r.snap \in Snapshots
      /\ r.snap.live = live /\ r.snap.configured = configured
      /\ \A i \in Instances : r.snap.states[i] = ActiveStates(i)
      /\ \E mode \in Modes : \E d \in Dispatches(r.snap, queue, mode) :
           queue' = NextPending(r.snap, queue, mode, d)
  BY PublicationIsCurrent
<1>2. live' = live /\ current' = current /\ configured' = configured
  BY DEF Commit, inputVars
<1>3. queue \in SUBSET Messages
  BY DEF TypeOK, StoreTypeOK
<1>4. PICK mode \in Modes : \E d \in Dispatches(r.snap, queue, mode) :
        queue' = NextPending(r.snap, queue, mode, d)
  BY <1>1
<1>5. PICK d \in Dispatches(r.snap, queue, mode) : queue' = NextPending(r.snap, queue, mode, d)
  BY <1>4
<1>6. \A i \in Instances, p \in Partitions : LeaderClaim(i, p)' =>
        \/ LeaderClaim(i, p) /\ ~LeaderSlotFree(r.snap, queue, mode, p)
        \/ /\ LeaderSlotFree(r.snap, queue, mode, p)
           /\ i = BestLeader(r.snap, p) /\ i \in configured
  BY <1>1, <1>2, <1>3, <1>5, PublishedClaim
<1> QED
  BY <1>2, <1>6 DEF LeaderClaims

\* A new session claims nothing, and takes no claim away from another instance.
LEMMA RegistrationClaims ==
  ASSUME TypeOK, SessionsOwned, QueueOK, NEW q \in Procs, proc[q].pc = "registering",
         PutRegistration(q), NEW i \in Instances, NEW p \in Partitions, LeaderClaim(i, p)'
  PROVE  LeaderClaim(i, p)
<1> DEFINE n == ProcInstance[q]
           s == proc[q].session
<1>1. s \in 1..sequence /\ registered[s] = ABSENT /\ n \in Instances
  BY ProcAssumption DEF SessionsOwned
<1>2. /\ s \in Sessions /\ sequence \in Nat /\ live \in [Instances -> {0} \cup Sessions]
      /\ current \in [Sessions -> [Partitions -> {ABSENT} \cup ReplicaStates]]
  BY SMTT(30), <1>1, BoundAssumption DEF TypeOK, StoreTypeOK, Sessions
<1>3. /\ queue' = queue
      /\ live' = [live EXCEPT ![n] = s]
      /\ current' = [current EXCEPT ![s] =
           [k \in Partitions |-> IF k \in proc[q].carried THEN InitialState ELSE ABSENT]]
  BY DEF PutRegistration, outputVars
<1> HIDE DEF n, s
<1>4. i # n
  <2> SUFFICES ASSUME i = n PROVE FALSE
    OBVIOUS
  <2>1. live'[i] = s
    BY <1>1, <1>2, <1>3
  <2>2. current'[s][p] # "LEADER"
    BY <1>2, <1>3 DEF InitialState, ABSENT
  <2>3. \A m \in queue : m.inst \in Instances
    BY DEF TypeOK, StoreTypeOK, Messages
  <2>4. \A m \in queue : m.sess # s
    BY <1>1, <2>3, InstanceAssumption DEF QueueOK
  <2> QED
    BY <1>3, <2>1, <2>2, <2>4 DEF LeaderClaim
<1>5. live'[i] = live[i] /\ live[i] # 0
  BY <1>2, <1>3, <1>4 DEF LeaderClaim
<1>6. live[i] # s
  BY <1>1, <1>5, InstanceAssumption DEF SessionsOwned
<1>7. current'[live[i]] = current[live[i]]
  BY SMTT(30), <1>2, <1>3, <1>6
<1> QED
  BY <1>3, <1>5, <1>7 DEF LeaderClaim

\* A completion turns the claim of its message into that of the new state.
LEMMA CompletionClaims ==
  ASSUME TypeOK, SessionsOwned, WorkersOK, NEW q \in Procs, NEW p \in Partitions,
         CompleteApply(q, p), NEW i \in Instances, NEW k \in Partitions, LeaderClaim(i, k)'
  PROVE  LeaderClaim(i, k)
<1> DEFINE n == ProcInstance[q]
           s == proc[q].session
           w == worker[q][p]
<1>1. /\ n \in Instances /\ w.pc = "txn" /\ live[n] = s /\ w.fence = queueRev
      /\ queue' = w.seen \ {w.msg} /\ live' = live
      /\ current' = [current EXCEPT ![s][p] = IF w.result = "DROPPED" THEN ABSENT ELSE w.result]
  BY ProcAssumption DEF CompleteApply, CompletionFence
<1>2. /\ w.msg \in queue /\ w.seen = queue /\ w.msg.inst = n /\ w.msg.part = p
      /\ w.msg.sess = s /\ w.result \in {w.msg.to, "ERROR"}
  BY SMTT(30), <1>1 DEF WorkersOK, WorkerOK
<1>3. /\ live \in [Instances -> {0} \cup Sessions]
      /\ current \in [Sessions -> [Partitions -> {ABSENT} \cup ReplicaStates]]
  BY DEF TypeOK, StoreTypeOK
<1> HIDE DEF n, s, w
<1>4. live[i] # 0
  BY <1>1 DEF LeaderClaim
<1>5. CASE \E m \in queue' : m.inst = i /\ m.part = k /\ m.sess = live[i] /\ m.to = "LEADER"
  BY <1>1, <1>2, <1>4, <1>5 DEF LeaderClaim
<1>6. CASE current'[live[i]][k] = "LEADER"
  <2>1. CASE live[i] = s /\ k = p
    <3>1. i = n
      BY SMTT(30), <1>1, <1>4, <2>1 DEF SessionsOwned
    <3>2. w.result = "LEADER"
      BY <1>1, <1>3, <1>4, <1>6, <2>1 DEF ABSENT
    <3> QED
      BY <1>2, <1>4, <2>1, <3>1, <3>2 DEF LeaderClaim
  <2>2. CASE live[i] # s \/ k # p
    <3>1. current'[live[i]][k] = current[live[i]][k]
      BY <1>1, <1>3, <1>4, <2>2
    <3> QED
      BY <1>4, <1>6, <3>1 DEF LeaderClaim
  <2> QED
    BY <2>1, <2>2
<1> QED
  BY <1>1, <1>5, <1>6 DEF LeaderClaim

LEMMA LeaderClaimsStep ==
  ASSUME TypeOK, SessionsOwned, QueueOK, WorkersOK, LeaderClaims, StoreStep
  PROVE  LeaderClaims'
<1>1. ASSUME \A i \in Instances, p \in Partitions : LeaderClaim(i, p)' => LeaderClaim(i, p),
             \A i \in Instances : i \in configured /\ live[i] # 0 => i \in configured'
      PROVE  LeaderClaims'
  BY SMTT(30), <1>1 DEF LeaderClaims, LeaderClaim
<1>2. CASE StoreKept \/ Withdrawal \/ Expiry \/ InputWrite
  <2>1. \A i \in Instances : live'[i] \in {0, live[i]}
    BY <1>2 DEF StoreKept, Withdrawal, WriteQueue, Expiry, DeleteLive, InputWrite, inputVars, outputVars,
                TypeOK, StoreTypeOK
  <2>2. current' = current /\ queue' \subseteq queue
    BY <1>2 DEF StoreKept, Withdrawal, WriteQueue, Expiry, DeleteLive, InputWrite, inputVars, outputVars
  <2>3. \A i \in Instances : i \in configured /\ live[i] # 0 => i \in configured'
    BY <1>2 DEF StoreKept, Withdrawal, WriteQueue, Expiry, DeleteLive, InputWrite, inputVars, outputVars
  <2> QED
    BY <1>1, <2>1, <2>2, <2>3 DEF LeaderClaim
<1>3. CASE Publication
  BY <1>3, PublicationClaims DEF Publication
<1>4. CASE Registration
  <2>1. PICK q \in Procs : proc[q].pc = "registering" /\ PutRegistration(q)
    BY <1>4 DEF Registration
  <2>2. configured' = configured
    BY <2>1 DEF PutRegistration
  <2>3. \A i \in Instances, p \in Partitions : LeaderClaim(i, p)' => LeaderClaim(i, p)
    BY <2>1, RegistrationClaims
  <2> QED
    BY <1>1, <2>2, <2>3
<1>5. CASE Completion
  <2>1. PICK q \in Procs, p \in Partitions : CompleteApply(q, p)
    BY <1>5 DEF Completion
  <2>2. configured' = configured
    BY <2>1 DEF CompleteApply
  <2>3. \A i \in Instances, k \in Partitions : LeaderClaim(i, k)' => LeaderClaim(i, k)
    BY <2>1, CompletionClaims
  <2> QED
    BY <1>1, <2>2, <2>3
<1> QED
  BY <1>2, <1>3, <1>4, <1>5 DEF StoreStep

\* The active key holds the newest lease; a new lease is granted only with it.
LEMMA TermsStep ==
  ASSUME TypeOK, TermsOrdered, [Next]_vars
  PROVE  TermsOrdered'
<1> USE DEF TermsOrdered
<1>1. CASE UNCHANGED <<active, leases>>
  BY <1>1
<1>2. CASE active' = NoOne
  BY <1>2
<1>3. CASE \E c \in Controllers : Acquire(c)
  BY SMTT(60), <1>3 DEF Acquire
<1>4. ASSUME NEW c \in Controllers, ControllerStep(c), ~Acquire(c)
      PROVE  UNCHANGED <<active, leases>> \/ active' = NoOne
  BY <1>4
  DEF ControllerStep, RestartController, TakeSnapshot, CheckInputs, Rejected, PostPublish,
      PlanError, Publish, Commit, RecordLeaseExpiry, ctlVars, storeVars
<1>5. ASSUME NEW c \in Controllers, ControllerFault(c)
      PROVE  UNCHANGED <<active, leases>> \/ active' = NoOne
  BY <1>5 DEF ControllerFault, TransientError, LeaveTerm, Relinquish, storeVars
<1>6. ASSUME NEW r \in delayed, DelayedPublish(r)
      PROVE  UNCHANGED <<active, leases>>
  BY <1>6 DEF DelayedPublish, Commit
<1>7. ASSUME NEW q \in Procs, ParticipantStep(q) \/ ParticipantFault(q), UNCHANGED ctlVars
      PROVE  UNCHANGED <<active, leases>>
  BY <1>7
  DEF ParticipantStep, ParticipantFault, ProcessStep, SeeNoSession, Allocate, Register,
      RegisterUnanswered, PutRegistration, NoticeExpired, PresumeExpired, Drained, Stop, Fail,
      Revoke, DeleteLive, Restart, ObserveQueue, WorkerStep, ReadCurrent, Claim, Handle,
      HandlerError, HandlerReturns, RetryComplete, CompleteRead, CompleteApply, CompleteRefused,
      LostCleanup, Cleanup, WriteQueue, WorkerExit, storeVars, ctlVars
<1>8. ASSUME NEW i \in Instances, ExpireOrphan(i) \/ ExpireSession(i), UNCHANGED ctlVars
      PROVE  UNCHANGED <<active, leases>>
  BY <1>8 DEF ExpireOrphan, ExpireSession, DeleteLive, ctlVars
<1>9. ASSUME ExpireController
      PROVE  active' = NoOne
  BY <1>9 DEF ExpireController
<1>10. ASSUME AdminStep, UNCHANGED ctlVars
       PROVE  UNCHANGED <<active, leases>>
  BY <1>10 DEF AdminStep, PutResource, PutInstance, RemoveInstance, ctlVars
<1> QED
  BY <1>1, <1>2, <1>3, <1>4, <1>5, <1>6, <1>7, <1>8, <1>9, <1>10
  DEF Next, SystemStep, FaultStep, vars, storeVars, ctlVars

\* The namespace an administrator has just set up, with no process connected,
\* satisfies the inductive invariant.
THEOREM InvariantInit == Init => Invariant
<1> SUFFICES ASSUME Init PROVE Invariant
  OBVIOUS
<1>1. TypeOK
  BY TypeInit
<1>2. RevisionsOrdered
  BY SMT DEF Init, StoreInit, RevisionsOrdered
<1>3. SessionsOwned
  BY DEF Init, StoreInit, ParticipantInit, SessionsOwned, Down
<1>4. QueueOK /\ OnePendingPerReplica
  BY DEF Init, StoreInit, QueueOK, OnePendingPerReplica
<1>5. ControllersOK
  <2>1. /\ Standby.outer = NoSnapshot /\ Standby.snap = NoSnapshot
        /\ Standby.pc = "standby"
    BY DEF Standby
  <2>2. ControllerOK(Standby)
    BY <1>1, <1>2, <2>1, StandbyOK
  <2> QED
    BY <2>2 DEF Init, ControllerInit, ControllersOK
<1>6. WorkersOK /\ ImagesOK
  <2>1. \A q \in Procs, p \in Partitions : worker[q][p].pc = "idle"
    BY DEF Init, ParticipantInit, NoWorkers, Idle
  <2>2. WorkersOK
    BY <2>1 DEF WorkersOK, WorkerOK
  <2> QED
    BY <2>2 DEF Init, ParticipantInit, ImagesOK
<1>7. LeaderClaims
  BY DEF Init, StoreInit, LeaderClaims, LeaderClaim
<1>8. TermsOrdered
  BY DEF Init, StoreInit, TermsOrdered
<1>9. ProcessedViewIsExact
  BY SMT DEF Init, StoreInit, ProcessedViewIsExact
<1> QED
  BY <1>2, <1>3, <1>4, <1>5, <1>6, <1>7, <1>8, <1>9 DEF Invariant

\* No step of a controller, a participant, a worker, the administrator or a
\* fault breaks the inductive invariant.
THEOREM InvariantStep == TypeOK /\ Invariant /\ [Next]_vars => Invariant'
<1> SUFFICES ASSUME TypeOK, Invariant, [Next]_vars PROVE Invariant'
  OBVIOUS
<1> USE DEF Invariant
<1>1. TypeOK'
  BY TypeStep
<1>2. StoreStep
  BY StoreSteps
<1>3. QueueForward
  BY <1>2, StoreForward
<1>4. RevisionsOrdered'
  BY <1>2, RevisionsStep
<1>5. SessionsOwned'
  BY <1>1, SessionsStep
<1>6. QueueOK'
  BY <1>1, <1>2, QueueStep
<1>7. ControllersOK'
  BY <1>1, ControllersStep
<1>8. WorkersOK'
  BY <1>1, <1>3, WorkersStep
<1>9. ImagesOK'
  BY ImagesStep
<1>10. LeaderClaims'
  BY <1>2, LeaderClaimsStep
<1>11. TermsOrdered'
  BY TermsStep
<1>12. OnePendingPerReplica'
  BY <1>2, OnePendingStep
<1>13. ProcessedViewIsExact'
  BY <1>2, ProcessedViewStep
<1> QED
  BY <1>4, <1>5, <1>6, <1>7, <1>8, <1>9, <1>10, <1>11, <1>12, <1>13

\* The inductive invariant holds of every reachable state.
THEOREM InvariantCorrect == Spec => []Invariant
  BY TypeCorrect, InvariantInit, InvariantStep, PTL DEF Spec

\* Two live sessions never both report LEADER for a partition.
THEOREM OneLeader == Spec => []AtMostOneLeader
<1>1. TypeOK /\ Invariant => AtMostOneLeader
  BY DEF TypeOK, StoreTypeOK, Invariant, LeaderClaims, LeaderClaim, AtMostOneLeader,
    ActiveStates, NoReplicas, ABSENT
<1> QED
  BY <1>1, TypeCorrect, InvariantCorrect, PTL

\* The queue never holds two messages for a replica, so the duplicate check of
\* select_transitions never fires.
THEOREM OneMessage == Spec => []OnePendingPerReplica
<1>1. Invariant => OnePendingPerReplica
  BY DEF Invariant
<1> QED
  BY <1>1, InvariantCorrect, PTL

\* A view published as processed up to the marker is the store's own.
THEOREM ExactView == Spec => []ProcessedViewIsExact
<1>1. Invariant => ProcessedViewIsExact
  BY DEF Invariant
<1> QED
  BY <1>1, InvariantCorrect, PTL

\* CurrentState changes only under the session that is live when it changes:
\* a completion by its fence, a registration by its own transaction.
THEOREM LiveSessionsReport == Spec => OnlyLiveSessionsReport
<1> DEFINE A == \A s \in Sessions : current'[s] # current[s] =>
                  \E i \in Instances : registered'[s] = i /\ live'[i] = s
<1>1. ASSUME TypeOK, Invariant, [Next]_vars
      PROVE  [A]_vars
  <2> USE DEF TypeOK, StoreTypeOK
  <2>1. StoreStep
    BY <1>1, StoreSteps DEF Invariant
  <2>2. CASE Registration
    BY SMTT(60), <1>1, <2>2, ProcAssumption DEF Registration, PutRegistration, Invariant, SessionsOwned
  <2>3. CASE Completion
    <3>1. PICK q \in Procs, p \in Partitions : CompleteApply(q, p)
      BY <2>3 DEF Completion
    <3>2. /\ live[ProcInstance[q]] = proc[q].session
          /\ live' = live /\ registered' = registered
          /\ \A s \in Sessions : s # proc[q].session => current'[s] = current[s]
      BY <1>1, <3>1 DEF CompleteApply, CompletionFence
    <3>3. ProcInstance[q] \in Instances
      BY ProcAssumption
    <3>4. \A s \in Sessions : s # 0
      BY SMTT(60), BoundAssumption DEF Sessions
    <3> QED
      BY SMTT(60), <1>1, <3>2, <3>3, <3>4 DEF Invariant, SessionsOwned
  <2>4. CASE StoreKept \/ Publication \/ Withdrawal \/ Expiry \/ InputWrite
    BY <2>4 DEF StoreKept, Publication, Commit, Withdrawal, Expiry, DeleteLive, InputWrite, inputVars
  <2> QED
    BY <2>1, <2>2, <2>3, <2>4 DEF StoreStep
<1> QED
  BY <1>1, TypeCorrect, InvariantCorrect, PTL DEF Spec, OnlyLiveSessionsReport

\* A message enters the queue under a new id and for the live session only.
THEOREM FreshMessages == Spec => OnlyFreshMessages
<1> DEFINE A == \A m \in queue' \ queue : m.id >= queueRev /\ live[m.inst] = m.sess
<1>1. ASSUME TypeOK, Invariant, [Next]_vars
      PROVE  [A]_vars
  <2>1. StoreStep
    BY <1>1, StoreSteps DEF Invariant
  <2> SUFFICES ASSUME NEW m \in queue' \ queue
               PROVE  m.id >= queueRev /\ live[m.inst] = m.sess
    OBVIOUS
  <2>2. Publication
    BY <1>1, <2>1, QueueGrows DEF Invariant
  <2>3. PICK r \in Requests : SnapshotOK(r.snap) /\ PlanOK(r.snap, r.next) /\ Commit(r)
    BY <2>2 DEF Publication
  <2>4. m.sess = live[m.inst] /\ m.id = r.snap.revision
    BY <1>1, <2>3, PublishedMessages
  <2>5. r.snap.queueRev = queueRev /\ r.snap.queueRev <= r.snap.revision
    BY <2>3 DEF Commit, InputsUnchanged, SnapshotOK
  <2>6. r.snap.revision \in Nat /\ r.snap.queueRev \in Nat
    BY DEF Requests, Snapshots
  <2> QED
    BY <2>4, <2>5, <2>6
<1> QED
  BY <1>1, TypeCorrect, InvariantCorrect, PTL DEF Spec, OnlyFreshMessages

\* A term that has a successor publishes nothing more, late transactions
\* included.
THEOREM NewestTermPublishes == Spec => OnlyNewestTermPublishes
<1> DEFINE A == view' # view \/ processed' # processed => publisher' = leases
<1>1. ASSUME TypeOK, Invariant, [Next]_vars
      PROVE  [A]_vars
  <2>1. StoreStep
    BY <1>1, StoreSteps DEF Invariant
  <2>2. CASE Publication
    <3>1. PICK r \in Requests : Commit(r)
      BY <2>2 DEF Publication
    <3>2. /\ active = [controller |-> r.controller, lease |-> r.lease]
          /\ publisher' = r.lease
      BY <3>1 DEF Commit, HoldsAuthority
    <3>3. r.controller # "none"
      BY ControllerAssumption DEF Requests
    <3>4. active # NoOne /\ active.lease = r.lease
      BY <3>2, <3>3 DEF NoOne
    <3> QED
      BY <1>1, <3>2, <3>4 DEF Invariant, TermsOrdered
  <2>3. CASE ~Publication
    BY <2>1, <2>3
    DEF StoreStep, StoreKept, Registration, PutRegistration, Completion, CompleteApply,
        Withdrawal, WriteQueue, Expiry, DeleteLive, InputWrite, outputVars
  <2> QED
    BY <2>2, <2>3
<1> QED
  BY <1>1, TypeCorrect, InvariantCorrect, PTL DEF Spec, OnlyNewestTermPublishes

-----------------------------------------------------------------------------
(***************************************************************************)
(* What observers and applications conclude.  The view is a copy that is   *)
(* older than the keys it is read with, so the argument is about what a    *)
(* view stays true of after its publication.                               *)
(***************************************************************************)
\* One leader in the view, however old it is; if the marker has not moved since the
\* publication, everybody in the view is configured; and if no lease has ended since
\* either, every queued transition is for a live session.
ObservationInv ==
  /\ \A p \in Partitions : \A i, j \in Instances :
       Published(p, i) = "LEADER" /\ Published(p, j) = "LEADER" => i = j
  /\ processed = marker =>
       \A p \in Partitions : Replicas(p) \subseteq configured
  /\ processed = marker /\ deleted < marker => \A m \in queue : live[m.inst] = m.sess
  /\ deleted # marker

LEMMA ObservationInit == Init => ObservationInv
<1> SUFFICES ASSUME Init PROVE ObservationInv
  OBVIOUS
<1>1. view = NoView /\ processed = 0 /\ marker = 1 /\ deleted = 0 /\ queue = {}
  BY DEF Init, StoreInit
<1>2. \A p \in Partitions, i \in Instances : Published(p, i) = ABSENT
  BY <1>1 DEF Published
<1> QED
  BY SMT, <1>1, <1>2 DEF ObservationInv, ABSENT

\* What an observer reads in a view that has just been published.
LEMMA PublishedView ==
  ASSUME TypeOK, NEW r \in Requests, SnapshotOK(r.snap), PlanOK(r.snap, r.next), Commit(r),
         NEW p \in Partitions, NEW i \in Instances
  PROVE  Published(p, i)' = IF i \in configured THEN ActiveStates(i)[p] ELSE ABSENT
<1>1. /\ view' = ExternalView(r.snap) /\ r.snap \in Snapshots
      /\ r.snap.configured = configured /\ r.snap.states[i] = ActiveStates(i)
  BY PublicationIsCurrent DEF Commit
<1>2. view' \in Views
  BY <1>1, ExternalViewType
<1>3. view'[p][i] = IF i \in configured THEN ActiveStates(i)[p] ELSE ABSENT
  BY <1>1 DEF ExternalView, ActiveCurrentState
<1> QED
  BY <1>2, <1>3, ViewAssumption DEF Published

\* Every message that a publication leaves in the queue is for a live session.
LEMMA PublishedQueueIsLive ==
  ASSUME TypeOK, NEW r \in Requests, SnapshotOK(r.snap), PlanOK(r.snap, r.next), Commit(r),
         NEW m \in queue'
  PROVE  live[m.inst] = m.sess
<1>1. r.snap.live = live
  BY PublicationIsCurrent
<1>2. PICK mode \in Modes : \E d \in Dispatches(r.snap, queue, mode) :
        queue' = NextPending(r.snap, queue, mode, d)
  BY PublicationIsCurrent
<1>3. CASE m \in queue
  BY SMTT(30), <1>1, <1>2, <1>3 DEF NextPending, RetainPending, MessageFor
<1>4. CASE m \notin queue
  BY <1>4, PublishedMessages
<1> QED
  BY <1>3, <1>4

LEMMA ObservationStep ==
  ASSUME TypeOK, RevisionsOrdered, LeaderClaims, ObservationInv, StoreStep
  PROVE  ObservationInv'
<1> USE DEF TypeOK, StoreTypeOK
<1>1. CASE StoreKept \/ Withdrawal
  <2>1. /\ processed' = processed /\ marker' = marker /\ deleted' = deleted /\ view' = view
        /\ live' = live /\ configured' = configured /\ queue' \subseteq queue
    BY <1>1 DEF StoreKept, Withdrawal, WriteQueue, inputVars, outputVars
  <2>2. \A p \in Partitions, i \in Instances : Published(p, i)' = Published(p, i)
    BY <2>1 DEF Published
  <2>3. \A p \in Partitions : Replicas(p)' = Replicas(p)
    BY <2>2 DEF Replicas
  <2> QED
    BY SMTT(30), <2>1, <2>2, <2>3 DEF ObservationInv
<1>2. CASE Registration \/ Completion \/ InputWrite
  <2>1. marker' = rev + 1 /\ processed' = processed /\ view' = view /\ deleted' = deleted
    BY <1>2 DEF Registration, PutRegistration, Completion, CompleteApply, InputWrite, WriteInput,
      NewRev, outputVars
  <2>2. \A p \in Partitions, i \in Instances : Published(p, i)' = Published(p, i)
    BY <2>1 DEF Published
  <2>3. processed' # marker' /\ deleted' # marker'
    BY SMTT(60), <2>1 DEF RevisionsOrdered
  <2> QED
    BY SMTT(30), <2>2, <2>3 DEF ObservationInv
<1>3. CASE Expiry
  <2>1. /\ processed' = processed /\ marker' = marker /\ deleted' = rev + 1 /\ view' = view
        /\ configured' = configured
    BY <1>3 DEF Expiry, DeleteLive, NewRev, inputVars, outputVars
  <2>2. \A p \in Partitions, i \in Instances : Published(p, i)' = Published(p, i)
    BY <2>1 DEF Published
  <2>3. \A p \in Partitions : Replicas(p)' = Replicas(p)
    BY <2>2 DEF Replicas
  <2>4. ~(deleted' < marker') /\ deleted' # marker'
    BY SMTT(60), <2>1 DEF RevisionsOrdered
  <2> QED
    BY SMTT(30), <2>1, <2>2, <2>3, <2>4 DEF ObservationInv
<1>4. CASE Publication
  <2>1. PICK r \in Requests : SnapshotOK(r.snap) /\ PlanOK(r.snap, r.next) /\ Commit(r)
    BY <1>4 DEF Publication
  <2>2. live' = live /\ configured' = configured /\ marker' = marker /\ deleted' = deleted
    BY <2>1 DEF Commit, inputVars
  <2>3. \A p \in Partitions, i \in Instances :
          Published(p, i)' = IF i \in configured THEN ActiveStates(i)[p] ELSE ABSENT
    BY <2>1, PublishedView
  <2>4. \A p \in Partitions : Replicas(p)' \subseteq configured'
    BY <2>2, <2>3 DEF Replicas
  <2>5. \A p \in Partitions : \A i, j \in Instances :
          Published(p, i)' = "LEADER" /\ Published(p, j)' = "LEADER" => i = j
    <3>1. AtMostOneLeader
      BY DEF LeaderClaims, LeaderClaim, AtMostOneLeader, ActiveStates, NoReplicas, ABSENT
    <3> QED
      BY SMTT(30), <2>3, <3>1 DEF AtMostOneLeader, ABSENT
  <2>6. \A m \in queue' : live'[m.inst] = m.sess
    BY <2>1, <2>2, PublishedQueueIsLive
  <2> QED
    BY <2>2, <2>4, <2>5, <2>6 DEF ObservationInv
<1> QED
  BY <1>1, <1>2, <1>3, <1>4 DEF StoreStep

\* What a routing snapshot answers: the configured instances that the view has in the
\* state.
LEMMA RoutingAnswers ==
  ASSUME NEW p \in Partitions, NEW s \in ReplicaStates
  PROVE  InstancesFor(Routing, p, s) = {i \in Instances : Published(p, i) = s /\ i \in configured}
<1>1. s # ABSENT
  BY DEF ReplicaStates, ABSENT
<1>2. Routing.external = ExternalViewModel /\ Routing.configured = configured
  BY DEF Routing, FromExternalView, ConfiguredInstances
<1>3. CASE Replicas(p) = {}
  <2>1. p \notin DOMAIN ExternalViewModel
    BY <1>3 DEF ExternalViewModel
  <2> QED
    BY <1>1, <1>2, <1>3, <2>1 DEF InstancesFor, Replicas
<1>4. CASE Replicas(p) # {}
  <2>1. /\ p \in DOMAIN ExternalViewModel
        /\ ExternalViewModel[p] = [i \in Replicas(p) |-> Published(p, i)]
    BY <1>4 DEF ExternalViewModel
  <2>2. DOMAIN ExternalViewModel[p] = Replicas(p)
    BY <2>1
  <2>3. \A i \in Replicas(p) : ExternalViewModel[p][i] = Published(p, i)
    BY <2>1
  <2> QED
    BY <1>1, <1>2, <2>1, <2>2, <2>3 DEF InstancesFor, Replicas
<1> QED
  BY <1>3, <1>4


\* The typed routing may name exactly the configured instances that are in the view.
LEMMA TryRoutingAnswers ==
  ASSUME TypeOK, NEW p \in Partitions, NEW s \in ReplicaStates
  PROVE  InstancesFor(TryRouting, p, s) = InstancesFor(Routing, p, s)
<1> DEFINE named == UNION {r.instances : r \in RoutingResults(Routing)}
           E == ExternalViewModel
<1>1. /\ Routing = [external |-> E, configured |-> configured]
      /\ TryRouting = [external |-> E, configured |-> named]
  BY DEF Routing, TryRouting, FromExternalView, ConfiguredInstances
<1>2. named \subseteq configured
  <2> SUFFICES ASSUME NEW r \in RoutingResults(Routing), NEW i \in r.instances
               PROVE  i \in configured
    OBVIOUS
  <2>1. PICK q, t : r = [partition |-> q, state |-> t, instances |-> InstancesFor(Routing, q, t)]
    BY DEF RoutingResults
  <2>2. i \in InstancesFor(Routing, q, t)
    BY <2>1
  <2> QED
    BY <1>1, <2>2 DEF InstancesFor
<1>3. ASSUME NEW i \in InstancesFor(Routing, p, s)
      PROVE  i \in named
  <2>1. p \in DOMAIN E /\ i \in DOMAIN E[p] /\ E[p][i] = s
    BY <1>1, <1>3 DEF InstancesFor
  <2>2. PICK r : r = [partition |-> p, state |-> s, instances |-> InstancesFor(Routing, p, s)]
    OBVIOUS
  <2>3. r \in RoutingResults(Routing)
    BY SMT, <1>1, <2>1, <2>2 DEF RoutingResults
  <2>4. i \in r.instances
    BY <2>2, <1>3
  <2> QED
    BY <2>3, <2>4
<1> HIDE DEF named, E
<1>4. CASE p \notin DOMAIN E
  BY <1>1, <1>4 DEF InstancesFor
<1>5. CASE p \in DOMAIN E
  BY <1>1, <1>2, <1>3, <1>5 DEF InstancesFor
<1> QED
  BY <1>4, <1>5

\* A controller that has caught up leaves nobody in the view whom routing passes over.
LEMMA RoutingAsExpected ==
  ASSUME TypeOK, \A p \in Partitions : Replicas(p) \subseteq configured
  PROVE  ~RoutingDiffers
<1> DEFINE states(p) == {Published(p, i) : i \in Replicas(p)}
           answer(p, s) == [partition |-> p, state |-> s, instances |-> {i \in Replicas(p) : Published(p, i) = s}]
           shown == {q \in Partitions : Replicas(q) # {}}
<1>1. DOMAIN ExternalViewModel = shown
  BY DEF ExternalViewModel
<1>2. ASSUME NEW p \in shown
      PROVE  ExternalViewModel[p] = [i \in Replicas(p) |-> Published(p, i)]
  BY DEF ExternalViewModel
<1>3. Routing.external = ExternalViewModel /\ Routing.configured = configured
  BY DEF Routing, FromExternalView, ConfiguredInstances
<1>4. ASSUME NEW p \in shown
      PROVE  /\ {Routing.external[p][i] : i \in DOMAIN Routing.external[p]} = states(p)
             /\ \A s : InstancesFor(Routing, p, s) = {i \in Replicas(p) : Published(p, i) = s}
  <2>1. Routing.external[p] = [i \in Replicas(p) |-> Published(p, i)]
    BY <1>2, <1>3
  <2>2. DOMAIN Routing.external[p] = Replicas(p) /\ \A i \in Replicas(p) : Routing.external[p][i] = Published(p, i)
    BY <2>1
  <2>3. {Routing.external[p][i] : i \in DOMAIN Routing.external[p]} = states(p)
    BY <2>2
  <2>4. p \in DOMAIN Routing.external
    BY <1>1, <1>3
  <2> QED
    BY <1>3, <2>2, <2>3, <2>4 DEF InstancesFor
<1>5. RoutingResults(Routing) = UNION {{answer(p, s) : s \in states(p)} : p \in shown}
  BY SMTT(30), <1>1, <1>3, <1>4 DEF RoutingResults
<1>6. ExpectedRouting = UNION {{answer(p, s) : s \in states(p)} : p \in Partitions}
  BY DEF ExpectedRouting
<1>7. \A p \in Partitions : p \notin shown => states(p) = {}
  OBVIOUS
<1> HIDE DEF answer, states
<1>8. UNION {{answer(p, s) : s \in states(p)} : p \in shown}
        = UNION {{answer(p, s) : s \in states(p)} : p \in Partitions}
  BY SMT, <1>7
<1> QED
  BY <1>5, <1>6, <1>8 DEF RoutingDiffers

INSTANCE FiniteSetTheorems

\* A set without two different members has at most one.
LEMMA AtMostOneMember ==
  ASSUME NEW S, \A x, y \in S : x = y
  PROVE  Cardinality(S) <= 1 /\ ~(Cardinality(S) > 1)
<1>1. CASE S = {}
  BY SMTT(30), <1>1, FS_EmptySet
<1>2. CASE S # {}
  <2>1. PICK x : x \in S
    BY <1>2
  <2>2. S = {x}
    BY <2>1
  <2>3. Cardinality({x}) = 1
    BY FS_Singleton
  <2> QED
    BY SMTT(30), <2>2, <2>3
<1> QED
  BY <1>1, <1>2

LEMMA OracleSound ==
  ASSUME TypeOK, RevisionsOrdered, LeaderClaims, ObservationInv
  PROVE  OracleIsSilent
<1> USE DEF TypeOK, StoreTypeOK
<1> DEFINE leading(p) == {i \in DOMAIN ActiveCurrentStates : ActiveCurrentStates[i].states[p] = "LEADER"}
           routed(p) == {i \in Replicas(p) : Published(p, i) = "LEADER" /\ live[i] # 0}
<1>1. ~(Cardinality(ActiveControllers) > 1)
  <2>1. \A x, y \in ActiveControllers : x = y
    BY DEF ActiveControllers
  <2> QED
    BY <2>1, AtMostOneMember
<1>2. \A i \in DOMAIN ActiveCurrentStates :
        i \in Instances /\ live[i] # 0 /\ ActiveCurrentStates[i] = [session |-> live[i], states |-> current[live[i]]]
  BY DEF ActiveCurrentStates
<1>3. \A p \in Partitions : ~(Cardinality(leading(p)) > 1)
  <2> SUFFICES ASSUME NEW p \in Partitions PROVE ~(Cardinality(leading(p)) > 1)
    OBVIOUS
  <2>1. \A i \in leading(p) : i \in Instances /\ LeaderClaim(i, p)
    BY SMTT(30), <1>2 DEF LeaderClaim
  <2>2. \A i, j \in leading(p) : i = j
    BY <2>1 DEF LeaderClaims
  <2> HIDE DEF leading
  <2> QED
    BY <2>2, AtMostOneMember
<1>4. CaughtUp /\ ~(deleted > marker) => \A m \in queue : live[m.inst] = m.sess
  BY SMTT(30) DEF CaughtUp, RevisionsOrdered, ObservationInv
<1>5. \A p \in Partitions : ~(Cardinality(routed(p)) > 1)
  <2> SUFFICES ASSUME NEW p \in Partitions PROVE ~(Cardinality(routed(p)) > 1)
    OBVIOUS
  <2>1. \A i, j \in routed(p) : i = j
    BY DEF Replicas, ObservationInv
  <2> HIDE DEF routed
  <2> QED
    BY <2>1, AtMostOneMember
<1>6. ASSUME NEW n \in CheckSafety
      PROVE  n = "pending_transition_session" /\ CaughtUp /\ \E m \in queue : live[m.inst] # m.sess
  <2>1. n \in {"single_authoritative_controller", "current_state_session",
               "current_state_live_instance", "current_state_single_leader",
               "pending_transition_session", "single_leader"}
    BY DEF CheckSafety
  <2>2. n # "single_authoritative_controller"
    BY <1>1 DEF CheckSafety
  <2>3. n # "current_state_session"
    <3>1. \A i \in DOMAIN ActiveCurrentStates : live[i] \in {0, ActiveCurrentStates[i].session}
      BY SMT, <1>2
    <3> QED
      BY <3>1 DEF CheckSafety
  <2>4. n # "current_state_live_instance"
    BY <1>2 DEF CheckSafety
  <2>5. n # "current_state_single_leader"
    BY <1>3 DEF CheckSafety
  <2>6. n # "single_leader"
    BY <1>5 DEF CheckSafety
  <2>7. n = "pending_transition_session"
    BY <2>1, <2>2, <2>3, <2>4, <2>5, <2>6
  <2> QED
    BY <2>7 DEF CheckSafety
<1> QED
  BY <1>4, <1>6 DEF OracleIsSilent

LEMMA RoutingSound ==
  ASSUME TypeOK, RevisionsOrdered, LeaderClaims, ProcessedViewIsExact, ObservationInv
  PROVE  RoutingIsSound
<1> USE DEF TypeOK, StoreTypeOK
<1>1. CaughtUp => processed = marker
  BY SMTT(30) DEF CaughtUp, RevisionsOrdered
<1>2. "LEADER" \in ReplicaStates /\ "STANDBY" \in ReplicaStates
  BY DEF ReplicaStates
<1>3. ASSUME NEW p \in Partitions
      PROVE  Leader(Routing, p).ok
  <2>1. \A i, j \in InstancesFor(Routing, p, "LEADER") : i = j
    BY SMTT(30), <1>2, RoutingAnswers DEF ObservationInv
  <2> QED
    BY <2>1, AtMostOneMember DEF Leader
<1>4. ASSUME CaughtUp, deleted < marker, NEW p \in Partitions, NEW i \in Instances
      PROVE  Published(p, i) = IF i \in configured THEN ActiveStates(i)[p] ELSE ABSENT
  <2>1. view = ExternalView(Snapshot)
    BY <1>1, <1>4 DEF ProcessedViewIsExact
  <2>2. view # NoView
    BY <2>1, SnapshotType, ExternalViewType, ViewAssumption
  <2> QED
    BY SMT, <2>1, <2>2 DEF Published, ExternalView, ActiveCurrentState, Snapshot
<1>5. ASSUME CaughtUp, deleted < marker, NEW p \in Partitions
      PROVE  Leader(Routing, p).instances = {i \in Instances : ActiveStates(i)[p] = "LEADER"}
  <2>1. \A i \in Instances : ActiveStates(i)[p] = "LEADER" => i \in configured
    BY DEF LeaderClaims, LeaderClaim, ActiveStates, NoReplicas, ABSENT
  <2>2. Leader(Routing, p).instances = InstancesFor(Routing, p, "LEADER")
    BY DEF Leader
  <2> QED
    BY SMTT(30), <1>2, <1>4, <1>5, <2>1, <2>2, RoutingAnswers DEF ABSENT
<1>6. ASSUME CaughtUp, deleted < marker, NEW p \in Partitions, NEW i \in ReplicasOf(Routing, p)
      PROVE  live[i] # 0
  <2>1. i \in Instances /\ Published(p, i) \in {"LEADER", "STANDBY"}
    BY SMTT(30), <1>2, <1>6, RoutingAnswers DEF ReplicasOf
  <2>2. ActiveStates(i)[p] \in {"LEADER", "STANDBY"}
    BY <1>4, <1>6, <2>1 DEF ABSENT
  <2> QED
    BY <2>1, <2>2 DEF ActiveStates, NoReplicas, ABSENT
<1>7. CaughtUp => ~RoutingDiffers
  BY <1>1, RoutingAsExpected DEF ObservationInv
<1> QED
  BY <1>3, <1>5, <1>6, <1>7, TryRoutingAnswers DEF RoutingIsSound

\* The chaos driver's safety check never accuses a correct cluster but for transitions of
\* a session whose end is not recorded yet (check_safety), and applications never
\* route to two leaders (RoutingSnapshot::leader), however old the view is that they read.
THEOREM SoundObservations == Spec => []ObservationIsSound
<1>1. TypeOK /\ Invariant /\ ObservationInv /\ [Next]_vars => ObservationInv'
  BY StoreSteps, ObservationStep DEF Invariant
<1>2. TypeOK /\ Invariant /\ ObservationInv => ObservationIsSound
  BY OracleSound, RoutingSound DEF Invariant, ObservationIsSound
<1> QED
  BY <1>1, <1>2, ObservationInit, TypeCorrect, InvariantCorrect, PTL DEF Spec

==============================================================================
