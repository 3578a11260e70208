---------------------------- MODULE ControlPlane ----------------------------
(***************************************************************************)
(* Controllers, participants and an administrator over one etcd namespace. *)
(***************************************************************************)
EXTENDS ControllerRuntime, ParticipantRuntime

CONSTANTS
  MaxFaults,    \* bound on the faults of one behaviour
  MaxChanges    \* bound on the administrator's writes

ASSUME EnvironmentAssumption == MaxFaults \in Nat /\ MaxChanges \in Nat

VARIABLES
  faults,       \* faults so far
  changes       \* administrator's writes so far

vars == <<storeVars, ctlVars, partVars, faults, changes>>

-----------------------------------------------------------------------------
\* Admin::put_resource replaces the resource record; an equal one is not written.
PutResource(r) ==
  /\ r # placement
  /\ WriteInput
  /\ placement' = r
  /\ UNCHANGED <<live, sequence, registered, current, configured, outputVars, active, deleted>>

PutInstance(i) ==
  /\ i \notin configured
  /\ WriteInput
  /\ configured' = configured \cup {i}
  /\ UNCHANGED <<live, sequence, registered, current, placement, outputVars, active, deleted>>

\* An instance is removed only while it has no live key.
RemoveInstance(i) ==
  /\ i \in configured
  /\ live[i] = 0
  /\ WriteInput
  /\ configured' = configured \ {i}
  /\ UNCHANGED <<live, sequence, registered, current, placement, outputVars, active, deleted>>

AdminStep ==
  \/ \E r \in Placements : PutResource(r)
  \/ \E i \in Instances : PutInstance(i) \/ RemoveInstance(i)

-----------------------------------------------------------------------------
Init ==
  /\ StoreInit /\ ControllerInit /\ ParticipantInit
  /\ faults = 0 /\ changes = 0

\* What the code does by itself.
SystemStep ==
  \/ \E c \in Controllers : ControllerStep(c) /\ UNCHANGED partVars
  \/ \E r \in delayed : DelayedPublish(r) /\ UNCHANGED partVars
  \/ \E q \in Procs : ParticipantStep(q) /\ UNCHANGED ctlVars
  \/ \E i \in Instances : ExpireOrphan(i) /\ UNCHANGED ctlVars
  \/ OrphanTerm /\ ExpireController /\ UNCHANGED partVars

\* Lost answers, expired leases, crashes, shutdowns and failing callbacks.
FaultStep ==
  \/ \E c \in Controllers : ControllerFault(c) /\ UNCHANGED partVars
  \/ ~OrphanTerm /\ ExpireController /\ UNCHANGED partVars
  \/ \E q \in Procs : ParticipantFault(q) /\ UNCHANGED ctlVars
  \/ \E i \in Instances : ExpireSession(i) /\ UNCHANGED ctlVars

Next ==
  \/ SystemStep /\ UNCHANGED <<faults, changes>>
  \/ FaultStep /\ faults < MaxFaults /\ faults' = faults + 1 /\ UNCHANGED changes
  \/ AdminStep /\ changes < MaxChanges /\ changes' = changes + 1
       /\ UNCHANGED <<ctlVars, partVars, faults>>

Spec == Init /\ [][Next]_vars

\* Every loop and task is polled, every timer fires, watches deliver, and etcd
\* drops a lease that nobody renews.
Fairness ==
  /\ \A c \in Controllers :
       WF_vars(ControllerStep(c) /\ UNCHANGED <<partVars, faults, changes>>)
  /\ \A q \in Procs :
       /\ WF_vars(ProcessStep(q) /\ UNCHANGED <<ctlVars, faults, changes>>)
       /\ WF_vars(ObserveQueue(q) /\ UNCHANGED <<ctlVars, faults, changes>>)
       /\ \A p \in Partitions :
            WF_vars(WorkerStep(q, p) /\ UNCHANGED <<ctlVars, faults, changes>>)
  /\ \A i \in Instances : WF_vars(ExpireOrphan(i) /\ UNCHANGED <<ctlVars, faults, changes>>)
  /\ WF_vars(OrphanTerm /\ ExpireController /\ UNCHANGED <<partVars, faults, changes>>)

FairSpec == Spec /\ Fairness

-----------------------------------------------------------------------------
TypeOK ==
  /\ StoreTypeOK /\ ControllerTypeOK /\ ParticipantTypeOK
  /\ faults \in Nat /\ changes \in Nat

\* At most one live session reports LEADER for a partition: the promise that
\* the selection stage, the two fences and the session carry-over keep together.
AtMostOneLeader ==
  \A p \in Partitions : \A i, j \in Instances :
    ActiveStates(i)[p] = "LEADER" /\ ActiveStates(j)[p] = "LEADER" => i = j

\* A replica never has two messages in the queue, whatever controllers and
\* workers rewrite it; select_transitions fails the controller if it does.
OnePendingPerReplica ==
  \A m, n \in queue : m.part = n.part /\ m.inst = n.inst => m = n

\* An observer that finds the processed revision at the input marker, with no
\* lease expiry since, has the exact ExternalView of the configured live
\* instances before it.
ProcessedViewIsExact ==
  processed = marker /\ deleted < marker => view = ExternalView(Snapshot)

\* The controller survives every state the administrator and the participants
\* can bring about: planning never fails.
NoFatalReconcile == \A c \in Controllers : ctl[c].pc # "failed"

\* CurrentState of a session changes only while that session is the live one:
\* work of an old session never becomes authoritative later.
OnlyLiveSessionsReport ==
  [][\A s \in Sessions : current'[s] # current[s] =>
       \E i \in Instances : registered'[s] = i /\ live'[i] = s]_vars

\* Once a successor's lease has been granted, no earlier term publishes, not
\* even with a transaction that was under way when the term ended.
OnlyNewestTermPublishes ==
  [][view' # view \/ processed' # processed => publisher' = leases]_vars

\* What enters the queue is new, for the session that is live at that moment:
\* a completed or withdrawn message is never put back by a stale rewrite.
OnlyFreshMessages ==
  [][\A m \in queue' \ queue : m.id >= queueRev /\ live[m.inst] = m.sess]_vars

-----------------------------------------------------------------------------
(***************************************************************************)
(* The inductive invariant.                                                *)
(***************************************************************************)

RevisionsOrdered ==
  /\ 1 <= marker /\ marker <= rev /\ queueRev <= rev /\ deleted <= rev
  /\ processed <= marker
  /\ queueRev = 0 => queue = {}

\* A session belongs to one instance and is registered at most once.
SessionsOwned ==
  /\ \A i \in Instances : live[i] # 0 => registered[live[i]] = i
  /\ \A s \in Sessions : s > sequence => registered[s] = ABSENT
  /\ \A q \in Procs :
       /\ proc[q].pc = "registering" =>
            /\ proc[q].session \in 1..sequence
            /\ registered[proc[q].session] = ABSENT
            /\ \A r \in Procs \ {q} : proc[r].session # proc[q].session
       /\ proc[q].pc \in {"running", "draining", "stopping"} =>
            proc[q].session # 0 /\ registered[proc[q].session] = ProcInstance[q]
       /\ proc[q].pc \in {"down", "waiting", "allocating"} => proc[q].session = 0

\* Messages name registered sessions, older than the queue's revision, and lead
\* to LEADER only from STANDBY.
QueueOK ==
  \A m \in queue :
    /\ registered[m.sess] = m.inst
    /\ m.id < queueRev
    /\ m.to = "LEADER" => m.from = "STANDBY"

\* A snapshot describes the store of its revisions.
SnapshotOK(S) ==
  /\ S.queueRev <= S.revision /\ S.revision <= rev /\ S.queueRev <= queueRev /\ S.auth <= marker
  /\ S.queueRev = queueRev => S.queue = queue
  /\ \A i \in Instances : S.live[i] = 0 => S.states[i] = NoReplicas
  /\ S.auth = marker =>
       /\ S.configured = configured
       /\ \A i \in Instances : live[i] # 0 =>
            S.live[i] = live[i] /\ S.states[i] = current[live[i]]

\* What is about to be published was planned from the queue it replaces.
PlanOK(S, next) ==
  S.queueRev = queueRev =>
    \E mode \in Modes : \E d \in Dispatches(S, queue, mode) :
      next = NextPending(S, queue, mode, d)

ControllerOK(v) ==
  /\ SnapshotOK(v.outer) /\ SnapshotOK(v.snap)
  /\ v.pc \in {"planning", "publishing", "published"} =>
       \A S \in {v.outer, v.snap} : S.queueRev = queueRev => v.pending = queue
  /\ v.pc = "publishing" => PlanOK(v.snap, v.next)

ControllersOK ==
  /\ \A c \in Controllers : ControllerOK(ctl[c])
  /\ \A r \in delayed : SnapshotOK(r.snap) /\ PlanOK(r.snap, r.next)

\* A worker w of process q, in state v, that is past its first check holds a
\* message of its own session, and what it read at its fence is the queue as
\* long as the fence holds.
WorkerOK(v, q, p, w) ==
  /\ w.pc \notin {"idle", "done"} =>
       /\ v.pc \in {"running", "draining", "stopping"}
       /\ w.msg \in Messages /\ w.msg.part = p /\ w.msg.inst = ProcInstance[q]
  /\ w.pc \in {"claim", "handle", "complete", "txn", "lost"} => w.msg.sess = v.session
  /\ w.pc \in {"complete", "txn"} => w.result \in {w.msg.to, "ERROR"}
  /\ w.pc = "txn" =>
       w.msg \in w.seen /\ w.fence <= queueRev /\ (w.fence = queueRev => w.seen = queue)

WorkersOK ==
  \A q \in Procs, p \in Partitions : WorkerOK(proc[q], q, p, worker[q][p])

\* A process observes its own instance's messages.
ImagesOK ==
  \A q \in Procs : \A m \in image[q] : m.inst = ProcInstance[q]

\* A live instance that leads a partition, or has been told to.
LeaderClaim(i, p) ==
  /\ live[i] # 0
  /\ \/ current[live[i]][p] = "LEADER"
     \/ \E m \in queue : m.inst = i /\ m.part = p /\ m.sess = live[i] /\ m.to = "LEADER"

LeaderClaims ==
  \A p \in Partitions, i \in Instances : LeaderClaim(i, p) =>
    /\ i \in configured
    /\ \A j \in Instances : LeaderClaim(j, p) => i = j

TermsOrdered == active # NoOne => active.lease = leases

Invariant ==
  /\ RevisionsOrdered /\ SessionsOwned /\ QueueOK /\ ControllersOK
  /\ WorkersOK /\ ImagesOK /\ LeaderClaims /\ TermsOrdered
  /\ OnePendingPerReplica /\ ProcessedViewIsExact

=============================================================================
