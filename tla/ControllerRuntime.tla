-------------------------- MODULE ControllerRuntime --------------------------
(***************************************************************************)
(* The controller process: a term as the active controller, and the        *)
(* reconcile loop of that term.  A reconciliation reads a snapshot, plans  *)
(* outside any transaction, re-reads the authoritative revision, publishes *)
(* under the commit fence and re-reads once more.  Between any two of      *)
(* these steps the store may change.  A publication whose answer is lost   *)
(* may still reach etcd later (`delayed`).                                 *)
(***************************************************************************)
EXTENDS Store, FiniteSets

CONSTANTS
  MaxLease,      \* bound on the terms that are granted
  MaxDelayed     \* bound on the publications in flight without a waiting controller

ASSUME LeaseAssumption == MaxLease \in Nat /\ MaxDelayed \in Nat

VARIABLES
  ctl,        \* the state of each controller process
  leases,     \* election leases granted so far
  delayed,    \* publications whose answer was lost
  publisher   \* history: the lease of the last publication

ctlVars == <<ctl, leases, delayed, publisher>>

Snapshots ==
  [ revision : Nat, auth : Nat, live : [Instances -> {0} \cup Sessions],
    states : [Instances -> [Partitions -> ReplicaStates \cup {ABSENT}]],
    configured : SUBSET Instances, placement : Placements,
    queue : SUBSET Messages, queueRev : Nat, view : Views \cup {NoView}, processed : Nat ]

Requests == [controller : Controllers, lease : Nat, snap : Snapshots, next : SUBSET Messages]

ControllerStates ==
  [ pc : {"standby", "idle", "planning", "publishing", "published", "failed"},
    lease : Nat, mode : Modes, known : [Instances -> {0} \cup Sessions], since : Nat,
    outer : Snapshots, snap : Snapshots,
    pending : SUBSET Messages, next : SUBSET Messages ]

ControllerTypeOK ==
  /\ ctl \in [Controllers -> ControllerStates]
  /\ leases \in Nat /\ publisher \in Nat
  /\ delayed \subseteq Requests

\* No snapshot has been read.
NoSnapshot ==
  [ revision |-> 0, auth |-> 0,
    live |-> [i \in Instances |-> 0], states |-> [i \in Instances |-> NoReplicas],
    configured |-> {}, placement |-> InitPlacement,
    queue |-> {}, queueRev |-> 0, view |-> NoView, processed |-> 0 ]

Standby ==
  [ pc |-> "standby", lease |-> 0, mode |-> "Startup", known |-> [i \in Instances |-> 0],
    since |-> 0, outer |-> NoSnapshot, snap |-> NoSnapshot, pending |-> {}, next |-> {} ]

ControllerInit ==
  /\ ctl = [c \in Controllers |-> Standby]
  /\ leases = 0 /\ delayed = {} /\ publisher = 0

Term(c) == [controller |-> c, lease |-> ctl[c].lease]

Leading(c) == ctl[c].pc \in {"idle", "planning", "publishing", "published"}

-----------------------------------------------------------------------------
\* A candidate wins the election (see module Election for how).
Acquire(c) ==
  /\ ctl[c].pc = "standby"
  /\ active = NoOne
  /\ leases < MaxLease
  /\ leases' = leases + 1
  /\ active' = [controller |-> c, lease |-> leases']
  /\ ctl' = [ctl EXCEPT ![c] = [Standby EXCEPT !.pc = "idle", !.lease = leases']]
  /\ UNCHANGED <<rev, marker, live, inputVars, outputVars, deleted, delayed, publisher>>

\* mode_for: a known session of a live instance has been replaced.
SessionReplaced(known, S) ==
  \E i \in Instances : S.live[i] # 0 /\ known[i] # 0 /\ known[i] # S.live[i]

ModeFor(c, S) ==
  CASE ctl[c].mode = "Startup"            -> "Startup"
    [] SessionReplaced(ctl[c].known, S)   -> "SessionReplacement"
    [] OTHER                              -> "Normal"

\* The startup snapshot, the 250 ms tick, a watch event or a compacted watch:
\* every reconciliation starts from a fresh snapshot and the queue in it.  The
\* namespace watch of the term starts at its first snapshot (`since`).
TakeSnapshot(c) ==
  /\ ctl[c].pc = "idle"
  /\ ctl' = [ctl EXCEPT ![c] = [@ EXCEPT
               !.pc = "planning", !.outer = Snapshot, !.snap = Snapshot,
               !.pending = queue, !.mode = ModeFor(c, Snapshot),
               !.since = IF ctl[c].mode = "Startup" THEN rev ELSE ctl[c].since]]
  /\ UNCHANGED <<storeVars, leases, delayed, publisher>>

\* A planning error leaves the loop for good: the process gives up its key, if
\* it can, and returns the error.
PlanError(c) ==
  /\ ctl[c].pc = "planning"
  /\ PlanFails(ctl[c].snap, ctl[c].pending, ctl[c].mode)
  /\ active' \in {active, IF active = Term(c) THEN NoOne ELSE active}
  /\ ctl' = [ctl EXCEPT ![c] = [Standby EXCEPT !.pc = "failed"]]
  /\ UNCHANGED <<rev, marker, live, inputVars, outputVars, deleted, leases, delayed, publisher>>

\* remember_sessions, and back to waiting for the next event.
EndReconcile(c) ==
  ctl' = [ctl EXCEPT ![c] = [@ EXCEPT
            !.pc = "idle", !.mode = "Normal",
            !.known = [i \in Instances |->
                         IF ctl[c].outer.live[i] # 0 THEN ctl[c].outer.live[i] ELSE ctl[c].known[i]],
            !.outer = NoSnapshot, !.snap = NoSnapshot, !.pending = {}, !.next = {}]]

\* Mutant: the new snapshot is planned against the old queue.
ReplanOldQueue(c) ==
  ctl' = [ctl EXCEPT ![c] = [@ EXCEPT !.pc = "planning", !.snap = Snapshot, !.next = {}]]

\* Plan again from the current namespace.
Replan(c) ==
  ctl' = [ctl EXCEPT ![c] = [@ EXCEPT
            !.pc = "planning", !.snap = Snapshot, !.pending = queue, !.next = {}]]

\* The plan is made, the authoritative revision is read again: a newer one
\* restarts planning, matching outputs end it, anything else is sent.
CheckInputs(c) ==
  LET S == ctl[c].snap
      plan(d) == NextPending(S, ctl[c].pending, ctl[c].mode, d)
  IN /\ ctl[c].pc = "planning"
     /\ ~PlanFails(S, ctl[c].pending, ctl[c].mode)
     /\ \/ marker > S.auth /\ Replan(c)
        \/ /\ marker <= S.auth
           /\ \E d \in Dispatches(S, ctl[c].pending, ctl[c].mode) :
                IF OutputsMatch(S, plan(d))
                THEN EndReconcile(c)
                ELSE ctl' = [ctl EXCEPT ![c] = [@ EXCEPT !.pc = "publishing", !.next = plan(d)]]
     /\ UNCHANGED <<storeVars, leases, delayed, publisher>>

-----------------------------------------------------------------------------
Request(c) ==
  [controller |-> c, lease |-> ctl[c].lease, snap |-> ctl[c].snap, next |-> ctl[c].next]

\* Mutant: the key is compared by the controller's name, not its lease.
HoldsName(r) == active.controller = r.controller

HoldsAuthority(r) == active = [controller |-> r.controller, lease |-> r.lease]

InputsUnchanged(r) ==
  /\ processed <= r.snap.auth
  /\ queueRev = r.snap.queueRev
  /\ marker = r.snap.auth
  /\ \A i \in Instances : r.snap.live[i] # 0 => live[i] = r.snap.live[i]

\* The publication transaction: authority, processed revision, queue revision,
\* authoritative-input marker and live sessions are its compares.
Commit(r) ==
  /\ HoldsAuthority(r)
  /\ InputsUnchanged(r)
  /\ CanWrite /\ rev' = NewRev
  /\ view' = ExternalView(r.snap)
  /\ queue' = r.next /\ queueRev' = NewRev
  /\ processed' = r.snap.auth
  /\ publisher' = r.lease
  /\ UNCHANGED <<marker, live, inputVars, active, deleted, leases>>

Publish(c) ==
  /\ ctl[c].pc = "publishing"
  /\ Commit(Request(c))
  /\ ctl' = [ctl EXCEPT ![c].pc = "published"]
  /\ UNCHANGED delayed

\* StaleController ends the term; StaleRevision plans again.
Rejected(c) ==
  /\ ctl[c].pc = "publishing"
  /\ \/ /\ ~HoldsAuthority(Request(c))
        /\ ctl' = [ctl EXCEPT ![c] = Standby]
     \/ /\ ~InputsUnchanged(Request(c))
        /\ Replan(c)
  /\ UNCHANGED <<storeVars, leases, delayed, publisher>>

\* The second re-read, after a publication.
PostPublish(c) ==
  /\ ctl[c].pc = "published"
  /\ IF marker > ctl[c].snap.auth THEN Replan(c) ELSE EndReconcile(c)
  /\ UNCHANGED <<storeVars, leases, delayed, publisher>>

\* What becomes of a publication nobody waits for any more.
LeaveInFlight(c) ==
  \/ delayed' = delayed
  \/ /\ ctl[c].pc = "publishing"
     /\ Cardinality(delayed) < MaxDelayed
     /\ delayed' = delayed \cup {Request(c)}

\* A transient etcd error: after a pause the reconciliation runs again from
\* the snapshot it was started with.  Only the startup loop keeps the queue
\* that a later re-read may have brought.
TransientError(c) ==
  /\ ctl[c].pc \in {"planning", "publishing", "published"}
  /\ LeaveInFlight(c)
  /\ ctl' = [ctl EXCEPT ![c] = [@ EXCEPT
               !.pc = "planning", !.snap = ctl[c].outer, !.next = {},
               !.pending = IF ctl[c].mode = "Startup" THEN ctl[c].pending ELSE ctl[c].outer.queue]]
  /\ UNCHANGED <<storeVars, leases, publisher>>

\* A publication without a waiting controller reaches etcd.
DelayedPublish(r) ==
  /\ r \in delayed
  /\ delayed' = delayed \ {r}
  /\ Commit(r)
  /\ UNCHANGED ctl

\* The watch reports a lease-backed deletion newer than the marker: the active
\* controller advances the marker, any other finds its term over.
RecordLeaseExpiry(c) ==
  /\ ctl[c].pc = "idle" /\ ctl[c].mode # "Startup"
  /\ deleted > ctl[c].since /\ deleted > marker
  /\ \/ /\ active = Term(c)
        /\ WriteInput
        /\ UNCHANGED ctl
     \/ /\ active # Term(c)
        /\ ctl' = [ctl EXCEPT ![c] = Standby]
        /\ UNCHANGED <<rev, marker>>
  /\ UNCHANGED <<live, inputVars, outputVars, active, deleted, leases, delayed, publisher>>

-----------------------------------------------------------------------------
\* The term ends without giving up the key: the keepalive task reports the
\* lease lost, or the process crashes and is started again.
LeaveTerm(c) ==
  /\ Leading(c)
  /\ LeaveInFlight(c)
  /\ ctl' = [ctl EXCEPT ![c] = Standby]
  /\ UNCHANGED <<storeVars, leases, publisher>>

\* Graceful shutdown deletes the key if the lease still owns it.
Relinquish(c) ==
  /\ ctl[c].pc = "idle"
  /\ active' = IF active = Term(c) THEN NoOne ELSE active
  /\ ctl' = [ctl EXCEPT ![c] = Standby]
  /\ UNCHANGED <<rev, marker, live, inputVars, outputVars, deleted, leases, delayed, publisher>>

\* A failed process is started again by its supervisor.
RestartController(c) ==
  /\ ctl[c].pc = "failed"
  /\ ctl' = [ctl EXCEPT ![c] = Standby]
  /\ UNCHANGED <<storeVars, leases, delayed, publisher>>

\* etcd expires the active controller's lease: nobody keeps it alive, or the
\* keepalives do not arrive in time.
OrphanTerm == \A c \in Controllers : ~(Leading(c) /\ active = Term(c))

ExpireController ==
  /\ active # NoOne
  /\ active' = NoOne
  /\ UNCHANGED <<rev, marker, live, inputVars, outputVars, deleted, ctlVars>>

ControllerStep(c) ==
  \/ Acquire(c) \/ RestartController(c)
  \/ TakeSnapshot(c) \/ CheckInputs(c) \/ PlanError(c)
  \/ Publish(c) \/ Rejected(c) \/ PostPublish(c)
  \/ RecordLeaseExpiry(c)

ControllerFault(c) == TransientError(c) \/ LeaveTerm(c) \/ Relinquish(c)

=============================================================================
