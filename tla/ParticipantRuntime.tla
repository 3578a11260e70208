------------------------- MODULE ParticipantRuntime -------------------------
(***************************************************************************)
(* The participant process: registration under a lease, the queue image it *)
(* last observed, and one worker per partition in flight.  A worker reads  *)
(* CurrentState, claims the message, runs the application's handler and    *)
(* completes under the live-session and queue-revision fence.  Two         *)
(* processes may run for one instance (a restart that overlaps its         *)
(* predecessor).                                                           *)
(***************************************************************************)
EXTENDS Store

CONSTANTS
  Procs,          \* participant processes
  ProcInstance    \* the instance each one runs as

ASSUME ProcAssumption == ProcInstance \in [Procs -> Instances]

VARIABLES
  proc,    \* run_until: where each process is, its session, its registration
  image,   \* its messages in the queue image each process last observed
  worker   \* the in-flight worker of each process and partition

partVars == <<proc, image, worker>>

NoMessage ==
  [id |-> 0, part |-> ABSENT, inst |-> ABSENT, sess |-> 0, from |-> ABSENT, to |-> ABSENT]

\* `fence` is the queue revision the worker goes by, `seen` the queue it read
\* there, `result` the state its handler ended in.
WorkerStates ==
  [ pc : {"idle", "read", "claim", "handle", "complete", "txn", "lost", "cleanup", "done"},
    msg : Messages \cup {NoMessage}, fence : Nat, seen : SUBSET Messages,
    result : TargetStates \cup {"ERROR", ABSENT} ]

ProcStates ==
  [ pc : {"down", "waiting", "allocating", "registering", "running", "draining", "stopping"},
    session : {0} \cup Sessions, carried : SUBSET Partitions ]

ParticipantTypeOK ==
  /\ proc \in [Procs -> ProcStates]
  /\ image \in [Procs -> SUBSET Messages]
  /\ worker \in [Procs -> [Partitions -> WorkerStates]]

Idle == [pc |-> "idle", msg |-> NoMessage, fence |-> 0, seen |-> {}, result |-> ABSENT]

Done == [Idle EXCEPT !.pc = "done"]

NoWorkers == [p \in Partitions |-> Idle]

Down == [pc |-> "down", session |-> 0, carried |-> {}]

ParticipantInit ==
  /\ proc = [q \in Procs |-> [Down EXCEPT !.pc = "waiting"]]
  /\ image = [q \in Procs |-> {}]
  /\ worker = [q \in Procs |-> NoWorkers]

-----------------------------------------------------------------------------
\* Mutant: the attempt does not wait for the previous session to end.
SeeAnything(q) ==
  /\ proc[q].pc = "waiting"
  /\ proc' = [proc EXCEPT ![q].pc = "allocating"]
  /\ UNCHANGED <<storeVars, image, worker>>

\* register_session_until starts an attempt when it sees no live session.
SeeNoSession(q) ==
  /\ proc[q].pc = "waiting"
  /\ live[ProcInstance[q]] = 0
  /\ proc' = [proc EXCEPT ![q].pc = "allocating"]
  /\ UNCHANGED <<storeVars, image, worker>>

\* latest_session: the newest session marker of the instance, 0 if none.
LatestSession(i) ==
  LET own == {s \in Sessions : registered[s] = i}
  IN IF own = {} THEN 0 ELSE CHOOSE s \in own : \A t \in own : t <= s

\* The session id comes from the shared sequence; the partitions of the
\* previous session are carried.
Allocate(q) ==
  LET previous == LatestSession(ProcInstance[q])
  IN /\ proc[q].pc = "allocating"
     /\ sequence < MaxSession
     /\ sequence' = sequence + 1
     /\ proc' = [proc EXCEPT ![q] =
          [ pc |-> "registering", session |-> sequence',
            carried |-> IF previous = 0 THEN {}
                        ELSE {p \in Partitions : current[previous][p] # ABSENT} ]]
     /\ UNCHANGED <<rev, marker, live, registered, current, configured, placement,
                    outputVars, active, deleted, image, worker>>

\* The registration transaction: live key, session marker, carried partitions
\* in the initial state, input marker.
PutRegistration(q) ==
  LET i == ProcInstance[q]
      s == proc[q].session
  IN /\ live[i] = 0
     /\ WriteInput
     /\ live' = [live EXCEPT ![i] = s]
     /\ registered' = [registered EXCEPT ![s] = i]
     /\ current' = [current EXCEPT ![s] =
          [p \in Partitions |-> IF p \in proc[q].carried THEN InitialState ELSE ABSENT]]
     /\ UNCHANGED <<sequence, configured, placement, outputVars, active, deleted>>

Register(q) ==
  /\ proc[q].pc = "registering"
  /\ \/ /\ PutRegistration(q)
        /\ proc' = [proc EXCEPT ![q].pc = "running", ![q].carried = {}]
     \/ \* RegistrationLost
        /\ live[ProcInstance[q]] # 0
        /\ proc' = [proc EXCEPT ![q] = [Down EXCEPT !.pc = "waiting"]]
        /\ UNCHANGED storeVars
  /\ UNCHANGED <<image, worker>>

\* The transaction commits and its answer is lost: the session is live until
\* its lease expires, and no process owns it.
RegisterUnanswered(q) ==
  /\ proc[q].pc = "registering"
  /\ PutRegistration(q)
  /\ proc' = [proc EXCEPT ![q] = [Down EXCEPT !.pc = "waiting"]]
  /\ UNCHANGED <<image, worker>>

-----------------------------------------------------------------------------
\* process_messages: every queued message of this instance whose partition has
\* no worker gets one.
Spawn(workers, messages) ==
  [p \in Partitions |->
     LET here == {m \in messages : m.part = p}
     IN IF workers[p].pc = "idle" /\ here # {}
        THEN [Idle EXCEPT !.pc = "read", !.msg = CHOOSE m \in here : TRUE]
        ELSE workers[p]]

\* The first read of the queue, a watch event or a replacement for a compacted
\* watch.  An image that is superseded before it is processed only ever adds
\* workers whose message a later one no longer has; WorkerExit has those.
ObserveQueue(q) ==
  LET mine == {m \in queue : m.inst = ProcInstance[q]}
  IN /\ proc[q].pc = "running"
     /\ image[q] # mine
     /\ image' = [image EXCEPT ![q] = mine]
     /\ worker' = [worker EXCEPT ![q] = Spawn(@, mine)]
     /\ UNCHANGED <<storeVars, proc>>

\* Mutant: the key is released and the latest image is not looked at again.
WorkerExitOnly(q, p) ==
  /\ worker[q][p].pc = "done"
  /\ worker' = [worker EXCEPT ![q][p] = Idle]
  /\ UNCHANGED <<storeVars, proc, image>>

\* join_next: the key is released, and a running process looks at its latest
\* image again; a draining one does not.
WorkerExit(q, p) ==
  LET released == [worker[q] EXCEPT ![p] = Idle]
  IN /\ worker[q][p].pc = "done"
     /\ worker' = [worker EXCEPT ![q] =
          IF proc[q].pc = "running" THEN Spawn(released, image[q]) ELSE released]
     /\ UNCHANGED <<storeVars, proc, image>>

SetWorker(q, p, w) == worker' = [worker EXCEPT ![q][p] = w]

\* The message is still what this replica has to do.
Applicable(q, p) ==
  LET m == worker[q][p].msg
      stored == current[proc[q].session][p]
      state == IF stored = ABSENT THEN InitialState ELSE stored
  IN m.sess = proc[q].session /\ state = m.from /\ NextStateToward(state, m.to) = m.to

ReadCurrent(q, p) ==
  /\ worker[q][p].pc = "read"
  /\ SetWorker(q, p, [worker[q][p] EXCEPT !.pc = IF Applicable(q, p) THEN "claim" ELSE "cleanup"])
  /\ UNCHANGED <<storeVars, proc, image>>

\* claim_pending_transition: the message is queued and the session is live at
\* one revision of the queue, or the callback does not run.
Claim(q, p) ==
  LET w == worker[q][p]
  IN /\ w.pc = "claim"
     /\ SetWorker(q, p,
          CASE w.msg \notin queue                              -> Done
            [] live[ProcInstance[q]] # proc[q].session         -> [w EXCEPT !.pc = "cleanup"]
            [] OTHER                      -> [w EXCEPT !.pc = "handle", !.fence = queueRev])
     /\ UNCHANGED <<storeVars, proc, image>>

\* The read of complete_pending_transition_with_fence.  A queue revision other
\* than the fence is StaleRevision: the worker takes the new one as its fence.
CompleteRead(q, p, w) ==
  /\ SetWorker(q, p,
       CASE w.msg \notin queue     -> Done
         [] queueRev # w.fence     -> [w EXCEPT !.pc = "complete", !.fence = queueRev]
         [] OTHER                  -> [w EXCEPT !.pc = "txn", !.seen = queue])
  /\ UNCHANGED <<storeVars, proc, image>>

\* The application's callback returns, and the worker goes on to complete.
HandlerReturns(q, p, result) ==
  /\ worker[q][p].pc = "handle"
  /\ CompleteRead(q, p, [worker[q][p] EXCEPT !.result = result])

Handle(q, p) == HandlerReturns(q, p, worker[q][p].msg.to)

\* An application error is published as the state ERROR.
HandlerError(q, p) == HandlerReturns(q, p, "ERROR")

RetryComplete(q, p) ==
  /\ worker[q][p].pc = "complete"
  /\ CompleteRead(q, p, worker[q][p])

\* Mutant: the session is not compared.
QueueFence(q, p) == queueRev = worker[q][p].fence

\* Mutant: the queue's revision is not compared.
SessionFence(q, p) == live[ProcInstance[q]] = proc[q].session

\* The compares of the completion transaction.
CompletionFence(q, p) ==
  /\ live[ProcInstance[q]] = proc[q].session
  /\ queueRev = worker[q][p].fence

\* Mutant: the completion transaction forgets the marker.
CompleteApplyUnmarked(q, p) ==
  LET w == worker[q][p]
      s == proc[q].session
  IN /\ w.pc = "txn"
     /\ CompletionFence(q, p)
     /\ CanWrite /\ rev' = NewRev /\ UNCHANGED marker
     /\ current' = [current EXCEPT ![s][p] = IF w.result = "DROPPED" THEN ABSENT ELSE w.result]
     /\ queue' = w.seen \ {w.msg} /\ queueRev' = NewRev
     /\ SetWorker(q, p, Done)
     /\ UNCHANGED <<live, sequence, registered, configured, placement, view, processed,
                    active, deleted, proc, image>>

\* The completion transaction: state, queue without the message, input marker.
CompleteApply(q, p) ==
  LET w == worker[q][p]
      s == proc[q].session
  IN /\ w.pc = "txn"
     /\ CompletionFence(q, p)
     /\ WriteInput
     /\ current' = [current EXCEPT ![s][p] = IF w.result = "DROPPED" THEN ABSENT ELSE w.result]
     /\ queue' = w.seen \ {w.msg} /\ queueRev' = NewRev
     /\ SetWorker(q, p, Done)
     /\ UNCHANGED <<live, sequence, registered, configured, placement, view, processed,
                    active, deleted, proc, image>>

\* A failed transaction: with the session still live the queue has moved, else
\* the session is lost.
CompleteRefused(q, p) ==
  /\ worker[q][p].pc = "txn"
  /\ ~CompletionFence(q, p)
  /\ SetWorker(q, p, [worker[q][p] EXCEPT !.seen = {},
       !.pc = IF live[ProcInstance[q]] = proc[q].session THEN "complete" ELSE "lost"])
  /\ UNCHANGED <<storeVars, proc, image>>

\* remove_pending_transition, by identity.
Without(q, p) ==
  LET w == worker[q][p].msg
  IN {m \in queue : ~(m.id = w.id /\ m.part = w.part /\ m.inst = w.inst)}

\* The lost session's message is removed only while the queue is still at the
\* fence.
LostCleanup(q, p) ==
  /\ worker[q][p].pc = "lost"
  /\ SetWorker(q, p, Done)
  /\ IF Without(q, p) # queue /\ queueRev = worker[q][p].fence
     THEN /\ WriteQueue(Without(q, p))
          /\ UNCHANGED <<live, inputVars, active, deleted>>
     ELSE UNCHANGED storeVars
  /\ UNCHANGED <<proc, image>>

\* cleanup retries with the latest revision until the message is gone.
Cleanup(q, p) ==
  /\ worker[q][p].pc = "cleanup"
  /\ SetWorker(q, p, Done)
  /\ IF Without(q, p) # queue
     THEN /\ WriteQueue(Without(q, p))
          /\ UNCHANGED <<live, inputVars, active, deleted>>
     ELSE UNCHANGED storeVars
  /\ UNCHANGED <<proc, image>>

-----------------------------------------------------------------------------
\* A process that keeps the lease of the instance's live session alive.
KeptAlive(i) ==
  \E q \in Procs : /\ ProcInstance[q] = i /\ proc[q].session = live[i]
                    /\ proc[q].pc \in {"running", "stopping"}

\* etcd expires the lease of a live session nobody keeps alive.
ExpireOrphan(i) ==
  /\ live[i] # 0 /\ ~KeptAlive(i)
  /\ DeleteLive(i)
  /\ UNCHANGED partVars

\* The keepalives of a running process do not arrive in time.
ExpireSession(i) ==
  /\ live[i] # 0 /\ KeptAlive(i)
  /\ DeleteLive(i)
  /\ UNCHANGED partVars

\* The keepalive finds another session, or none, under the live key.
NoticeExpired(q) ==
  /\ proc[q].pc = "running"
  /\ live[ProcInstance[q]] # proc[q].session
  /\ proc' = [proc EXCEPT ![q].pc = "draining"]
  /\ UNCHANGED <<storeVars, image, worker>>

\* etcd has been out of reach for a lease time: the session counts as expired,
\* whatever etcd holds.
PresumeExpired(q) ==
  /\ proc[q].pc = "running"
  /\ proc' = [proc EXCEPT ![q].pc = "draining"]
  /\ UNCHANGED <<storeVars, image, worker>>

Stop(q) ==
  /\ proc[q].pc = "running"
  /\ proc' = [proc EXCEPT ![q].pc = "stopping"]
  /\ UNCHANGED <<storeVars, image, worker>>

\* The session's lease goes with the process that owns it.
Revoke(q) ==
  IF proc[q].session # 0 /\ live[ProcInstance[q]] = proc[q].session
  THEN DeleteLive(ProcInstance[q])
  ELSE UNCHANGED storeVars

\* All workers have been joined: register again, or revoke and return.
Drained(q) ==
  /\ worker[q] = NoWorkers
  /\ image' = [image EXCEPT ![q] = {}]
  /\ \/ /\ proc[q].pc = "draining"
        /\ proc' = [proc EXCEPT ![q] = [Down EXCEPT !.pc = "waiting"]]
        /\ UNCHANGED storeVars
     \/ /\ proc[q].pc = "stopping"
        /\ Revoke(q)
        /\ proc' = [proc EXCEPT ![q] = Down]
  /\ UNCHANGED worker

\* An error of a worker or of the loop ends the process and its workers: it
\* revokes its lease.  A crash does not.
Fail(q) ==
  /\ proc[q].pc \in {"registering", "running", "draining", "stopping"}
  /\ Revoke(q) \/ UNCHANGED storeVars
  /\ proc' = [proc EXCEPT ![q] = Down]
  /\ image' = [image EXCEPT ![q] = {}]
  /\ worker' = [worker EXCEPT ![q] = NoWorkers]

Restart(q) ==
  /\ proc[q].pc = "down"
  /\ proc' = [proc EXCEPT ![q].pc = "waiting"]
  /\ UNCHANGED <<storeVars, image, worker>>

WorkerStep(q, p) ==
  \/ ReadCurrent(q, p) \/ Claim(q, p) \/ Handle(q, p)
  \/ RetryComplete(q, p) \/ CompleteApply(q, p) \/ CompleteRefused(q, p)
  \/ LostCleanup(q, p) \/ Cleanup(q, p) \/ WorkerExit(q, p)

ProcessStep(q) ==
  \/ SeeNoSession(q) \/ Allocate(q) \/ Register(q)
  \/ NoticeExpired(q) \/ Drained(q) \/ Restart(q)

ParticipantStep(q) ==
  \/ ProcessStep(q) \/ ObserveQueue(q)
  \/ \E p \in Partitions : WorkerStep(q, p)

ParticipantFault(q) ==
  \/ RegisterUnanswered(q) \/ PresumeExpired(q) \/ Stop(q) \/ Fail(q)
  \/ \E p \in Partitions : HandlerError(q, p)

=============================================================================
