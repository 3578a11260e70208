------------------------------- MODULE Workers -------------------------------
(***************************************************************************)
(* Inside one participant session (participant.rs): the run loop that      *)
(* turns queue images into worker tasks, the execution keys that keep one  *)
(* task on a partition, the completion frontier behind the participant's   *)
(* processed revision, the bounded completion retries, and the             *)
(* cancellation token of a drain.  Module ParticipantRuntime has what the  *)
(* same tasks do to the shared store.                                      *)
(***************************************************************************)
EXTENDS Integers, Sequences, FiniteSets

CONSTANTS
  Messages,     \* message ids of this instance
  Parts,        \* execution keys: resource and partition
  PartOf,       \* the execution key of each message
  Injected,     \* messages an application queues, the others are the controller's
  Cooperative,  \* messages whose handler waits for the cancellation token
  Backlogs,     \* the queues a process may find when it starts, and what there is for
                \* an earlier session
  MaxRev,       \* bound on the revisions of the queue
  MaxRetries,   \* MAX_COMPLETION_FENCE_RETRIES
  MaxExited,    \* bound on the finished tasks that are not joined yet
  MaxDrains     \* bound on the drains of shutdowns and lost sessions

None == "none"

WorkersAssumption ==
  /\ IsFiniteSet(Messages) /\ None \notin Messages
  /\ PartOf \in [Messages -> Parts]
  /\ MaxRev \in Nat /\ MaxRetries \in Nat \ {0} /\ MaxExited \in Nat /\ MaxDrains \in Nat
  /\ Backlogs \subseteq [queue : SUBSET Messages, old : SUBSET Messages]
  /\ \A b \in Backlogs : Cardinality(b.queue) < MaxRev

VARIABLES
  images,     \* etcd: the queue at each of its revisions
  fresh,      \* messages the controller has not queued yet
  seen,       \* queue_revision: the image the loop looked at last
  loop,       \* run_until
  inFlight,   \* in_flight: the message of each execution key
  revisions,  \* CompletionState.revisions
  completed,  \* CompletionState.completed
  frontier,   \* CompletionState.frontier, 0 for None
  task,       \* the task of each message
  exited,     \* finished tasks in the JoinSet
  token,      \* CancellationToken
  live,       \* the session's lease is alive
  old,        \* the messages whose target is an earlier session
  processed,  \* participant/<instance>/processed-revision, 0 if absent
  owed,       \* history: the messages the loop took charge of at each revision
  done,       \* history: the messages that were executed, removed or found withdrawn
  drains

queueVars == <<images, fresh>>
frontierVars == <<revisions, completed, frontier, owed, done>>
sessionVars == <<live, old>>
vars == <<queueVars, seen, loop, inFlight, frontierVars, task, exited, token, sessionVars,
          processed, drains>>

Revisions == 1..MaxRev

Queue == images[Len(images)]

NoTask == [pc |-> "none", fence |-> 0, tries |-> 0, report |-> 0]

Selecting == [pc |-> "select", rev |-> 0, ids |-> {}, new |-> {}, shutdown |-> FALSE]

LoopStates ==
  [pc : {"start", "select", "observe", "notify", "drain", "stopped", "failed"},
   rev : {0} \cup Revisions, ids : SUBSET Messages, new : SUBSET Messages, shutdown : BOOLEAN]

TaskStates ==
  [pc : {"none", "claim", "cleanup", "check", "subscribe", "wait", "txn", "complete",
         "advance", "release", "error"},
   fence : {0} \cup Revisions, tries : 0..MaxRetries, report : {0} \cup Revisions]

TypeOK ==
  /\ images \in Seq(SUBSET Messages) /\ Len(images) \in Revisions
  /\ fresh \subseteq Messages /\ seen \in 1..Len(images)
  /\ loop \in LoopStates
  /\ inFlight \in [Parts -> Messages \cup {None}]
  /\ revisions \in [Revisions -> SUBSET Messages] /\ completed \subseteq Messages
  /\ frontier \in {0} \cup Revisions
  /\ task \in [Messages -> TaskStates]
  /\ exited \in 0..MaxExited /\ token \in BOOLEAN /\ live \in BOOLEAN /\ old \subseteq Messages
  /\ processed \in {0} \cup Revisions
  /\ owed \in [Revisions -> SUBSET Messages] /\ done \subseteq Messages
  /\ drains \in 0..MaxDrains

-----------------------------------------------------------------------------
(* The queue, written by the controller, an application and other          *)
(* participants.                                                           *)

Rewrite(q) == images' = Append(images, q)

\* A message is appended.  The bound leaves room for every queued message to be removed.
AppendMessage(m) ==
  /\ m \in fresh
  /\ Len(images) + Cardinality(Queue) + 2 <= MaxRev
  /\ Rewrite(Queue \cup {m})
  /\ fresh' = fresh \ {m}
  /\ UNCHANGED <<seen, loop, inFlight, frontierVars, task, exited, token, sessionVars, processed, drains>>

\* The controller publishes a message for a replica that has none.
Enqueue(m) ==
  /\ m \notin Injected /\ \A n \in Queue : PartOf[n] # PartOf[m]
  /\ AppendMessage(m)

\* inject_pending_transition asks only that the id is new.
InjectPendingTransition(m) == m \in Injected /\ AppendMessage(m)

Withdraw(m) ==
  /\ m \in Queue
  /\ Rewrite(Queue \ {m})
  /\ UNCHANGED <<fresh, seen, loop, inFlight, frontierVars, task, exited, token, sessionVars, processed, drains>>

\* remove_pending_transitions_for_resource; the messages are all of one resource.
RemovePendingTransitionsForResource ==
  /\ Queue # {}
  /\ Rewrite({})
  /\ UNCHANGED <<fresh, seen, loop, inFlight, frontierVars, task, exited, token, sessionVars, processed, drains>>

-----------------------------------------------------------------------------
(* The loop.                                                               *)

\* What process_messages finds in an image: messages whose task is running, and
\* messages whose execution key is free, of which the first one takes it.  A
\* message whose key is taken by another one is passed over.
Running(image) == {m \in image : inFlight[PartOf[m]] = m}

Free(image) == {m \in image : inFlight[PartOf[m]] = None}

Takes(image) == {new \in SUBSET Free(image) :
                   \A m \in Free(image) : \E n \in new : {k \in new : PartOf[k] = PartOf[m]} = {n}}

\* process_messages under the in_flight lock.
ProcessMessages(image, r) ==
  \E new \in Takes(image) :
    /\ inFlight' = [p \in Parts |-> IF \E m \in new : PartOf[m] = p
                                    THEN CHOOSE m \in new : PartOf[m] = p
                                    ELSE inFlight[p]]
    /\ loop' = [pc |-> "observe", rev |-> r, ids |-> Running(image) \cup new, new |-> new,
                shutdown |-> FALSE]
    /\ owed' = [owed EXCEPT ![r] = @ \cup Running(image) \cup new]

\* CompletionFrontier::observe.
Observe(r, ids) == revisions' = [revisions EXCEPT ![r] = @ \cup ids]

\* The lock has been released: the frontier observes, then the tasks start.
ObserveAndSpawn ==
  /\ loop.pc = "observe"
  /\ Observe(loop.rev, loop.ids)
  /\ task' = [m \in Messages |-> IF m \in loop.new THEN [NoTask EXCEPT !.pc = "claim", !.fence = loop.rev]
                                 ELSE task[m]]
  /\ loop' = Selecting
  /\ UNCHANGED <<queueVars, seen, inFlight, completed, frontier, owed, done, exited, token,
                 sessionVars, processed, drains>>

LookAt(r) ==
  /\ seen' = r
  /\ ProcessMessages(images[r], r)
  /\ UNCHANGED <<queueVars, revisions, completed, frontier, done, task, token, sessionVars, processed>>

\* run_until begins with the queue as it is.
Start ==
  /\ loop.pc = "start"
  /\ LookAt(Len(images))
  /\ UNCHANGED <<exited, drains>>

\* The watch delivers the next image of the queue.
WatchEvent ==
  /\ loop.pc = "select" /\ seen < Len(images)
  /\ LookAt(seen + 1)
  /\ UNCHANGED <<exited, drains>>

\* A compacted watch is replaced: the images in between are skipped.
WatchCompacted ==
  /\ loop.pc = "select" /\ seen + 1 < Len(images)
  /\ LookAt(Len(images))
  /\ UNCHANGED <<exited, drains>>

\* Mutant: the end of a task leads to nothing.
JoinOnly ==
  /\ loop.pc = "select" /\ exited > 0
  /\ exited' = exited - 1
  /\ UNCHANGED <<queueVars, seen, loop, inFlight, frontierVars, task, token, sessionVars, processed,
                 drains>>

\* A task has ended: the loop looks at its latest image again.
JoinNext ==
  /\ loop.pc = "select" /\ exited > 0
  /\ exited' = exited - 1
  /\ LookAt(seen)
  /\ UNCHANGED drains

\* The error of a task ends the process, and its other tasks with it.
JoinError(m) ==
  /\ loop.pc \in {"select", "drain"} /\ task[m].pc = "error"
  /\ loop' = [Selecting EXCEPT !.pc = "failed"]
  /\ task' = [n \in Messages |-> NoTask]
  /\ UNCHANGED <<queueVars, seen, inFlight, frontierVars, exited, token, sessionVars, processed, drains>>

\* The lease runs out; the loop learns of it with its next keepalive.
LoseSession ==
  /\ live /\ drains < MaxDrains /\ loop.pc \notin {"stopped", "failed"}
  /\ live' = FALSE
  /\ UNCHANGED <<queueVars, seen, loop, inFlight, frontierVars, task, exited, token, old,
                 processed, drains>>

\* Mutant: the waiters are woken and the flag is not set.
CancelWaiters(shutdown) ==
  /\ loop.pc = "select" /\ drains < MaxDrains /\ (shutdown \/ ~live)
  /\ loop' = [Selecting EXCEPT !.pc = "notify", !.shutdown = shutdown]
  /\ drains' = drains + 1
  /\ UNCHANGED <<queueVars, seen, inFlight, frontierVars, task, exited, token, sessionVars, processed>>

\* Shutdown, or an expired keepalive: the flag of the token is set first.
Cancel(shutdown) ==
  /\ loop.pc = "select" /\ drains < MaxDrains /\ (shutdown \/ ~live)
  /\ token' = TRUE
  /\ loop' = [Selecting EXCEPT !.pc = "notify", !.shutdown = shutdown]
  /\ drains' = drains + 1
  /\ UNCHANGED <<queueVars, seen, inFlight, frontierVars, task, exited, sessionVars, processed>>

\* notify_waiters wakes the handlers that wait at this moment.
NotifyWaiters ==
  /\ loop.pc = "notify"
  /\ task' = [m \in Messages |-> IF task[m].pc = "wait" THEN [task[m] EXCEPT !.pc = "txn"]
                                 ELSE task[m]]
  /\ loop' = [loop EXCEPT !.pc = "drain"]
  /\ UNCHANGED <<queueVars, seen, inFlight, frontierVars, exited, token, sessionVars, processed, drains>>

DrainJoin ==
  /\ loop.pc = "drain" /\ exited > 0
  /\ exited' = exited - 1
  /\ UNCHANGED <<queueVars, seen, loop, inFlight, frontierVars, task, token, sessionVars, processed, drains>>

\* A keepalive during the drain of a shutdown fails when the lease is gone.
DrainWithoutLease ==
  /\ loop.pc = "drain" /\ loop.shutdown /\ ~live
  /\ loop' = [Selecting EXCEPT !.pc = "failed"]
  /\ task' = [m \in Messages |-> NoTask]
  /\ UNCHANGED <<queueVars, seen, inFlight, frontierVars, exited, token, sessionVars, processed,
                 drains>>

Drained ==
  /\ loop.pc = "drain" /\ exited = 0
  /\ \A m \in Messages : task[m].pc = "none"

StopAfterDrain ==
  /\ Drained /\ loop.shutdown
  /\ loop' = [Selecting EXCEPT !.pc = "stopped"]
  /\ UNCHANGED <<queueVars, seen, inFlight, frontierVars, task, exited, token, sessionVars,
                 processed, drains>>

\* A replacement session: a new token and the queue as it is, with the same
\* frontier.
Reregister ==
  /\ Drained /\ ~loop.shutdown
  /\ token' = FALSE /\ live' = TRUE /\ old' = Messages \ fresh
  /\ seen' = Len(images)
  /\ ProcessMessages(Queue, Len(images))
  /\ UNCHANGED <<queueVars, revisions, completed, frontier, done, task, exited, processed, drains>>

-----------------------------------------------------------------------------
(* A task.                                                                 *)

Step(m, pc) ==
  /\ task' = [task EXCEPT ![m].pc = pc]
  /\ UNCHANGED <<queueVars, seen, loop, inFlight, frontierVars, exited, token, sessionVars, processed, drains>>

\* Nothing is left to do for the message.
Consumed(m) ==
  /\ m \notin Queue
  /\ Step(m, "complete")

\* The message is for this session and claim_pending_transition finds it in the
\* queue: its handler runs, to its end or until it waits for the token.  Else, or
\* when the state of the replica does not ask for it, the message is cleaned up.
Claim(m) ==
  /\ task[m].pc = "claim"
  /\ \/ Consumed(m)
     \/ /\ m \in Queue /\ m \notin old /\ live
        /\ task' = [task EXCEPT ![m] = [@ EXCEPT !.fence = Len(images),
                      !.pc = IF m \in Cooperative THEN "check" ELSE "txn"]]
        /\ UNCHANGED <<queueVars, seen, loop, inFlight, frontierVars, exited, token, sessionVars,
                       processed, drains>>
     \/ m \in Queue /\ Step(m, "cleanup")

\* Mutant: one attempt too few.
RemoveAtFenceOnce(m) ==
  \/ Consumed(m)
  \/ /\ m \in Queue /\ Len(images) = task[m].fence
     /\ Rewrite(Queue \ {m})
     /\ task' = [task EXCEPT ![m].pc = "complete"]
     /\ UNCHANGED <<fresh, seen, loop, inFlight, frontierVars, exited, token, sessionVars,
                    processed, drains>>
  \/ /\ m \in Queue /\ Len(images) # task[m].fence
     /\ task' = [task EXCEPT ![m].pc = IF task[m].tries + 2 = MaxRetries THEN "error" ELSE @]
     /\ UNCHANGED <<queueVars, seen, loop, inFlight, frontierVars, exited, token, sessionVars,
                    processed, drains>>

\* The queue without the message, if it is still at the fence; else another
\* attempt at the queue's new revision.
RemoveAtFence(m) ==
  \/ Consumed(m)
  \/ /\ m \in Queue /\ Len(images) = task[m].fence
     /\ Rewrite(Queue \ {m})
     /\ task' = [task EXCEPT ![m].pc = "complete"]
     /\ UNCHANGED <<fresh, seen, loop, inFlight, frontierVars, exited, token, sessionVars,
                    processed, drains>>
  \/ /\ m \in Queue /\ Len(images) # task[m].fence
     /\ task' = [task EXCEPT ![m] = [@ EXCEPT
                   !.pc = IF task[m].tries + 1 = MaxRetries THEN "error" ELSE task[m].pc,
                   !.tries = task[m].tries + 1, !.fence = Len(images)]]
     /\ UNCHANGED <<queueVars, seen, loop, inFlight, frontierVars, exited, token, sessionVars,
                    processed, drains>>

\* cleanup, with remove_pending_transition.
Cleanup(m) == task[m].pc = "cleanup" /\ RemoveAtFence(m)

\* cancelled(): the flag is read before the handler is registered as a waiter.
CheckToken(m) ==
  /\ task[m].pc = "check"
  /\ Step(m, IF token THEN "txn" ELSE "subscribe")

Subscribe(m) ==
  /\ task[m].pc = "subscribe"
  /\ Step(m, "wait")

\* complete_pending_transition_with_fence, and its retries; a task whose session
\* is lost removes its message at the same fence, once, or leaves it.
Complete(m) ==
  /\ task[m].pc = "txn"
  /\ IF live \/ Len(images) = task[m].fence THEN RemoveAtFence(m) ELSE Step(m, "complete")

\* The revisions that a completion pops: from the first one observed on, while
\* everything observed there is completed.
Popped(c) ==
  {r \in Revisions : revisions[r] # {} /\ \A s \in Revisions : s <= r => revisions[s] \subseteq c}

\* Mutant: a revision is popped although an earlier one is incomplete.
CompleteFrontierAnyOrder(m) ==
  LET c == completed \cup {m}
      popped == {r \in Revisions : revisions[r] # {} /\ revisions[r] \subseteq c}
      left == [r \in Revisions |-> IF r \in popped THEN {} ELSE revisions[r]]
      last == IF popped = {} THEN 0 ELSE CHOOSE r \in popped : \A s \in popped : s <= r
  IN /\ task[m].pc = "complete"
     /\ revisions' = left
     /\ completed' = {n \in c : (\E r \in popped : n \in revisions[r]) => \E r \in Revisions : n \in left[r]}
     /\ frontier' = IF last = 0 THEN frontier ELSE last
     /\ done' = done \cup {m}
     /\ task' = [task EXCEPT ![m] = [@ EXCEPT !.report = last,
                   !.pc = IF last = 0 THEN "release" ELSE "advance"]]
     /\ UNCHANGED <<queueVars, seen, loop, inFlight, owed, exited, token, sessionVars, processed, drains>>

\* CompletionState::complete; an id is forgotten with the last revision that
\* has it.
CompleteFrontier(m) ==
  LET c == completed \cup {m}
      popped == Popped(c)
      left == [r \in Revisions |-> IF r \in popped THEN {} ELSE revisions[r]]
      last == IF popped = {} THEN 0 ELSE CHOOSE r \in popped : \A s \in popped : s <= r
  IN /\ task[m].pc = "complete"
     /\ revisions' = left
     /\ completed' = {n \in c : (\E r \in popped : n \in revisions[r]) => \E r \in Revisions : n \in left[r]}
     /\ frontier' = IF last = 0 THEN frontier ELSE last
     /\ done' = done \cup {m}
     /\ task' = [task EXCEPT ![m] = [@ EXCEPT !.report = last,
                   !.pc = IF last = 0 THEN "release" ELSE "advance"]]
     /\ UNCHANGED <<queueVars, seen, loop, inFlight, owed, exited, token, sessionVars, processed, drains>>

\* advance_metadata_revision never goes back.
AdvanceRevision(m) ==
  /\ task[m].pc = "advance"
  /\ processed' = IF task[m].report > processed THEN task[m].report ELSE processed
  /\ task' = [task EXCEPT ![m].pc = "release"]
  /\ UNCHANGED <<queueVars, seen, loop, inFlight, frontierVars, exited, token, sessionVars, drains>>

\* The execution key is released and the task returns.
Release(m) ==
  /\ task[m].pc = "release" /\ exited < MaxExited
  /\ inFlight' = [inFlight EXCEPT ![PartOf[m]] = IF @ = m THEN None ELSE @]
  /\ task' = [task EXCEPT ![m] = NoTask]
  /\ exited' = exited + 1
  /\ UNCHANGED <<queueVars, seen, loop, frontierVars, token, sessionVars, processed, drains>>

TaskStep(m) ==
  \/ Claim(m) \/ Cleanup(m) \/ CheckToken(m) \/ Subscribe(m) \/ Complete(m)
  \/ CompleteFrontier(m) \/ AdvanceRevision(m) \/ Release(m)

-----------------------------------------------------------------------------
Init ==
  /\ \E b \in Backlogs :
       images = <<b.queue>> /\ fresh = Messages \ b.queue /\ old = b.old
  /\ seen = 1 /\ loop = [Selecting EXCEPT !.pc = "start"]
  /\ inFlight = [p \in Parts |-> None]
  /\ revisions = [r \in Revisions |-> {}] /\ completed = {} /\ frontier = 0
  /\ task = [m \in Messages |-> NoTask] /\ exited = 0 /\ token = FALSE /\ processed = 0
  /\ live = TRUE
  /\ owed = [r \in Revisions |-> {}] /\ done = {} /\ drains = 0

Next ==
  \/ \E m \in Messages :
       \/ Enqueue(m) \/ InjectPendingTransition(m) \/ Withdraw(m)
       \/ TaskStep(m) \/ JoinError(m)
  \/ RemovePendingTransitionsForResource
  \/ Start \/ ObserveAndSpawn \/ WatchEvent \/ WatchCompacted \/ JoinNext
  \/ LoseSession \/ (\E shutdown \in BOOLEAN : Cancel(shutdown))
  \/ NotifyWaiters \/ DrainJoin \/ DrainWithoutLease \/ StopAfterDrain \/ Reregister

Spec == Init /\ [][Next]_vars

\* The runtime polls the loop and every task, and select! takes each of its
\* ready branches again and again; each handler but those that wait for the
\* token ends by itself.
Fairness ==
  /\ WF_vars(Start) /\ WF_vars(ObserveAndSpawn) /\ SF_vars(WatchEvent) /\ WF_vars(JoinNext)
  /\ WF_vars(Cancel(FALSE)) /\ WF_vars(NotifyWaiters) /\ WF_vars(DrainJoin)
  /\ WF_vars(StopAfterDrain) /\ WF_vars(Reregister)
  /\ \A m \in Messages : WF_vars(TaskStep(m)) /\ WF_vars(JoinError(m))

FairSpec == Spec /\ Fairness

-----------------------------------------------------------------------------
\* No two tasks work on a partition: a message whose execution key is taken
\* waits (process_messages).
OneTaskPerPartition ==
  \A m, n \in Messages :
    task[m].pc # "none" /\ task[n].pc # "none" /\ PartOf[m] = PartOf[n] => m = n

\* What the loop has taken at a revision and not entered in the frontier yet.
Unentered(r) == IF loop.pc = "observe" /\ loop.rev = r THEN loop.ids ELSE {}

\* The frontier moves forward only, and to a revision only when every message
\* the loop took charge of there or before has been dealt with, in whatever
\* order tasks end and images repeat them, but for those it is about to enter
\* (CompletionState).
FrontierCoversWork ==
  [][frontier' # frontier =>
       /\ frontier' > frontier
       /\ \A r \in Revisions : r <= frontier' => owed[r] \ Unentered(r) \subseteq done' ]_vars

\* A task gives up, and the process with it, only when the queue has been
\* rewritten under it as often as it may retry, with its message queued all the
\* time (MAX_COMPLETION_FENCE_RETRIES).
GivesUpOnlyUnderContention ==
  \A m \in Messages : task[m].pc = "error" =>
    \E r \in 1..Len(images) - MaxRetries : \A s \in r .. r + MaxRetries : m \in images[s]

\* A handler read the flag before the token was cancelled and registered as a
\* waiter after the waiters had been woken.
MissedWakeup == \E m \in Messages : task[m].pc = "wait" /\ token /\ loop.pc # "notify"

\* A drain ends, unless a handler missed its wakeup (drain_workers).
DrainEnds == []<>(loop.pc # "drain" \/ MissedWakeup)

\* Again and again the queue is worked off, without a write of others to wake
\* the participant (the re-evaluation after join_next), unless the process has
\* ended or a handler waits for the token.
QueueIsWorkedOff ==
  []<>(Queue = {} \/ loop.pc \in {"stopped", "failed"} \/ \E m \in Messages : task[m].pc = "wait")

\* "the driver [can] wait until every message mutation preceding a checkpoint
\* has been semantically consumed or completed": the progress key reaches
\* every revision at which the participant took charge of a message.
ProgressReported ==
  \A r \in Revisions :
    owed[r] # {} ~> processed >= r \/ loop.pc \in {"stopped", "failed", "drain"}
                    \/ \E m \in Messages : task[m].pc = "wait"

=============================================================================
