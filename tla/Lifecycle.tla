------------------------------ MODULE Lifecycle ------------------------------
(***************************************************************************)
(* One process from the call of run_until or run_until_signal on its       *)
(* builder (cluster.rs) to its answer: a controller (runtime.rs, with the  *)
(* outline of controller/runtime.rs) or a participant (participant.rs).    *)
(* Shutdown, the ready callback, the loss of the lease, errors of etcd and *)
(* of handlers, the events the application's hook sees, and which of       *)
(* several errors the application gets.                                    *)
(*                                                                         *)
(* What the process does while it works is in the other modules: here it   *)
(* only has tasks, a lease and steps that fail.  A step fails while etcd   *)
(* is away; an error that no retry handles is a fault of its own.  What    *)
(* etcd did for a call whose answer is lost is left open.                  *)
(***************************************************************************)
EXTENDS Naturals, Sequences

CONSTANTS
  MaxLifeFaults,  \* bound on the faults of one behaviour
  ReadyFails      \* whether the application's ready callback may fail

LifecycleAssumption == MaxLifeFaults \in Nat /\ ReadyFails \in BOOLEAN

VARIABLES
  role,      \* "controller" or "participant"
  pc,
  lease,     \* of this process: "none", "held", or "gone" when etcd has ended it
  left,      \* a key under a lease this process has given up is still in etcd
  rival,     \* another process holds the live key, or comes first in the election
  etcd,      \* etcd answers
  tasks,     \* handlers of the participant that run
  shutdown,  \* the shutdown future has resolved
  signalErr, \* signal_error: the signal could not be awaited
  ready,     \* the ready callback: "unset", "done" or "failed"
  outcome,   \* run_result, and what the runtime returns
  events,    \* what the event hook was called with
  answer,    \* what the application gets
  lifeFaults

procVars == <<pc, lease, left, tasks, ready, outcome, events, answer>>
lifeVars == <<role, procVars, rival, etcd, shutdown, signalErr, lifeFaults>>

\* RuntimeEvent.  A rejected publication is of module ControllerRuntime.
RuntimeEvents ==
  {"AuthorityAcquired", "AuthorityLost", "LeaseRecovery", "LeaseReregistered", "CoordinationRetry",
   "FatalRuntimeError", "GracefulShutdown"}

\* The errors of the facade, as far as they are told apart: those of the runtimes are
\* one, and Spec stands for Config too.
ApplicationErrors == {"error", "Callback", "Signal", "Spec"}

Emit(e) == events' = Append(events, e)

-----------------------------------------------------------------------------
(* The surroundings.                                                       *)

Outside == UNCHANGED <<role, pc, tasks, ready, outcome, events, answer>>

Shutdown(failed) ==
  /\ ~shutdown /\ shutdown' = TRUE /\ signalErr' = failed
  /\ Outside /\ UNCHANGED <<lease, left, rival, etcd, lifeFaults>>

LeaseEnds ==
  /\ lease = "held" /\ lifeFaults < MaxLifeFaults
  /\ lease' = "gone" /\ lifeFaults' = lifeFaults + 1
  /\ Outside /\ UNCHANGED <<left, rival, etcd, shutdown, signalErr>>

\* The labels at which nobody keeps a lease of this process alive that it still names.
Unattended == {"drainLost", "reconnect", "reconnectWait", "returned"}

\* etcd ends a lease nobody keeps alive.
LeaseLapses ==
  /\ \/ left /\ left' = FALSE /\ UNCHANGED lease
     \/ lease = "held" /\ pc \in Unattended /\ lease' = "gone" /\ UNCHANGED left
  /\ Outside /\ UNCHANGED <<rival, etcd, shutdown, signalErr, lifeFaults>>

EtcdLeaves ==
  /\ etcd /\ lifeFaults < MaxLifeFaults /\ etcd' = FALSE /\ lifeFaults' = lifeFaults + 1
  /\ Outside /\ UNCHANGED <<lease, left, rival, shutdown, signalErr>>

EtcdReturns ==
  /\ ~etcd /\ etcd' = TRUE
  /\ Outside /\ UNCHANGED <<lease, left, rival, shutdown, signalErr, lifeFaults>>

\* Before the candidate's key is written, others may come first.
Enrolling == {"campaign", "campaignWait", "enroll", "enrollAgain", "disenroll"}

\* Another process registers, where it can: the live key has one owner, and a
\* candidate has only older candidates before it.
RivalComes ==
  /\ ~rival /\ lifeFaults < MaxLifeFaults
  /\ IF role = "participant" THEN lease # "held" /\ ~left ELSE pc \in Enrolling
  /\ rival' = TRUE /\ lifeFaults' = lifeFaults + 1
  /\ Outside /\ UNCHANGED <<lease, left, etcd, shutdown, signalErr>>

RivalLeaves ==
  /\ rival /\ rival' = FALSE
  /\ Outside /\ UNCHANGED <<lease, left, etcd, shutdown, signalErr, lifeFaults>>

-----------------------------------------------------------------------------
(* Steps of the process.                                                   *)

Around == UNCHANGED <<role, etcd, shutdown, signalErr>>
Inside == Around /\ UNCHANGED rival

At(r, label) == role = r /\ pc = label

Go(label) == pc' = label /\ UNCHANGED <<lease, left, tasks, ready, outcome, events, answer>>

\* A plain step from one label to another.
Move(r, from, guard, to) == At(r, from) /\ guard /\ Go(to) /\ Inside /\ UNCHANGED lifeFaults

\* Return from run_until of the runtime.
Return(result) == pc' = "returned" /\ outcome' = result

\* A call of revoke: etcd does not know a lease that has ended, and the answer of a
\* revocation may be lost.
RevokeLease(done) ==
  \/ done /\ etcd /\ lease = "held" /\ lease' = "none"
  \/ ~done /\ etcd /\ lease # "held" /\ lease' = lease
  \/ ~done /\ ~etcd /\ lease' \in {lease, "none"}

\* A lease is given up without a revocation: its keys stay until it lapses.
Abandon == lease' = "none" /\ left' = (left \/ lease = "held")

\* An error that is not transient, wherever the process calls etcd.
Fault(r, from, to) ==
  /\ At(r, from) /\ lifeFaults < MaxLifeFaults /\ lifeFaults' = lifeFaults + 1
  /\ pc' = to /\ outcome' = "error" /\ tasks' = 0
  /\ UNCHANGED <<lease, left, ready, events, answer>> /\ Inside

\* The ready callback, once: its error ends the run and is kept for the facade.
CallReady(r, next, end) ==
  /\ At(r, "ready")
  /\ \/ ready # "unset" /\ ready' = ready /\ pc' = next /\ UNCHANGED <<outcome, tasks>>
     \/ ready = "unset" /\ ready' = "done" /\ pc' = next /\ UNCHANGED <<outcome, tasks>>
     \/ /\ ready = "unset" /\ ReadyFails
        /\ ready' = "failed" /\ pc' = end /\ outcome' = "error" /\ tasks' = 0
  /\ UNCHANGED <<lease, left, events, answer, lifeFaults>> /\ Inside

-----------------------------------------------------------------------------
(* The beginning of run_until and run_until_signal of the builders.        *)

\* What is checked, and the signal handler installed, before anything runs.
BuildAndRun(r, label) ==
  /\ At(r, "build")
  /\ \/ pc' = label /\ UNCHANGED answer
     \/ pc' = "rejected" /\ answer' \in {"Spec", "Signal", "error"}
  /\ UNCHANGED <<lease, left, tasks, ready, outcome, events, lifeFaults>> /\ Inside

\* The lease duration and the names of the cluster and the controller.
StartController == BuildAndRun("controller", "campaign")

\* The instance's name, the lease duration, and one handler for a resource.
StartParticipant == BuildAndRun("participant", "register")

-----------------------------------------------------------------------------
(* ControllerRuntime::run_until and run_as_leader_until.                   *)

\* acquire_until.  Every error of etcd is transient to it; before the candidate's key
\* is written nobody keeps the lease alive.

\* grant_lease, tried until etcd answers.
Grant ==
  /\ At("controller", "campaign") /\ etcd /\ lease' = "held" /\ pc' = "enroll"
  /\ UNCHANGED <<left, tasks, ready, outcome, events, answer, lifeFaults>> /\ Inside

\* The candidate's key, if there is none: one may be left from an earlier lease, or
\* from an attempt that failed.  A lease that has ended is an error like any other.
Enroll ==
  /\ role = "controller" /\ pc \in {"enroll", "enrollAgain"}
  /\ \/ (~etcd \/ lease = "gone") /\ Go("enrollAgain")
     \/ etcd /\ lease = "held" /\ ~left /\ Go("stand")
     \/ etcd /\ lease = "held" /\ (left \/ pc = "enrollAgain") /\ Go("disenroll")
  /\ UNCHANGED lifeFaults /\ Inside

\* The key was there: the new lease is revoked, whether or not that works.
Disenroll ==
  /\ At("controller", "disenroll") /\ pc' = "campaignWait" /\ lease' = "none"
  /\ left' \in IF ~etcd /\ lease = "held" THEN {left, TRUE} ELSE {left}
  /\ UNCHANGED <<tasks, ready, outcome, events, answer, lifeFaults>> /\ Inside

CampaignAgain == Move("controller", "campaignWait", TRUE, "campaign")

\* A round of the candidate: the active key, if no older candidate is there and
\* nobody has it.  An active key written by a call that failed is a rival's to it.
Stand ==
  /\ At("controller", "stand")
  /\ \/ etcd /\ lease = "held" /\ rival /\ pc' = "standWait" /\ UNCHANGED <<events, rival>>
     \/ /\ etcd /\ lease = "held" /\ ~rival /\ pc' = "start"
        /\ Emit("AuthorityAcquired") /\ UNCHANGED rival
     \/ ~etcd /\ pc' = "standBroken" /\ rival' \in {rival, TRUE} /\ UNCHANGED events
  /\ UNCHANGED <<lease, left, tasks, ready, outcome, answer, lifeFaults>> /\ Around

StandAgain ==
  \/ Move("controller", "standWait", TRUE, "stand") \/ Move("controller", "standBroken", TRUE, "stand")

\* LeaseExpired: the key is missing, or the keepalive failed for the lease's duration.
CandidateExpired ==
  /\ role = "controller" /\ pc \in {"stand", "standWait", "standBroken"} /\ (lease = "gone" \/ ~etcd)
  /\ pc' = "campaign" /\ Abandon
  /\ UNCHANGED <<tasks, ready, outcome, events, answer, lifeFaults>> /\ Inside

\* The shutdown branches of the selects.  Without a lease there is nothing to revoke;
\* after an error a failed revocation is ignored, and in the wait for another
\* candidate it is returned.
CampaignShutdown ==
  /\ role = "controller" /\ shutdown
  /\ \/ /\ pc \in {"campaign", "campaignWait"}
        /\ Return("ok") /\ Emit("GracefulShutdown") /\ UNCHANGED lease
     \/ /\ pc \in {"enroll", "enrollAgain", "standBroken"} /\ \E done \in BOOLEAN : RevokeLease(done)
        /\ Return("ok") /\ Emit("GracefulShutdown")
     \/ pc = "standWait" /\ RevokeLease(TRUE) /\ Return("ok") /\ Emit("GracefulShutdown")
     \/ pc = "standWait" /\ RevokeLease(FALSE) /\ Return("error") /\ Emit("FatalRuntimeError")
  /\ UNCHANGED <<left, tasks, ready, answer, lifeFaults>> /\ Inside

\* Snapshot and first reconciliation: both wait out an etcd that is away, and both
\* give up for a shutdown or a lost lease.
FirstCommit == Move("controller", "start", etcd /\ lease = "held", "ready")

ControllerReady == CallReady("controller", "lead", "fatal")

LeaderShutdown ==
  \/ Move("controller", "start", shutdown, "relinquish")
  \/ Move("controller", "lead", shutdown, "relinquish")

LeadershipLost ==
  /\ role = "controller" /\ pc \in {"start", "lead"} /\ (lease = "gone" \/ ~etcd)
  /\ pc' = "campaign" /\ Abandon /\ Emit("AuthorityLost")
  /\ UNCHANGED <<tasks, ready, outcome, answer, lifeFaults>> /\ Inside

ControllerFault == Fault("controller", "start", "fatal") \/ Fault("controller", "lead", "fatal")

\* A fatal error: the event, then an attempt to relinquish whose failure is ignored.
ControllerFatal ==
  /\ At("controller", "fatal")
  /\ Return("error") /\ Emit("FatalRuntimeError")
  /\ \E done \in BOOLEAN : RevokeLease(done)
  /\ UNCHANGED <<left, tasks, ready, answer, lifeFaults>> /\ Inside

\* relinquish after a shutdown: its failure is returned, without an event.
Relinquish ==
  /\ At("controller", "relinquish")
  /\ \/ RevokeLease(TRUE) /\ Return("ok") /\ Emit("GracefulShutdown")
     \/ RevokeLease(FALSE) /\ Return("error") /\ UNCHANGED events
  /\ UNCHANGED <<left, tasks, ready, answer, lifeFaults>> /\ Inside

-----------------------------------------------------------------------------
(* ParticipantRuntime::run_until.                                          *)

\* A registration whose answer is lost may have written the live key.
Unheard == IF rival \/ lease = "held" THEN {left} ELSE {left, TRUE}

\* register_session_until: an attempt, and after one that found another session a
\* wait in which a shutdown is seen.
Register ==
  /\ At("participant", "register")
  /\ \/ ~etcd /\ Return("error") /\ left' \in Unheard /\ UNCHANGED lease
     \/ etcd /\ rival /\ pc' = "registerWait" /\ UNCHANGED <<lease, left, outcome>>
     \/ etcd /\ ~rival /\ pc' = "queue" /\ lease' = "held" /\ UNCHANGED <<left, outcome>>
  /\ UNCHANGED <<tasks, ready, events, answer, lifeFaults>> /\ Inside

RegisterAgain == Move("participant", "registerWait", TRUE, "register")

RegisterShutdown ==
  /\ At("participant", "registerWait") /\ shutdown
  /\ Return("ok") /\ Emit("GracefulShutdown")
  /\ UNCHANGED <<lease, left, tasks, ready, answer, lifeFaults>> /\ Inside

\* pending_queue and process_messages, which may start handlers.
FirstQueue ==
  /\ At("participant", "queue")
  /\ IF etcd THEN tasks' \in 0..1 /\ pc' = "ready" /\ UNCHANGED outcome
     ELSE pc' = "revoke" /\ outcome' = "error" /\ UNCHANGED tasks
  /\ UNCHANGED <<lease, left, ready, events, answer, lifeFaults>> /\ Inside

ParticipantReady == CallReady("participant", "loop", "revoke")

\* A queue event, or the end of a handler after which the queue is looked at again.
Work ==
  /\ At("participant", "loop") /\ etcd /\ tasks' = 1 - tasks
  /\ UNCHANGED <<pc, lease, left, ready, outcome, events, answer, lifeFaults>> /\ Inside

\* The watch breaks: an event, and a resumption that gives way to a shutdown.
WatchBreaks ==
  /\ At("participant", "loop") /\ ~etcd /\ pc' = "resume" /\ Emit("CoordinationRetry")
  /\ UNCHANGED <<lease, left, tasks, ready, outcome, answer, lifeFaults>> /\ Inside

ResumeWatch == Move("participant", "resume", etcd, "loop")

\* Mutant: the loop does not look at the shutdown future.
ResumeShutdown == Move("participant", "resume", shutdown, "drain")

\* Shutdown in the loop, in a resumption and in a keepalive that waits for etcd.
LoopShutdown ==
  \/ Move("participant", "loop", shutdown, "drain")
  \/ Move("participant", "resume", shutdown, "drain")

\* keep_alive_until_available: the lease is gone, or etcd was away for its duration.
KeepaliveExpired ==
  /\ At("participant", "loop") /\ (lease = "gone" \/ ~etcd)
  /\ pc' = "drainLost" /\ Emit("LeaseRecovery")
  /\ UNCHANGED <<lease, left, tasks, ready, outcome, answer, lifeFaults>> /\ Inside

HandlerEnds ==
  /\ role = "participant" /\ pc \in {"drain", "drainLost"} /\ tasks > 0 /\ tasks' = tasks - 1
  /\ UNCHANGED <<pc, lease, left, ready, outcome, events, answer, lifeFaults>> /\ Inside

\* Mutant: the handlers of the old session are not waited for.
DrainNothing == Move("participant", "drainLost", TRUE, "reconnect")

DrainedLost == Move("participant", "drainLost", tasks = 0, "reconnect")

Drained ==
  /\ At("participant", "drain") /\ tasks = 0
  /\ pc' = "revoke" /\ outcome' = "ok"
  /\ UNCHANGED <<lease, left, tasks, ready, events, answer, lifeFaults>> /\ Inside

\* drain_workers_with_session: a keepalive that fails ends the drain.
DrainFails ==
  /\ At("participant", "drain") /\ tasks > 0 /\ (~etcd \/ lease = "gone")
  /\ pc' = "revoke" /\ outcome' = "error" /\ tasks' = 0
  /\ UNCHANGED <<lease, left, ready, events, answer, lifeFaults>> /\ Inside

\* reconnect: register_session waits for another session, be it this process's own,
\* to end with a shutdown future that never resolves; only when etcd is away is the
\* real one looked at.
Reconnect ==
  /\ At("participant", "reconnect")
  /\ \/ /\ etcd /\ ~rival /\ lease # "held" /\ ~left
        /\ pc' = "requeue" /\ lease' = "held" /\ Emit("LeaseReregistered") /\ UNCHANGED left
     \/ ~etcd /\ pc' = "reconnectWait" /\ left' \in Unheard /\ UNCHANGED <<lease, events>>
  /\ UNCHANGED <<tasks, ready, outcome, answer, lifeFaults>> /\ Inside

ReconnectAgain == Move("participant", "reconnectWait", TRUE, "reconnect")

\* pending_queue under the new session.
Requeue ==
  /\ At("participant", "requeue")
  /\ IF etcd THEN pc' = "loop" /\ tasks' \in 0..1 ELSE pc' = "requeueWait" /\ UNCHANGED tasks
  /\ UNCHANGED <<lease, left, ready, outcome, events, answer, lifeFaults>> /\ Inside

RequeueAgain == Move("participant", "requeueWait", TRUE, "requeue")

RecoveryShutdown ==
  /\ role = "participant" /\ pc \in {"reconnectWait", "requeueWait"} /\ shutdown
  /\ pc' = "revoke" /\ outcome' = "ok"
  /\ UNCHANGED <<lease, left, tasks, ready, events, answer, lifeFaults>> /\ Inside

ParticipantFault ==
  \/ Fault("participant", "queue", "revoke") \/ Fault("participant", "loop", "revoke")
  \/ Fault("participant", "resume", "revoke") \/ Fault("participant", "drain", "revoke")
  \/ Fault("participant", "drainLost", "revoke") \/ Fault("participant", "reconnect", "revoke")
  \/ Fault("participant", "requeue", "revoke")

\* Mutant: a failed revocation is not reported.
RevokeQuietly ==
  /\ At("participant", "revoke")
  /\ \E done \in BOOLEAN :
       /\ RevokeLease(done) /\ Return(outcome)
       /\ Emit(IF outcome = "ok" /\ done THEN "GracefulShutdown" ELSE "FatalRuntimeError")
  /\ UNCHANGED <<left, tasks, ready, answer, lifeFaults>> /\ Inside

\* revoke, whatever ended the run.
Revoke ==
  /\ At("participant", "revoke")
  /\ \E done \in BOOLEAN :
       LET result == IF outcome = "ok" /\ done THEN "ok" ELSE "error"
       IN  /\ RevokeLease(done) /\ Return(result)
           /\ Emit(IF result = "ok" THEN "GracefulShutdown" ELSE "FatalRuntimeError")
  /\ UNCHANGED <<left, tasks, ready, answer, lifeFaults>> /\ Inside

-----------------------------------------------------------------------------
(* The end of run_until and run_until_signal of the builders.              *)

\* run_until: the callback's error comes before the runtime's.
RunResult == IF ready = "failed" THEN "Callback" ELSE outcome

\* run_until_signal: the signal's error comes before both.
Answer ==
  /\ pc = "returned" /\ answer = "none"
  /\ answer' = IF signalErr THEN "Signal" ELSE RunResult
  /\ UNCHANGED <<role, pc, lease, left, tasks, ready, outcome, events, rival, etcd>>
  /\ UNCHANGED <<shutdown, signalErr, lifeFaults>>

-----------------------------------------------------------------------------
LifeInit ==
  /\ role \in {"controller", "participant"}
  /\ pc = "build"
  /\ lease = "none" /\ left = FALSE /\ rival \in BOOLEAN /\ etcd = TRUE /\ tasks = 0
  /\ shutdown = FALSE /\ signalErr = FALSE
  /\ ready = "unset" /\ outcome = "none" /\ events = <<>> /\ answer = "none" /\ lifeFaults = 0

Environment ==
  \/ \E failed \in BOOLEAN : Shutdown(failed)
  \/ LeaseEnds \/ LeaseLapses \/ EtcdLeaves \/ EtcdReturns \/ RivalComes \/ RivalLeaves

Controller ==
  \/ Grant \/ Enroll \/ Disenroll \/ CampaignAgain \/ Stand \/ StandAgain \/ CandidateExpired
  \/ CampaignShutdown \/ FirstCommit \/ ControllerReady \/ LeaderShutdown \/ LeadershipLost
  \/ ControllerFatal \/ Relinquish

Participant ==
  \/ Register \/ RegisterAgain \/ RegisterShutdown \/ FirstQueue \/ ParticipantReady \/ WatchBreaks
  \/ ResumeWatch \/ LoopShutdown \/ KeepaliveExpired \/ HandlerEnds \/ DrainedLost \/ Drained \/ DrainFails
  \/ Reconnect \/ ReconnectAgain \/ Requeue \/ RequeueAgain \/ RecoveryShutdown \/ Revoke

LifeNext ==
  \/ Environment \/ StartController \/ StartParticipant \/ Controller \/ ControllerFault
  \/ Participant \/ Work \/ ParticipantFault \/ Answer

LifeSpec == LifeInit /\ [][LifeNext]_lifeVars

-----------------------------------------------------------------------------
LifeTypeOK ==
  /\ role \in {"controller", "participant"} /\ lease \in {"none", "held", "gone"}
  /\ {left, rival, etcd, shutdown, signalErr} \subseteq BOOLEAN
  /\ tasks \in 0..1 /\ lifeFaults \in 0..MaxLifeFaults
  /\ ready \in {"unset", "done", "failed"} /\ outcome \in {"none", "ok", "error"}
  /\ answer \in {"none", "ok"} \cup ApplicationErrors /\ events \in Seq(RuntimeEvents)

Terminal == {"GracefulShutdown", "FatalRuntimeError"}

\* The last the application heard of the authority is that the process has it.
Leads ==
  \E k \in DOMAIN events :
    /\ events[k] = "AuthorityAcquired"
    /\ \A j \in DOMAIN events : j > k => events[j] # "AuthorityLost"

\* run_until: a process announces its end at most once and says nothing after it;
\* it announces an orderly end exactly when the runtime returns Ok, which takes a
\* shutdown.  A participant, and a controller that led, then leave no lease in etcd;
\* a campaign that is shut down while etcd does not answer, or that gave a lease up
\* before, leaves one until it lapses.  The application is told Ok only after an
\* orderly end, and it is told of a callback that failed even when other errors follow.
EndIsAnnounced ==
  /\ \A k \in DOMAIN events : events[k] \in Terminal => k = Len(events) /\ pc = "returned"
  /\ pc = "returned" =>
       ((outcome = "ok") <=> (events # <<>> /\ events[Len(events)] = "GracefulShutdown"))
  /\ pc = "returned" /\ outcome = "ok" => shutdown /\ tasks = 0
  /\ pc = "returned" /\ outcome = "ok" /\ (role = "participant" \/ Leads)
       => lease # "held" /\ ~left
  /\ answer = "ok" => outcome = "ok" /\ ready # "failed" /\ ~signalErr
  /\ answer # "none" /\ ready = "failed" => answer \in {"Callback", "Signal"}

\* RUNTIME.md, "participants stop starting work, register a new session, and only
\* then resume processing": between the loss of a lease that was noticed and the
\* new session no handler starts, and no handler of the old session is left when
\* the new one begins.
RecoveryIsQuiet ==
  [][ /\ role = "participant" /\ tasks' > tasks => pc \in {"queue", "loop", "requeue"}
      /\ lease # "held" /\ lease' = "held" => tasks' = 0 ]_lifeVars

\* A participant that lost its session waits for another process's to end, in
\* register_session, which does not hear of a shutdown.
Barred == At("participant", "reconnect") /\ rival

\* run_until, "Run until cancellation": a shutdown ends the process.  One that is shut
\* down and never answers is a participant that re-registers while another process
\* keeps the live key for good.
ShutdownEnds == <>[](shutdown /\ answer = "none") => <>[]Barred

=============================================================================
