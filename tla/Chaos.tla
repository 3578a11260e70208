------------------------------- MODULE Chaos -------------------------------
(***************************************************************************)
(* The chaos driver (tools/clustodian-chaos): SeededGenerator makes a      *)
(* trace of actions and faults, execute_trace carries it out with a        *)
(* ProcessSupervisor that owns the real processes, and crash_matrix and    *)
(* quorum_loss carry out fixed scripts with the same supervisor.           *)
(*                                                                         *)
(* A trace does not depend on its execution, so the model generates it     *)
(* step by step as execute_trace consumes it: "queue" holds the part that  *)
(* is generated and not yet carried out, and the random choices are free.  *)
(* "machine" is what is true of the processes, proxies and etcd members,   *)
(* "sup" what the supervisor has noted of them.  The cluster under test is *)
(* only the registrations of its processes; deadlines expire when nothing  *)
(* is left that could still change what the driver waits for.              *)
(***************************************************************************)
EXTENDS Integers, Sequences

CONSTANTS
  ControllerIds, InitialIds,  \* default_config: controllers and participants, in order
  Node1, Node4, Node5,        \* the ids generate names
  ControllerA, ControllerC,
  Paths,                      \* etcd proxies of one process
  PrSteps, NightlySteps       \* bound: steps of a generated trace

Controllers == {ControllerIds[k] : k \in DOMAIN ControllerIds}
Participants == {InitialIds[k] : k \in DOMAIN InitialIds}

ChaosAssumption ==
  /\ ControllerIds \in Seq(STRING) /\ InitialIds \in Seq(STRING) /\ Node5 \in STRING
  /\ {Node1, Node4} \subseteq Participants /\ {ControllerA, ControllerC} \subseteq Controllers
  /\ Paths \in Nat /\ PrSteps \in Nat /\ NightlySteps \in Nat

VARIABLES
  profile,  \* what is carried out
  plan,     \* SeededGenerator: next step and crashes planned so far
  queue,    \* actions generated and not yet done, with the fault that precedes each
  budget,   \* FaultBudget
  config,   \* current_config.participants
  sup,      \* ProcessSupervisor: expected, suspended, active_toxics
  files,    \* callback file of node-1 and failpoints file, and fault hits
  machine,  \* processes, frozen processes, toxics, registrations, etcd members, and
            \* whether the toxiproxy and etcd commands may fail
  broken,   \* a replica of node-1 is in ERROR under its last session
  ex        \* execute_trace: control, active_faults, first error, result

chaosVars == <<profile, plan, queue, budget, config, sup, files, machine, broken, ex>>

ParticipantIds == Participants \union {Node5}
Ids == Controllers \union ParticipantIds
None == [kind |-> "none"]

------------------------------------------------------------------------------
(* Traces.                                                                  *)

Do(op, id) == [op |-> op, id |-> id, fault |-> None]
Plain(op) == Do(op, Node1)

Each(op, ids) == [k \in DOMAIN ids |-> Do(op, ids[k])]

Callback(mode) == [kind |-> "callback", mode |-> mode]
Network(id) == [kind |-> "network", id |-> id]
Fault(kind) == [kind |-> kind]

\* generated_fault: the matrix of a profile, in order, and again every 17th step.
FaultMatrix ==
  IF profile = "pr"
  THEN <<Callback("slow"), Callback("block"), Callback("repeated"), Callback("panic"),
         Fault("clock"), Fault("failpoint")>>
  ELSE <<Fault("compaction"), Callback("error"), Network(Node1), Fault("member"), Fault("clock"),
         Fault("failpoint"), Callback("block"), Network(ControllerA), Callback("panic"),
         Callback("repeated"), Network(Node1)>>

GeneratedFault(index) ==
  IF index < Len(FaultMatrix) THEN FaultMatrix[index + 1]
  ELSE IF index % 17 = 0 THEN FaultMatrix[(index % Len(FaultMatrix)) + 1]
  ELSE None

NeedsHit(fault) == fault.kind \in {"callback", "failpoint"}

\* The actions a step adds: its own, then a trigger for a surgical fault, which
\* is scheduled on the last of them, and a restart after a panic.
WithFault(actions, fault) ==
  LET triggered == actions \o (IF NeedsHit(fault) THEN <<Plain("modify"), Plain("modify")>> ELSE <<>>)
  IN  [triggered EXCEPT ![Len(triggered)].fault = fault]
        \o (IF fault = Callback("panic") THEN <<Do("restart", Node1)>> ELSE <<>>)

Steps == IF profile = "pr" THEN PrSteps ELSE NightlySteps
FailureLimit == IF profile = "pr" THEN 3 ELSE 8

RandomSteps ==
  {<<Plain(op)>> : op \in {"wait", "quiesce", "converge", "throttle", "modify"}}
    \union {<<Do("add", Node5)>>, <<Do("remove", Node5)>>}
    \union {<<Do("start", id)>> : id \in Participants}

\* One step of the loop of generate.
Generate ==
  /\ queue = <<>> /\ profile \in {"pr", "nightly"} /\ plan.index < Steps
  /\ LET index == plan.index
         controller == index % 13 = 0 /\ plan.controllers < FailureLimit
         participant == ~controller /\ index % 7 = 0 /\ plan.participants < FailureLimit
     IN  /\ plan' = [index |-> index + 1,
                     controllers |-> plan.controllers + IF controller THEN 1 ELSE 0,
                     participants |-> plan.participants + IF participant THEN 1 ELSE 0]
         /\ \E actions \in
              IF controller THEN {<<Do("crash", id), Do("restart", id)>> : id \in Controllers}
              ELSE IF participant THEN {<<Do("crash", id), Do("restart", id)>> : id \in Participants}
              ELSE RandomSteps :
                queue' = WithFault(actions, GeneratedFault(index))
  /\ UNCHANGED <<profile, budget, config, sup, files, machine, broken, ex>>

\* What generate puts before its loop.
Startup == Each("start", ControllerIds) \o Each("start", InitialIds) \o <<Plain("wait"), Plain("create")>>

\* run_crash_case at a point of the controller.
CrashController ==
  Each("start", InitialIds)
    \o <<Plain("wait"), Plain("create"), Plain("arm"), Do("start", ControllerA),
         Do("exit", ControllerA), Plain("hit"), Plain("disarm"), Do("start", ControllerA),
         Plain("settle")>>

\* run_crash_case at a point of the participant: a change of the resource leads to a
\* point of transition work, the start of node-1 to the other points.
CrashParticipant(trigger) ==
  Each("start", SelectSeq(InitialIds, LAMBDA id : id # Node1))
    \o <<Plain("wait"), Plain("create"), Do("start", ControllerA), Plain("settle"), Plain("arm"),
         trigger, Do("exit", Node1), Plain("hit"), Plain("disarm"), Do("start", Node1),
         Plain("settle")>>

\* quorum_loss.
QuorumLoss ==
  Each("start", InitialIds) \o Each("start", ControllerIds)
    \o <<Plain("wait"), Plain("create"), Plain("settle"), Plain("member down"), Plain("member down"),
         Plain("wait"), Plain("probe"), Plain("member up"), Plain("recover"), Plain("member up"),
         Plain("recover"), Plain("settle")>>

Prelude ==
  CASE profile = "scale" -> Startup \o <<Plain("converge"), Plain("idle")>>
    [] profile \in {"pr", "nightly"} ->
         Startup \o <<Do("stop", Node4), Do("restart", Node4), Do("stop", ControllerC),
                      Do("restart", ControllerC), Plain("converge")>>
    [] profile = "crash controller" -> CrashController
    [] profile = "crash startup" -> CrashParticipant(Do("start", Node1))
    [] profile = "crash working" -> CrashParticipant(Plain("modify"))
    [] profile = "quorum loss" -> QuorumLoss

Traces == {"pr", "nightly", "scale"}
Scripts == {"crash controller", "crash startup", "crash working", "quorum loss"}

\* default_budget.
DefaultBudget ==
  IF profile = "pr"
  THEN [etcd |-> 0, controller |-> 3, participant |-> 3, network |-> 2, clock |-> 2]
  ELSE [etcd |-> 3, controller |-> 8, participant |-> 8, network |-> 8, clock |-> 2]

\* FaultBudget::admit and admit_action: the counter a fault or an action uses.
FaultCounter(fault) ==
  CASE fault.kind \in {"member", "compaction"} -> {"etcd"}
    [] fault.kind = "network" -> {"network"}
    [] fault.kind = "clock" -> {"clock"}
    [] OTHER -> {}

ActionCounter(action) ==
  IF profile \in Traces /\ action.op \in {"stop", "crash"}
  THEN {IF action.id \in Controllers THEN "controller" ELSE "participant"} ELSE {}

Admitted(counters) == \A c \in counters : budget[c] > 0
Spend(counters) == [c \in DOMAIN budget |-> budget[c] - IF c \in counters THEN 1 ELSE 0]

------------------------------------------------------------------------------
(* Processes.                                                               *)

Proxies(id) == {id} \X (1 .. Paths)
Cut(id) == Proxies(id) \subseteq machine.toxics
Quorum == machine.members >= 2
Reachable(id) == id \in machine.running \ machine.frozen /\ ~Cut(id)

\* The registrations no longer change by themselves.
Settled ==
  Quorum /\ \A id \in Ids : machine.live[id] = IF Reachable(id) THEN "current" ELSE "none"

Gone(live, id) == [live EXCEPT ![id] = IF @ = "current" THEN "old" ELSE @]

\* start_controller, start_participant.
Start(id) ==
  /\ machine' = [machine EXCEPT !.running = @ \union {id}]
  /\ sup' = IF id \in machine.running THEN sup ELSE [sup EXCEPT !.expected = @ \union {id}]

\* A participant process revokes its session when it hears SIGTERM; a controller
\* process just ends.
RevokesOnTerm(id) == id \in ParticipantIds /\ Reachable(id) /\ Quorum

\* stop_child.
Stopped(id, graceful) ==
  [machine EXCEPT !.running = @ \ {id}, !.frozen = @ \ {id},
     !.live = IF graceful /\ RevokesOnTerm(id) THEN [@ EXCEPT ![id] = "none"] ELSE Gone(@, id)]

\* stop_controller, stop_participant, crash_controller, crash_participant.
Stop(id, graceful) ==
  /\ machine' = Stopped(id, graceful)
  /\ sup' = [sup EXCEPT !.expected = @ \ {id}]

\* The stop and the start of a restart; an unknown participant is only stopped.
RestartProcess(id) ==
  IF id \in ParticipantIds \ config THEN Stop(id, TRUE)
  ELSE /\ machine' = [Stopped(id, TRUE) EXCEPT !.running = @ \union {id}]
       /\ sup' = [sup EXCEPT !.expected = @ \union {id}]

\* suspend_participant.
Suspend(id) ==
  IF id \in machine.running
  THEN /\ machine' = [machine EXCEPT !.frozen = @ \union {id}]
       /\ sup' = [sup EXCEPT !.suspended = @ \union {id}]
  ELSE UNCHANGED <<machine, sup>>

\* resume_all.
ResumeAll ==
  /\ machine' = [machine EXCEPT !.frozen = @ \ sup.suspended]
  /\ sup' = [sup EXCEPT !.suspended = {}]

\* The processes that pass the armed failpoint, and abort there: the ones that
\* start, or, at a point of transition work, a participant that has work.  The short
\* time until a process has read the failpoints file is left out.
Aborts(id) ==
  /\ files.failpoint = "armed" /\ Reachable(id)
  /\ CASE profile = "crash controller" -> id \in Controllers /\ machine.live[id] # "current"
       [] profile = "crash startup" -> id \in ParticipantIds /\ machine.live[id] # "current"
       [] OTHER -> id \in ParticipantIds /\ machine.live[id] = "current" /\ Head(queue).op # "modify"

Abort(id) ==
  /\ queue # <<>> /\ Aborts(id)
  /\ \E registered \in {"none", "old"} :
       machine' = [machine EXCEPT !.running = @ \ {id}, !.live[id] = registered]
  /\ files' = [files EXCEPT !.hits = TRUE]
  /\ UNCHANGED <<profile, plan, queue, budget, config, sup, ex, broken>>

\* The cluster under test: a process registers when its last session is gone, and
\* a session ends when its process no longer keeps it alive.
Register(id) ==
  /\ Quorum /\ Reachable(id) /\ machine.live[id] = "none"
  /\ queue # <<>> => ~Aborts(id)
  /\ machine' = [machine EXCEPT !.live[id] = "current"]
  /\ broken' = (broken /\ id # Node1)
  /\ UNCHANGED <<profile, plan, queue, budget, config, sup, files, ex>>

Expire(id) ==
  /\ Quorum
  /\ machine.live[id] = "old" \/ (machine.live[id] = "current" /\ ~Reachable(id))
  /\ machine' = [machine EXCEPT !.live[id] = "none"]
  /\ UNCHANGED <<profile, plan, queue, budget, config, sup, files, ex, broken>>

------------------------------------------------------------------------------
(* Faults.  A fault is active from just before its action to just after it. *)

\* active_faults is a stack.
Latest(faults) == faults[Len(faults)]
Earlier(faults) == SubSeq(faults, 1, Len(faults) - 1)

End(result) == ex' = [ex EXCEPT !.pc = "end", !.result = result]

\* activate_fault of a network fault: the toxic goes on path after path; when one
\* fails, the ones before it are taken off again, as far as that works.
ActivateNetwork(fault) ==
  \/ /\ machine' = [machine EXCEPT !.toxics = @ \union Proxies(fault.id)]
     /\ sup' = [sup EXCEPT !.toxics = @ \union Proxies(fault.id)]
     /\ ex' = [ex EXCEPT !.active = Append(@, fault)]
  \/ /\ machine.faulty
     /\ \E left \in SUBSET ({fault.id} \X (1 .. Paths - 1)) :
          machine' = [machine EXCEPT !.toxics = @ \union left]
     /\ sup' = [sup EXCEPT !.toxics = @ \ Proxies(fault.id)]
     /\ End("error")

\* activate_fault.  The etcd faults are over when it returns; the other ones are
\* pushed on active_faults.
Activate(fault) ==
  \/ fault.kind = "network" /\ ActivateNetwork(fault) /\ UNCHANGED files
  \/ /\ fault.kind \in {"member", "compaction"}
     /\ \/ UNCHANGED ex
        \/ machine.faulty /\ End("error")
     /\ UNCHANGED <<sup, machine, files>>
  \/ /\ fault.kind = "clock" /\ Suspend(Node1)
     /\ ex' = [ex EXCEPT !.active = Append(@, fault)]
     /\ UNCHANGED files
  \/ /\ NeedsHit(fault)
     /\ files' = IF fault.kind = "callback" THEN [files EXCEPT !.callback = fault.mode]
                 ELSE [files EXCEPT !.failpoint = "set"]
     /\ ex' = [ex EXCEPT !.active = Append(@, fault)]
     /\ UNCHANGED <<sup, machine>>

\* The loop of execute_trace over the faults of the next action; a fault the
\* budget rejects is passed over.
NextFault ==
  /\ ex.pc = "next" /\ queue # <<>> /\ Head(queue).fault # None
  /\ LET fault == Head(queue).fault IN
     IF Admitted(FaultCounter(fault))
     THEN budget' = Spend(FaultCounter(fault)) /\ Activate(fault)
     ELSE UNCHANGED <<budget, sup, machine, files, ex>>
  /\ queue' = [queue EXCEPT ![1].fault = None]
  /\ UNCHANGED <<profile, plan, config, broken>>

\* A replica of node-1 is in ERROR.
Failed == broken /\ machine.live[Node1] # "none"

\* assert_fault_hit: the application or the failpoint was reached while the fault
\* was active.  The cluster under test is prompt, so that it is reached when a
\* registered process can reach it, but a replica in ERROR has no transitions.
Reached(fault) ==
  CASE fault.kind = "callback" -> Reachable(Node1) /\ machine.live[Node1] = "current"
    [] fault.kind = "failpoint" -> \E id \in Ids : Reachable(id) /\ machine.live[id] = "current"
    [] OTHER -> TRUE

ReachedOrMissed(fault) ==
  {Reached(fault)} \union (IF fault.kind = "callback" /\ Failed THEN {FALSE} ELSE {})

\* The modes in which the handler of node-1 returns an error.
HandlerError(fault) == fault \in {Callback("error"), Callback("repeated")}

\* A mutant of Cleanup: the callback mode of node-1 stays.
CleanupCallback ==
  /\ ex.pc = "cleanup" /\ ex.active # <<>>
  /\ ex' = [ex EXCEPT !.active = Earlier(@)]
  /\ CASE Latest(ex.active).kind = "network" ->
            /\ machine' = [machine EXCEPT !.toxics = {}] /\ sup' = [sup EXCEPT !.toxics = {}]
            /\ UNCHANGED files
       [] Latest(ex.active).kind = "clock" -> ResumeAll /\ UNCHANGED files
       [] OTHER -> files' = [files EXCEPT !.failpoint = "off"] /\ UNCHANGED <<machine, sup>>
  /\ UNCHANGED <<profile, plan, queue, budget, config, broken>>

\* deactivate_fault of the last active fault, then assert_fault_hit.  The first
\* error is kept; after a rejected action it ends the trace at once.
Cleanup ==
  /\ ex.pc = "cleanup" /\ ex.active # <<>>
  /\ LET fault == Latest(ex.active)
         Popped(error) ==
           IF error = "none" \/ ~ex.skip
           THEN ex' = [ex EXCEPT !.active = Earlier(@), !.error = IF @ = "none" THEN error ELSE @]
           ELSE ex' = [ex EXCEPT !.active = Earlier(@), !.pc = "end", !.result = error]
     IN  CASE fault.kind = "network" ->
                /\ UNCHANGED <<files, broken>>
                /\ \/ /\ machine' = [machine EXCEPT !.toxics = @ \ Proxies(fault.id)]
                      /\ sup' = [sup EXCEPT !.toxics = @ \ Proxies(fault.id)]
                      /\ Popped("none")
                   \/ /\ machine.faulty
                      /\ \E failed \in 1 .. Paths :
                           /\ machine' = [machine EXCEPT
                                            !.toxics = @ \ ({fault.id} \X (1 .. failed - 1))]
                           /\ sup' = [sup EXCEPT !.toxics = @ \ ({fault.id} \X (1 .. failed))]
                      /\ Popped("error")
           [] fault.kind = "clock" -> ResumeAll /\ UNCHANGED <<files, broken>> /\ Popped("none")
           [] OTHER -> \E reached \in ReachedOrMissed(fault) :
                /\ files' = IF fault.kind = "callback" THEN [files EXCEPT !.callback = "immediate"]
                            ELSE [files EXCEPT !.failpoint = "off"]
                /\ IF reached /\ fault = Callback("panic")
                   THEN machine' = Stopped(Node1, FALSE) ELSE UNCHANGED machine
                /\ UNCHANGED sup
                /\ broken' = (broken \/ (reached /\ HandlerError(fault)))
                /\ Popped(IF reached THEN "none" ELSE "unreached")
  /\ UNCHANGED <<profile, plan, queue, budget, config>>

------------------------------------------------------------------------------
(* Actions.                                                                 *)

Advance == queue' = Tail(queue)

\* The action is done, with or without an error; its faults are undone next.
Finish(error) == Advance /\ ex' = [ex EXCEPT !.pc = "cleanup", !.error = error]

\* An action the budget rejects is skipped, and so are the checks after it.
RejectAction ==
  /\ ex.pc = "next" /\ queue # <<>> /\ Head(queue).fault = None
  /\ ~Admitted(ActionCounter(Head(queue)))
  /\ Advance
  /\ ex' = [ex EXCEPT !.pc = "cleanup", !.skip = TRUE]
  /\ UNCHANGED <<profile, plan, budget, config, sup, files, machine, broken>>

\* apply_action, for the actions that do not wait for the cluster.
Process(action) ==
  \/ /\ action.op = "start"
     /\ IF action.id \in ParticipantIds \ config
        THEN UNCHANGED <<machine, sup>> /\ Finish("error")
        ELSE Start(action.id) /\ Finish("none")
     /\ UNCHANGED <<config, files>>
  \/ /\ action.op = "restart" /\ RestartProcess(action.id)
     /\ Finish(IF action.id \in ParticipantIds \ config THEN "error" ELSE "none")
     /\ UNCHANGED <<config, files>>
  \/ /\ action.op \in {"stop", "crash"} /\ Stop(action.id, action.op = "stop")
     /\ Finish("none") /\ UNCHANGED <<config, files>>
  \/ /\ action.op = "add" /\ Start(action.id) /\ config' = config \union {action.id}
     /\ Finish("none") /\ UNCHANGED files
  \/ /\ action.op = "remove" /\ Stop(action.id, TRUE) /\ config' = config \ {action.id}
     /\ Finish("none") /\ UNCHANGED files
  \/ /\ action.op \in {"create", "modify", "throttle", "wait"}
     /\ Finish("none") /\ UNCHANGED <<config, files, machine, sup>>

\* A mutant of SetFailpoint: the failpoint stays armed.
SetFailpointForGood(action) ==
  /\ action.op \in {"arm", "disarm"}
  /\ files' = [files EXCEPT !.failpoint = "armed"]
  /\ Finish("none") /\ UNCHANGED <<machine, sup>>

\* set_failpoint.
SetFailpoint(action) ==
  /\ action.op \in {"arm", "disarm"}
  /\ files' = [files EXCEPT !.failpoint = IF action.op = "arm" THEN "armed" ELSE "off"]
  /\ Finish("none") /\ UNCHANGED <<machine, sup>>

\* assert_named_fault_hit.
AssertNamedFaultHit(action) ==
  /\ action.op = "hit" /\ Finish(IF files.hits THEN "none" ELSE "unreached")
  /\ UNCHANGED <<files, machine, sup>>

\* control_etcd_member.
ControlEtcdMember(action) ==
  /\ action.op \in {"member down", "member up"}
  /\ \/ /\ machine' = [machine EXCEPT !.members = @ + IF action.op = "member up" THEN 1 ELSE -1]
        /\ Finish("none")
     \/ machine.faulty /\ Finish("error") /\ UNCHANGED machine
  /\ UNCHANGED <<files, sup>>

ScriptStep(action) == SetFailpoint(action) \/ AssertNamedFaultHit(action) \/ ControlEtcdMember(action)

Apply ==
  /\ ex.pc = "next" /\ queue # <<>> /\ Head(queue).fault = None
  /\ Admitted(ActionCounter(Head(queue)))
  /\ \/ Process(Head(queue))
     \/ ScriptStep(Head(queue)) /\ UNCHANGED config
  /\ budget' = Spend(ActionCounter(Head(queue)))
  /\ UNCHANGED <<profile, plan, broken>>

Waiting(ops) == ex.pc = "next" /\ queue # <<>> /\ Head(queue).fault = None /\ Head(queue).op \in ops

\* expected_processes_healthy and expected_controller_membership_healthy.
ExpectedHealthy == \A id \in sup.expected : id \in machine.running /\ machine.live[id] # "none"

\* QuiescenceInputs::is_quiescent over what wait_for_quiescence reads.
Quiescent ==
  /\ sup.suspended = {} /\ sup.toxics = {} /\ files.callback # "block"
  /\ \E id \in Controllers : machine.live[id] # "none"
  /\ ExpectedHealthy

\* One round of wait_for_quiescence: it is over when two rounds in a row, the
\* stability interval apart, are quiescent; "caught" is observer_caught_up.
PollQuiescence ==
  /\ Waiting({"quiesce", "converge"}) /\ ~ex.quiet /\ Quorum
  /\ \E caught \in BOOLEAN :
       IF Quiescent /\ caught
       THEN IF ex.stable
            THEN /\ IF Head(queue).op = "quiesce" THEN Finish("none")
                    ELSE ex' = [ex EXCEPT !.quiet = TRUE] /\ UNCHANGED queue
                 /\ UNCHANGED <<machine, sup>>
            ELSE ex' = [ex EXCEPT !.stable = TRUE] /\ UNCHANGED <<queue, machine, sup>>
       ELSE ex' = [ex EXCEPT !.stable = FALSE] /\ ResumeAll /\ UNCHANGED queue
  /\ UNCHANGED <<profile, plan, budget, config, files, broken>>

\* The deadline of wait_for_quiescence.
QuiescenceTimeout ==
  /\ Waiting({"quiesce", "converge"}) /\ ~ex.quiet
  /\ Settled /\ ~Quiescent /\ sup.suspended = {}
  /\ Finish("error")
  /\ UNCHANGED <<profile, plan, budget, config, sup, files, machine, broken>>

\* assert_idle: its window must see no registration.
IdleWindow == Settled

\* wait_for_crash_exit.
Exited(id) == id \notin machine.running

\* wait_for_observer_recovery.
Recovered == Quorum

\* check_convergence in the end: a controller works, and the external view shows no
\* replica in ERROR, which BestPossibleState never asks for.
Converges == (\E id \in Controllers : machine.live[id] # "none") /\ ~Failed

\* wait_for_convergence in a trace comes once the cluster is quiet.
WaitOver(action) ==
  CASE action.op = "converge" -> ex.quiet /\ Quorum /\ Converges
    [] action.op = "settle" -> Quorum /\ Converges
    [] action.op = "idle" -> IdleWindow
    [] action.op = "exit" -> Exited(action.id)
    [] action.op = "probe" -> TRUE
    [] action.op = "recover" -> Recovered

EndWait ==
  /\ Waiting({"converge", "settle", "idle", "exit", "probe", "recover"})
  /\ WaitOver(Head(queue))
  /\ Finish("none")
  /\ UNCHANGED <<profile, plan, budget, config, sup, files, machine, broken>>

\* Their deadlines, and the writes assert_idle objects to.
WaitTimeout ==
  /\ \/ Waiting({"converge", "settle"}) /\ (ex.quiet \/ Head(queue).op = "settle")
        /\ Settled /\ ~Converges
     \/ Waiting({"idle"}) /\ ~IdleWindow
     \/ Waiting({"exit"}) /\ Settled /\ ~Exited(Head(queue).id)
        /\ \A id \in Ids : ~Aborts(id)
     \/ Waiting({"recover"}) /\ ~Recovered
  /\ Finish("error")
  /\ UNCHANGED <<profile, plan, budget, config, sup, files, machine, broken>>

\* After the faults are undone: an error of the action or of the cleanup ends the
\* trace; otherwise check_safety and, after a convergence, check_convergence judge
\* a snapshot, unless the action was rejected or is one of a script.
Check ==
  /\ ex.pc = "cleanup" /\ ex.active = <<>>
  /\ \/ ex.error # "none" /\ End(ex.error)
     \/ /\ ex.error = "none" /\ (ex.skip \/ profile \in Scripts \/ Quorum)
        /\ ex' = [ex EXCEPT !.pc = "next", !.skip = FALSE, !.stable = FALSE, !.quiet = FALSE]
     \/ /\ ex.error = "none" /\ ~ex.skip /\ profile \in Traces
        /\ End("violation")
  /\ UNCHANGED <<profile, plan, queue, budget, config, sup, files, machine, broken>>

Complete ==
  /\ ex.pc = "next" /\ queue = <<>>
  /\ profile \in {"pr", "nightly"} => plan.index = Steps
  /\ End("ok")
  /\ UNCHANGED <<profile, plan, queue, budget, config, sup, files, machine, broken>>

------------------------------------------------------------------------------
ChaosInit ==
  /\ profile \in Traces \union Scripts
  /\ plan = [index |-> 0, controllers |-> 0, participants |-> 0]
  /\ queue = Prelude
  /\ budget = DefaultBudget
  /\ config = Participants
  /\ sup = [expected |-> {}, suspended |-> {}, toxics |-> {}]
  /\ files = [callback |-> "immediate", failpoint |-> "off", hits |-> FALSE]
  /\ \E faulty \in IF profile \in {"nightly", "quorum loss"} THEN BOOLEAN ELSE {FALSE} :
       machine = [running |-> {}, frozen |-> {}, toxics |-> {}, live |-> [id \in Ids |-> "none"],
                  members |-> 3, faulty |-> faulty]
  /\ broken = FALSE
  /\ ex = [pc |-> "next", active |-> <<>>, error |-> "none", skip |-> FALSE, stable |-> FALSE,
           quiet |-> FALSE, result |-> "none"]

ChaosNext ==
  \/ Generate \/ NextFault \/ RejectAction \/ Apply \/ PollQuiescence \/ QuiescenceTimeout
  \/ EndWait \/ WaitTimeout \/ Cleanup \/ Check \/ Complete
  \/ \E id \in Ids : Register(id) \/ Expire(id) \/ Abort(id)

ChaosSpec == ChaosInit /\ [][ChaosNext]_chaosVars

------------------------------------------------------------------------------
(* Properties.                                                              *)

\* "Faults remain active through the action they precede and are cleaned up
\* afterward": when execute_trace turns to an action and none of its faults is active
\* yet, or a trace ends well, nothing of an earlier fault is left on the machine: no
\* toxic on a proxy, no frozen process, no callback mode, no failpoint.
FaultsAreScoped ==
  (profile \in Traces /\ (ex.result = "ok" \/ (ex.pc = "next" /\ ex.active = <<>>)))
    => /\ machine.toxics = {} /\ machine.frozen = {}
       /\ files.callback = "immediate" /\ files.failpoint = "off"

\* A cluster that registers its processes and reaches its failpoints does not make
\* the driver fail: without tool failures, a generated pull-request trace, a scale
\* trace, the crash windows at startup and the quorum-loss script never end with a
\* deadline, an idle window that saw a write or an unknown participant; nor, as long
\* as the generator goes through its fault matrix for the first time, with a fault
\* boundary nobody reached.  An exception is the handler error of the matrix itself:
\* from it to the next session of node-1, its replica stays in ERROR, so that a
\* convergence is awaited in vain and a callback fault may not be reached.
HealthyClusterPasses ==
  (~machine.faulty /\ profile \notin {"nightly", "crash working"} /\ ~Failed)
    => /\ ex.result # "error"
       /\ ex.result = "unreached" => plan.index > 17

=============================================================================
