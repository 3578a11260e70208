------------------------------ MODULE Pipeline ------------------------------
(***************************************************************************)
(* One controller after another planning with the stages of the code, over *)
(* participants that answer: what a sequence of planning cycles does to    *)
(* the queue and to the replicas.  A cycle and a completion are one step   *)
(* each; how they interleave is ControlPlane's subject.                    *)
(***************************************************************************)
EXTENDS Stages

CONSTANTS
  InitPlacement,
  MaxSession,    \* bound on the sessions of an instance
  MaxChanges     \* bound on the changes of placement and of controller

ASSUME PipelineAssumption ==
  /\ InitPlacement \in Placements
  /\ MaxSession \in Nat /\ MaxChanges \in Nat

VARIABLES
  up,         \* the instances with a live session
  session,    \* the latest session of each instance
  states,     \* and its CurrentState
  placement,
  queue,
  started,    \* the controller is past its startup cycle
  known,      \* the sessions it remembers
  changes

vars == <<up, session, states, placement, queue, started, known, changes>>

Messages ==
  [id : {0}, part : Partitions, inst : Instances, sess : 1..MaxSession,
   from : ReplicaStates, to : TargetStates]

TypeOK ==
  /\ up \subseteq Instances
  /\ session \in [Instances -> 0..MaxSession]
  /\ states \in [Instances -> [Partitions -> ReplicaStates \cup {ABSENT}]]
  /\ placement \in Placements
  /\ queue \subseteq Messages
  /\ started \in BOOLEAN
  /\ known \in [Instances -> 0..MaxSession]
  /\ changes \in 0..MaxChanges

NoReplicas == [p \in Partitions |-> ABSENT]

\* What the planner reads of the namespace.
Snapshot ==
  [ revision |-> 0, configured |-> Instances, placement |-> placement,
    live |-> [i \in Instances |-> IF i \in up THEN session[i] ELSE 0],
    states |-> [i \in Instances |-> IF i \in up THEN states[i] ELSE NoReplicas] ]

Init ==
  /\ up = {} /\ session = [i \in Instances |-> 0]
  /\ states = [i \in Instances |-> NoReplicas]
  /\ placement = InitPlacement /\ queue = {}
  /\ started = FALSE /\ known = [i \in Instances |-> 0]
  /\ changes = 0

-----------------------------------------------------------------------------
Mode ==
  CASE ~started -> "Startup"
    [] \E i \in up : known[i] \notin {0, session[i]} -> "SessionReplacement"
    [] OTHER -> "Normal"

NextQueue == NextPending(Snapshot, queue, Mode, ThrottledDispatch(Snapshot, queue, Mode))

\* remember_sessions
Remembered == [i \in Instances |-> IF i \in up THEN session[i] ELSE known[i]]

\* One reconciliation, published.
Cycle ==
  /\ UNCHANGED <<up, session, states, placement, changes>>
  /\ started' = TRUE
  /\ known' = Remembered
  /\ ~PlanFails(Snapshot, queue, Mode)
  /\ queue' = NextQueue

\* Another controller, or this one after a fatal error, starts over.
NewTerm ==
  /\ started /\ changes < MaxChanges
  /\ started' = FALSE /\ known' = [i \in Instances |-> 0]
  /\ changes' = changes + 1
  /\ UNCHANGED <<up, session, states, placement, queue>>

-----------------------------------------------------------------------------
Applicable(m) ==
  /\ m.inst \in up /\ m.sess = session[m.inst]
  /\ states[m.inst][m.part] = m.from \/ (states[m.inst][m.part] = ABSENT /\ m.from = InitialState)
  /\ NextStateToward(m.from, m.to) = m.to

\* Mutant: the message goes, the state stays.
CompleteUnreported(m) ==
  /\ m \in queue /\ Applicable(m)
  /\ queue' = queue \ {m}
  /\ UNCHANGED <<up, session, states, placement, started, known, changes>>

\* A participant runs a message to its end and completes it.
Complete(m) ==
  /\ m \in queue /\ Applicable(m)
  /\ states' = [states EXCEPT ![m.inst][m.part] = IF m.to = "DROPPED" THEN ABSENT ELSE m.to]
  /\ queue' = queue \ {m}
  /\ UNCHANGED <<up, session, placement, started, known, changes>>

\* It removes a message that no longer applies.
Cleanup(m) ==
  /\ m \in queue /\ m.inst \in up /\ ~Applicable(m)
  /\ queue' = queue \ {m}
  /\ UNCHANGED <<up, session, states, placement, started, known, changes>>

\* A session starts with the partitions of the previous one, OFFLINE.
Register(i) ==
  /\ i \notin up /\ session[i] < MaxSession
  /\ up' = up \cup {i}
  /\ session' = [session EXCEPT ![i] = @ + 1]
  /\ states' = [states EXCEPT ![i] =
                  [p \in Partitions |-> IF @[p] = ABSENT THEN ABSENT ELSE InitialState]]
  /\ UNCHANGED <<placement, queue, started, known, changes>>

\* A session ends; the last session an instance may have stays.
Expire(i) ==
  /\ i \in up /\ session[i] < MaxSession
  /\ up' = up \ {i}
  /\ UNCHANGED <<session, states, placement, queue, started, known, changes>>

PutResource(r) ==
  /\ r # placement /\ changes < MaxChanges
  /\ placement' = r /\ changes' = changes + 1
  /\ UNCHANGED <<up, session, states, queue, started, known>>

Next ==
  \/ Cycle \/ NewTerm
  \/ \E m \in queue : Complete(m) \/ Cleanup(m)
  \/ \E i \in Instances : Register(i) \/ Expire(i)
  \/ \E r \in Placements : PutResource(r)

Spec == Init /\ [][Next]_vars

\* A cycle would change nothing.
AtRest == PlanFails(Snapshot, queue, Mode) \/ (started /\ known = Remembered /\ queue = NextQueue)

-----------------------------------------------------------------------------
(* Properties, of a state, of a step and of a behaviour.                   *)

\* The loops of the code compute what Planner says in a line each.  The assignment
\* loop over queue and priorities gives one leader, chosen as there, and everyone else
\* a standby or on the way out (compute_semi_auto_best_possible_state); the greedy pass
\* takes what Planner's condition on the leader slot takes, although it counts as it goes
\* (select_transitions).
StagesMatchPlanner ==
  /\ \A p \in Partitions :
       SemiAuto(Snapshot, p) =
         [i \in {j \in Instances : PlanningState(Snapshot, p, j) # ABSENT} |->
            BestPossibleState(Snapshot, p, i)]
  /\ GreedySelection(Snapshot, queue, Mode) = SelectTransitions(Snapshot, queue, Mode)

InFlight(scope, messages) == {m \in messages : scope \in Scopes(m)}

\* "Only messages for the current session and current placement are allowed to
\* reserve capacity": a replica that lost its place reserves none after a
\* session was replaced, nor before its first transition.
Reserves(m) ==
  /\ PlanningState(Snapshot, m.part, m.inst) # ABSENT
  /\ Mode = "SessionReplacement" => Preferred(Snapshot, m.part, m.inst)

\* A cycle past startup adds a message only while the transitions in flight
\* that reserve capacity, those a startup cycle left behind included, are
\* within every limit it falls under (should_throttle, charge_pending).
NewWorkWithinLimits ==
  \A m \in queue' \ queue : \A q \in DOMAIN Quotas(Snapshot, Mode) :
    q[1] \in Scopes(m) /\ q[2] = "ANY" =>
      Cardinality({n \in InFlight(q[1], queue') : Reserves(n)}) <= Quotas(Snapshot, Mode)[q]

HasMessage(t, messages) == \E m \in messages : m.part = t.part /\ m.inst = t.inst

\* Nothing is withheld without need: after a cycle, a selected transition whose replica
\* has no message falls under a limit that the queue uses up; and a limit on load
\* balancing never holds up the LEADER a partition lacks (required_states, rebalance_type).
WorkConserving ==
  Cycle => \A t \in SelectTransitions(Snapshot, queue, Mode) :
    \/ HasMessage(t, queue')
    \/ \E q \in DOMAIN Quotas(Snapshot, Mode) :
         /\ q[1] \in Scopes(t) /\ (t.to = "LEADER" => q[2] # "LOAD_BALANCE")
         /\ Cardinality(InFlight(q[1], queue')) >= Quotas(Snapshot, Mode)[q]

\* Every replica is where it should be.
Settled == queue = {} /\ TransitionRequests(Snapshot) = {}

=============================================================================
