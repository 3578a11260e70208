------------------------------- MODULE Planner -------------------------------
(***************************************************************************)
(* The controller's planning pipeline, from one coordination snapshot and  *)
(* the pending queue to the next queue and ExternalView:                   *)
(*                                                                         *)
(*   active CurrentState -> preference lists -> retained pending           *)
(*     -> best possible state -> next hops -> selection -> dispatch        *)
(*                                                                         *)
(* A snapshot is a record with the fields                                  *)
(*   revision, auth        store revision and authoritative revision       *)
(*   live, states          live session (0: none) and its CurrentState,    *)
(*                         by instance                                     *)
(*   configured, placement instance configs and resource record            *)
(*   queue, queueRev       pending-transitions key and its mod revision    *)
(*   view, processed       the other two controller outputs                *)
(* Resources are flattened into their partitions.                          *)
(***************************************************************************)
EXTENDS LeaderStandby, Naturals, Sequences, Functions

CONSTANTS
  Instances,                \* participant names
  Partitions,               \* resource/partition names
  Placements,               \* resource records an administrator may write
  Crush,                    \* the ones of kind CRUSH
  Throttled,                \* whether transition throttles are configured
  NoList,                   \* a partition the placement does not mention
  PreferenceLists(_, _, _)  \* placement, configured, live -> preference lists

ASSUME InstanceAssumption == ABSENT \notin Instances

ASSUME CrushAssumption == Crush \subseteq Placements

\* SEMI_AUTO ignores its last two arguments; CRUSH hashes over them.
ASSUME ListAssumption ==
  \A r \in Placements, C \in SUBSET Instances, L \in SUBSET Instances :
    PreferenceLists(r, C, L) \in [Partitions -> {NoList} \cup Seq(Instances)]

ASSUME ThrottleAssumption == Throttled \in BOOLEAN

Modes == {"Startup", "Normal", "SessionReplacement"}

-----------------------------------------------------------------------------
LiveInstances(S) == {i \in Instances : S.live[i] # 0}

\* CurrentState of the configured live instances.
ActiveCurrentState(S, p, i) == IF i \in S.configured THEN S.states[i][p] ELSE ABSENT

HasCurrent(S, p) == \E i \in Instances : ActiveCurrentState(S, p, i) # ABSENT

\* compute_crush_assignment refuses an empty configuration and a live
\* instance that is not configured.
PlacementFails(S) ==
  /\ S.placement \in Crush
  /\ \/ S.configured = {}
     \/ ~(LiveInstances(S) \subseteq S.configured)

PreferenceList(S, p) ==
  PreferenceLists(S.placement, S.configured, LiveInstances(S))[p]

Preferred(S, p, i) ==
  PreferenceList(S, p) # NoList /\ i \in Range(PreferenceList(S, p))

\* normalize_current: a live preferred replica without state is OFFLINE.
PlanningState(S, p, i) ==
  IF ActiveCurrentState(S, p, i) = ABSENT /\ i \in LiveInstances(S) /\ Preferred(S, p, i)
  THEN InitialState
  ELSE ActiveCurrentState(S, p, i)

-----------------------------------------------------------------------------
\* The live part of the preference list, in its order.
Candidates(S, p) == SelectSeq(PreferenceList(S, p), LAMBDA i : i \in LiveInstances(S))

\* The first candidate leads when it is alone or already a leader or standby;
\* otherwise the candidate of best state does, earlier in the list on a tie.
BestLeader(S, p) ==
  LET c == Candidates(S, p)
      rank(k) == StatePriority(PlanningState(S, p, c[k]))
      best == CHOOSE k \in DOMAIN c :
                \A j \in DOMAIN c : rank(k) < rank(j) \/ (rank(k) = rank(j) /\ k <= j)
  IN IF Len(c) = 1 \/ PlanningState(S, p, c[1]) \in {"LEADER", "STANDBY"} THEN c[1] ELSE c[best]

\* compute_semi_auto_best_possible_state, for a replica with a planning state.
BestPossibleState(S, p, i) ==
  CASE ~Preferred(S, p, i)     -> "DROPPED"
    [] i = BestLeader(S, p)    -> "LEADER"
    [] OTHER                   -> "STANDBY"

NextHop(S, p, i) == NextStateToward(PlanningState(S, p, i), BestPossibleState(S, p, i))

\* generate_transitions: one hop for every replica that is not where it should
\* be and has a way to get there.
TransitionRequests(S) ==
  { [part |-> r[1], inst |-> r[2], from |-> PlanningState(S, r[1], r[2]), to |-> NextHop(S, r[1], r[2])] :
      r \in { q \in Partitions \X Instances :
                PlanningState(S, q[1], q[2]) # ABSENT /\ NextHop(S, q[1], q[2]) # NoState } }

-----------------------------------------------------------------------------
\* retain_pending: a message stays while its session is live, its partition is
\* known and its source state has not been left; after a session replacement
\* it must also fit the placement.
RetainPending(S, pending, mode) ==
  { m \in pending :
      /\ S.live[m.inst] = m.sess
      /\ PreferenceList(S, m.part) # NoList \/ HasCurrent(S, m.part)
      /\ mode = "SessionReplacement" =>
           (Preferred(S, m.part, m.inst) <=> m.to \notin {"OFFLINE", "DROPPED"})
      /\ ActiveCurrentState(S, m.part, m.inst) \in {m.from, ABSENT} }

\* operational_pending_for_plans: the retained messages that reserve capacity.
OperationalPending(S, pending, mode) ==
  { m \in RetainPending(S, pending, mode) :
      mode = "SessionReplacement" =>
        Preferred(S, m.part, m.inst) \/ PreferenceList(S, m.part) = NoList }

IsDropPath(from, to) == NextStateToward(from, "DROPPED") = to

\* select_transitions refuses pending work of an unlisted partition that is
\* not on the way to DROPPED.
UnknownPendingPartition(S, pending, mode) ==
  \E m \in OperationalPending(S, pending, mode) :
    PreferenceList(S, m.part) = NoList /\ ~IsDropPath(m.from, m.to)

\* select_transitions refuses two pending transitions of one replica.
DuplicatePending(S, pending, mode) ==
  \E m, n \in OperationalPending(S, pending, mode) :
    m # n /\ m.part = n.part /\ m.inst = n.inst

PlanFails(S, pending, mode) ==
  \/ PlacementFails(S)
  \/ UnknownPendingPartition(S, pending, mode)
  \/ DuplicatePending(S, pending, mode)

\* Mutant: only pending transitions count, current leaders do not.
UncountedSlotFree(S, pending, mode, p) ==
  \A m \in OperationalPending(S, pending, mode) :
    m.part = p => "LEADER" \notin {m.from, m.to}

\* LEADER is the only bounded state; a pending transition counts at both ends.
LeaderSlotFree(S, pending, mode, p) ==
  /\ \A i \in LiveInstances(S) : PlanningState(S, p, i) # "LEADER"
  /\ \A m \in OperationalPending(S, pending, mode) :
       m.part = p => "LEADER" \notin {m.from, m.to}

SelectTransitions(S, pending, mode) ==
  { t \in TransitionRequests(S) :
      t.to = "LEADER" => LeaderSlotFree(S, pending, mode, t.part) }

\* compute_intermediate_and_throttle only ever withholds selected transitions;
\* startup runs without throttles.
Dispatches(S, pending, mode) ==
  IF Throttled /\ mode # "Startup"
  THEN SUBSET SelectTransitions(S, pending, mode)
  ELSE {SelectTransitions(S, pending, mode)}

-----------------------------------------------------------------------------
SameTransition(m, t, session) ==
  /\ m.part = t.part /\ m.inst = t.inst /\ m.sess = session
  /\ m.from = t.from /\ m.to = t.to

\* A re-planned transition keeps the identity of the message it repeats; a new
\* one is named after the snapshot's revision (and its ordinal in the plan,
\* which the replica stands for here).
MessageFor(S, pending, t) ==
  LET session == S.live[t.inst]
      same == {m \in pending : SameTransition(m, t, session)}
  IN [ id   |-> IF same = {} THEN S.revision ELSE (CHOOSE m \in same : TRUE).id,
       part |-> t.part, inst |-> t.inst, sess |-> session, from |-> t.from, to |-> t.to ]

\* The queue a plan publishes for the transitions that passed the throttles.
NextPending(S, pending, mode, dispatched) ==
  LET kept == RetainPending(S, pending, mode)
      new  == {MessageFor(S, pending, t) :
                 t \in {u \in dispatched : u.inst \in LiveInstances(S)}}
  IN kept \cup {m \in new : \A k \in kept : ~(k.part = m.part /\ k.inst = m.inst)}

ExternalView(S) ==
  [p \in Partitions |-> [i \in Instances |-> ActiveCurrentState(S, p, i)]]

OutputsMatch(S, next) ==
  S.view = ExternalView(S) /\ S.queue = next /\ S.processed >= S.auth

=============================================================================
