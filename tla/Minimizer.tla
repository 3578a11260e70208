----------------------------- MODULE Minimizer -----------------------------
(***************************************************************************)
(* The life of a failure the chaos driver found                            *)
(* (tools/clustodian-chaos/src/main.rs): run writes it into an artifact    *)
(* with the count of its replays, replay counts again, and minimize        *)
(* reduces its trace with the transformations of minimizer.rs.             *)
(*                                                                         *)
(* A trace is its initial configuration, its actions and its scheduled     *)
(* faults; indices count from 1.  Every action and fault carries a tag, by *)
(* which the environment decides whether executing a trace shows the       *)
(* failure, and a fault also the tag "at" of the action it was scheduled   *)
(* on; the code has neither.  Wording, seeds, work directories and         *)
(* artifact files are left out.                                            *)
(***************************************************************************)
EXTENDS Integers, Sequences, SequencesExt

CONSTANTS
  Original,  \* the trace run generated
  Failures,  \* what the failure may depend on
  Attempts   \* executions of a trace in a replay or in the test of a candidate

VARIABLES
  failure,      \* environment: what the failure depends on, and whether it is intermittent
  current,      \* the trace reduced so far
  before,       \* the trace at the start of the pass of minimize
  phase,        \* the command, and the step of minimize
  granularity,  \* of the two range reductions
  tested,       \* candidates of this round already tested
  expected,     \* FailureArtifact::invariant_failure
  stats         \* FailureArtifact::replay; while minimize runs, its original_stats

vars == <<failure, current, before, phase, granularity, tested, expected, stats>>

------------------------------------------------------------------------------
(* minimizer.rs.                                                            *)

\* A mutant of RemoveActionRange: faults after the range keep their index.
RemoveActionRangeUnmapped(trace, first, last) ==
  LET Kept(f) == f.index \notin first .. last IN
  [trace EXCEPT
     !.actions = SubSeq(@, 1, first - 1) \o SubSeq(@, last + 1, Len(@)),
     !.faults = SelectSeq(@, Kept)]

RemoveActionRange(trace, first, last) ==
  LET Kept(f) == f.index \notin first .. last
      faults == SelectSeq(trace.faults, Kept)
  IN  [trace EXCEPT
         !.actions = SubSeq(@, 1, first - 1) \o SubSeq(@, last + 1, Len(@)),
         !.faults = [i \in DOMAIN faults |->
                       [faults[i] EXCEPT !.index = @ - IF @ > last THEN last - first + 1 ELSE 0]]]

RemoveFaultRange(trace, first, last) ==
  [trace EXCEPT !.faults = SubSeq(@, 1, first - 1) \o SubSeq(@, last + 1, Len(@))]

\* lower_u64, lower_u32, lower_i64: division truncates towards zero.
Half(v) == IF v < 0 THEN -((-v) \div 2) ELSE v \div 2
Signum(v) == IF v < 0 THEN -1 ELSE IF v = 0 THEN 0 ELSE 1

LowerValues(v, one) ==
  LET reduced == <<Half(v), one, 0>>
      fresh == {i \in 1 .. 3 : reduced[i] # v /\ \A j \in 1 .. i - 1 : reduced[j] # reduced[i]}
  IN  [k \in 1 .. Cardinality(fresh) |->
         reduced[CHOOSE i \in fresh : Cardinality({j \in fresh : j <= i}) = k]]

Lower(fault, v) == LowerValues(v, IF fault.signed THEN Signum(v) ELSE 1)

\* reduce_fault: one scalar of the fault is lowered.
ReduceFault(trace, i) ==
  LET fault == trace.faults[i] IN
  FlattenSeq([s \in DOMAIN fault.values |->
    LET lower == Lower(fault, fault.values[s]) IN
    [k \in DOMAIN lower |-> [trace EXCEPT !.faults[i].values[s] = lower[k]]]])

Each(s, Image(_)) == [i \in DOMAIN s |-> Image(s[i])]

\* transform_actions: each action has become no action or one.
TransformActions(trace, transformed) ==
  LET kept == {i \in DOMAIN trace.actions : transformed[i] # <<>>}
      Rank(i) == Cardinality({j \in kept : j <= i})
      Scheduled(f) == f.index \in kept
      faults == SelectSeq(trace.faults, Scheduled)
  IN  [trace EXCEPT
         !.actions = FlattenSeq(transformed),
         !.faults = [i \in DOMAIN faults |-> [faults[i] EXCEPT !.index = Rank(@)]]]

Retain(s, Test(_)) == SelectSeq(s, Test)

\* action_controller_id and action_resource_id.
OfController(action, id) == action.op = "controller" /\ action.id = id

OfResource(action, name) ==
  \/ action.op = "create" /\ action.resource.name = name
  \/ action.op = "modify" /\ action.name = name

\* fault_controller_id and fault_participant_id.
OwnedBy(fault, id) == fault.owner = id

\* The controller step of reduce_cluster_and_resources.
RemoveController(trace, id) ==
  LET Keep(a) == IF OfController(a, id) THEN <<>> ELSE <<a>>
      Other(c) == c # id
      Elsewhere(f) == ~OwnedBy(f, id)
      reduced == TransformActions(trace, Each(trace.actions, Keep))
  IN  [reduced EXCEPT !.controllers = Retain(@, Other), !.faults = Retain(@, Elsewhere)]

\* prune_resource_participant.
PruneParticipant(resource, id) ==
  [resource EXCEPT !.lists = [p \in DOMAIN @ |-> @[p] \ {id}]]

RemoveParticipant(trace, id) ==
  LET Keep(a) ==
        CASE a.op = "participant" -> IF a.id = id THEN <<>> ELSE <<a>>
          [] a.op = "create" -> <<[a EXCEPT !.resource = PruneParticipant(@, id)]>>
          [] a.op = "modify" -> <<[a EXCEPT !.instances = @ \ {id}]>>
          [] OTHER -> <<a>>
      Other(p) == p # id
      Elsewhere(f) == ~OwnedBy(f, id)
  IN  [TransformActions(trace, Each(trace.actions, Keep)) EXCEPT
         !.participants = Retain(@, Other),
         !.resources = [i \in DOMAIN @ |-> PruneParticipant(@[i], id)],
         !.faults = Retain(@, Elsewhere)]

RemoveResource(trace, name) ==
  LET Keep(a) == IF OfResource(a, name) THEN <<>> ELSE <<a>>
      Other(r) == r.name # name
  IN  [TransformActions(trace, Each(trace.actions, Keep)) EXCEPT !.resources = Retain(@, Other)]

RemovePartition(trace, name, partition) ==
  LET Other(p) == p # partition
      Shrunk(r) ==
        IF r.name # name THEN r
        ELSE [r EXCEPT !.partitions = Retain(@, Other),
                       !.lists = [p \in DOMAIN @ \ {partition} |-> @[p]]]
      Keep(a) ==
        CASE a.op = "create" -> <<[a EXCEPT !.resource = Shrunk(@)]>>
          [] a.op = "modify" /\ a.name = name /\ a.partition = partition -> <<>>
          [] OTHER -> <<a>>
  IN  [TransformActions(trace, Each(trace.actions, Keep)) EXCEPT !.resources = [i \in DOMAIN @ |-> Shrunk(@[i])]]

SetResourceReplicas(trace, name, replicas) ==
  LET Sized(r) == IF r.name = name THEN [r EXCEPT !.replicas = replicas] ELSE r
      Resized(a) == IF a.op = "create" THEN [a EXCEPT !.resource = Sized(@)] ELSE a
  IN  [trace EXCEPT !.resources = [i \in DOMAIN @ |-> Sized(@[i])],
                    !.actions = [i \in DOMAIN @ |-> Resized(@[i])]]

ReduceClusterAndResources(trace) ==
  LET Unless(s, Candidate(_)) ==
        IF Len(s) > 1 THEN [i \in DOMAIN s |-> Candidate(s[i])] ELSE <<>>
      WithoutController(c) == RemoveController(trace, c)
      WithoutParticipant(p) == RemoveParticipant(trace, p)
      WithoutResource(r) == RemoveResource(trace, r.name)
      Smaller(r) ==
        LET WithoutPartition(p) == RemovePartition(trace, r.name, p) IN
        Unless(r.partitions, WithoutPartition)
          \o (IF r.replicas > 1 THEN <<SetResourceReplicas(trace, r.name, r.replicas \div 2)>>
              ELSE <<>>)
  IN  Unless(trace.controllers, WithoutController)
        \o Unless(trace.participants, WithoutParticipant)
        \o Unless(trace.resources, WithoutResource)
        \o FlattenSeq([i \in DOMAIN trace.resources |-> Smaller(trace.resources[i])])

------------------------------------------------------------------------------
(* CandidateTester.                                                         *)

Tags(trace) == {a.tag : a \in ToSet(trace.actions)} \union {f.tag : f \in ToSet(trace.faults)}

\* The failure shows when a core is complete, an action that undoes it does not
\* come without its counterpart, and the scalars of the core's faults are large
\* enough.
Shows(trace) ==
  /\ failure.core \subseteq Tags(trace)
  /\ failure.spoiler \in Tags(trace) => failure.counterpart \in Tags(trace)
  /\ \A f \in ToSet(trace.faults) :
       f.tag \in failure.core => \A s \in DOMAIN f.values :
         IF f.signed THEN f.values[s] <= -failure.least ELSE f.values[s] >= failure.least

\* How execute_trace may end: an intermittent failure also shows as another invariant,
\* as an error of the environment, or not at all.
Executions(trace) ==
  CASE Shows(trace) /\ ~failure.flaky -> {"violated"}
    [] Shows(trace) /\ failure.flaky -> {"violated", "other", "broken", "clean"}
    [] OTHER -> {"broken", "clean"}

InvariantOf(outcome) == IF outcome \in {"violated", "other"} THEN outcome ELSE "none"

\* replay_trace: without an expected invariant every error matches.
Matches(wanted, outcome) ==
  /\ outcome # "clean"
  /\ wanted # "none" => InvariantOf(outcome) = wanted

\* ReplayStats::new; the rate is left out.
ReplayStats(attempts, reproduced) ==
  [attempts |-> attempts, reproduced |-> reproduced,
   classification |->
     CASE reproduced = attempts /\ attempts > 0 -> "Stable"
       [] ~(reproduced = attempts /\ attempts > 0) /\ reproduced = 0 -> "NotYetReproduced"
       [] OTHER -> "Intermittent"]

\* replay_trace: what attempts executions of a trace may count.
ReplayTrace(trace, wanted, attempts) ==
  {ReplayStats(attempts, Cardinality({i \in 1 .. attempts : Matches(wanted, outcome[i])})) :
     outcome \in [1 .. attempts -> Executions(trace)]}

\* CandidateTester::test compares the class as well, which the name decides.
Test(trace) == ReplayTrace(trace, expected, Attempts)

\* CandidateTester::reproduces: one matching attempt is enough.
Reproduced(trace, answer) == \E result \in Test(trace) : answer = (result.reproduced > 0)

\* The ranges minimize_action_ranges and minimize_fault_ranges try at a granularity.
Ranges(length) ==
  LET chunk == (length + granularity - 1) \div granularity IN
  IF length < 2 THEN <<>>
  ELSE [k \in 1 .. (length + chunk - 1) \div chunk |->
          <<(k - 1) * chunk + 1, IF k * chunk < length THEN k * chunk ELSE length>>]

\* The candidates of one round of each step of minimize, in order.
Candidates ==
  CASE phase = "actions" ->
         LET r == Ranges(Len(current.actions)) IN
         [k \in DOMAIN r |-> RemoveActionRange(current, r[k][1], r[k][2])]
    [] phase = "faults" ->
         LET r == Ranges(Len(current.faults)) IN
         [k \in DOMAIN r |-> RemoveFaultRange(current, r[k][1], r[k][2])]
    [] phase = "parameters" ->
         FlattenSeq([i \in DOMAIN current.faults |-> ReduceFault(current, i)])
    [] phase = "topology" -> ReduceClusterAndResources(current)

Phases == <<"actions", "faults", "parameters", "topology">>
Reducing == phase \in ToSet(Phases)

\* run: the trace failed, and is replayed before the artifact is written.
RunFails(outcome) ==
  /\ phase = "run" /\ outcome \in Executions(current) \ {"clean"}
  /\ expected' = InvariantOf(outcome)
  /\ \E attempts \in {0, Attempts} : stats' \in ReplayTrace(current, expected', attempts)
  /\ phase' = "artifact"
  /\ UNCHANGED <<failure, current, before, granularity, tested>>

\* replay: without the environment of the real stack nothing is executed.
Replay ==
  /\ phase \in {"artifact", "minimized"}
  /\ stats' \in ReplayTrace(current, expected, Attempts) \union {ReplayStats(0, 0)}
  /\ UNCHANGED <<failure, current, before, phase, granularity, tested, expected>>

\* minimize: the artifact must name an invariant and the original reproduce it.
TestOriginal ==
  /\ phase = "artifact"
  /\ IF expected = "none" THEN UNCHANGED stats ELSE stats' \in Test(current)
  /\ phase' = IF expected # "none" /\ stats'.reproduced > 0 THEN "actions" ELSE "error"
  /\ UNCHANGED <<failure, current, before, granularity, tested, expected>>

\* A candidate that reproduces replaces the trace, and the round starts again.
Accept ==
  /\ Reducing /\ tested < Len(Candidates)
  /\ Reproduced(Candidates[tested + 1], TRUE)
  /\ current' = Candidates[tested + 1]
  /\ granularity' = IF granularity > 3 THEN granularity - 1 ELSE 2
  /\ tested' = 0
  /\ UNCHANGED <<failure, before, phase, expected, stats>>

Reject ==
  /\ Reducing /\ tested < Len(Candidates)
  /\ Reproduced(Candidates[tested + 1], FALSE)
  /\ tested' = tested + 1
  /\ UNCHANGED <<failure, current, before, phase, granularity, expected, stats>>

Length ==
  CASE phase = "actions" -> Len(current.actions)
    [] phase = "faults" -> Len(current.faults)
    [] OTHER -> 0

\* minimize: the next step, another pass, or the end.
NextStep ==
  IF phase = "topology"
  THEN /\ phase' = IF current = before THEN "end" ELSE "actions"
       /\ before' = current
  ELSE /\ phase' = Phases[1 + CHOOSE i \in DOMAIN Phases : Phases[i] = phase]
       /\ UNCHANGED before

\* A mutant of EndRound: the ranges are halved only while that leaves full halves.
EndRoundCoarse ==
  /\ Reducing /\ tested = Len(Candidates)
  /\ tested' = 0
  /\ IF granularity * 2 < Length
     THEN granularity' = granularity * 2 /\ UNCHANGED <<before, phase>>
     ELSE granularity' = 2 /\ NextStep
  /\ UNCHANGED <<failure, current, expected, stats>>

\* No candidate of the round reproduces: finer ranges, or on to the next step.
EndRound ==
  /\ Reducing /\ tested = Len(Candidates)
  /\ tested' = 0
  /\ IF Length >= 2 /\ granularity < Length
     THEN /\ granularity' = IF granularity * 2 < Length THEN granularity * 2 ELSE Length
          /\ UNCHANGED <<before, phase>>
     ELSE granularity' = 2 /\ NextStep
  /\ UNCHANGED <<failure, current, expected, stats>>

\* minimize: the artifact gets the reduced trace and the count of a last test.
WriteMinimized ==
  /\ phase = "end"
  /\ phase' = "minimized" /\ stats' \in Test(current)
  /\ UNCHANGED <<failure, current, before, granularity, tested, expected>>

Init ==
  /\ failure \in Failures
  /\ current = Original /\ before = Original
  /\ phase = "run" /\ granularity = 2 /\ tested = 0
  /\ expected = "none" /\ stats = ReplayStats(0, 0)

Next ==
  \/ \E outcome \in {"violated", "other", "broken"} : RunFails(outcome)
  \/ Replay \/ TestOriginal
  \/ Accept \/ Reject \/ EndRound \/ WriteMinimized

Spec == Init /\ [][Next]_vars

------------------------------------------------------------------------------
(* Properties.                                                              *)

\* In every trace the minimizer goes on with, a fault still precedes the action it was
\* scheduled on, and the faults are in the order of their actions, which execute_trace
\* relies on (remove_action_range, transform_actions).
FaultsStayAttached ==
  /\ \A f \in ToSet(current.faults) :
       f.index \in DOMAIN current.actions /\ current.actions[f.index].tag = f.at
  /\ \A i, j \in DOMAIN current.faults :
       i < j => current.faults[i].index <= current.faults[j].index

\* Configuration, actions and faults are reduced together: what was taken out of the
\* configuration is named by no action, preference list or fault, and a resource is
\* created as it is configured (reduce_cluster_and_resources).
ConfigurationIsAligned ==
  LET resources == {r.name : r \in ToSet(current.resources)}
      gone == (ToSet(Original.controllers) \union ToSet(Original.participants))
                \ (ToSet(current.controllers) \union ToSet(current.participants))
  IN  /\ \A a \in ToSet(current.actions) :
           /\ a.op \in {"controller", "participant"} => a.id \notin gone
           /\ a.op = "create" => a.resource \in ToSet(current.resources)
           /\ a.op = "modify" =>
                /\ \E r \in ToSet(current.resources) :
                     r.name = a.name /\ a.partition \in ToSet(r.partitions)
                /\ a.instances \intersect gone = {}
      /\ \A f \in ToSet(current.faults) : f.owner \notin gone

\* Every trace the minimizer goes on with is one the driver can execute as it was meant:
\* faults stay with their actions, and configuration and actions agree.
ReductionsAreWellFormed == FaultsStayAttached /\ ConfigurationIsAligned

\* The trace minimize returns still shows the failure, and it is minimal: unless the
\* failure is intermittent, no action, no fault and no scalar can be reduced further
\* without losing it, and the minimized artifact calls it stable whenever it was executed.
ResultIsMinimal ==
  phase \in {"end", "minimized"} =>
    /\ Shows(current)
    /\ ~failure.flaky =>
         /\ Len(current.actions) > 1 => \A i \in DOMAIN current.actions :
              ~Shows(RemoveActionRange(current, i, i))
         /\ Len(current.faults) > 1 => \A i \in DOMAIN current.faults :
              ~Shows(RemoveFaultRange(current, i, i))
         /\ \A i \in DOMAIN current.faults :
              \A t \in ToSet(ReduceFault(current, i)) : ~Shows(t)
         /\ phase = "minimized" /\ stats.attempts > 0 => stats.classification = "Stable"

=============================================================================
