------------------------------- MODULE Stages -------------------------------
(***************************************************************************)
(* The planning stages as the algorithms the code runs: the SEMI_AUTO      *)
(* assignment loop, the greedy message selection and the transition        *)
(* throttle.  Planner says what the first two compute and leaves open what *)
(* the third withholds.                                                    *)
(***************************************************************************)
EXTENDS Planner, FiniteSets, FiniteSetsExt, SequencesExt

CONSTANTS
  PartitionOrder,   \* the partitions, by resource and then by name
  InstanceOrder,    \* the instances, by name
  ResourceOf,       \* the resource of each partition
  Limits            \* the configured transition limits, in order

\* The target of a limit that names none.
Every == "every"

ASSUME OrderAssumption ==
  /\ IsInjective(PartitionOrder) /\ ToSet(PartitionOrder) = Partitions
  /\ IsInjective(InstanceOrder) /\ ToSet(InstanceOrder) = Instances

Types == {"ANY", "RECOVERY_BALANCE", "LOAD_BALANCE"}

ASSUME LimitAssumption ==
  \A k \in DOMAIN Limits :
    /\ Limits[k].scope \in {"CLUSTER", "RESOURCE", "INSTANCE"} /\ Limits[k].type \in Types
    /\ Limits[k].max \in Nat \ {0}

Position(seq, e) == IF e \in ToSet(seq) THEN CHOOSE k \in DOMAIN seq : seq[k] = e ELSE 0

-----------------------------------------------------------------------------
(* compute_semi_auto_best_possible_state.                                  *)

\* current_priority: the candidates by state, in list order on a tie.
ByState(S, p) ==
  LET c == Candidates(S, p)
      rank(k) == StatePriority(PlanningState(S, p, c[k]))
      before(j, k) == rank(j) < rank(k) \/ (rank(j) = rank(k) /\ j < k)
  IN [n \in DOMAIN c |->
        c[CHOOSE k \in DOMAIN c : Cardinality({j \in DOMAIN c : before(j, k)}) = n - 1]]

\* The candidates in current_priority that are not assigned yet.
Free(a) == SelectSeq(a.byState, LAMBDA i : i \notin DOMAIN a.assigned)

\* Mutant: a candidate one hop away gives way too.
AdjustsSecondTop(S, p, requested, count, a) ==
  LET state == PlanningState(S, p, Head(a.queue))
  IN /\ count < Len(Candidates(S, p)) - Cardinality(DOMAIN a.assigned)
     /\ requested = "LEADER" /\ state # requested
     /\ Free(a) # <<>>

\* adjust_instance_if_necessary: the queue's head gives way to a candidate in a
\* better state when the top state is requested, there are candidates to spare,
\* and it is neither there nor one hop away.
Adjusts(S, p, requested, count, a) ==
  LET state == PlanningState(S, p, Head(a.queue))
  IN /\ count < Len(Candidates(S, p)) - Cardinality(DOMAIN a.assigned)
     /\ requested = "LEADER" /\ state # requested
     /\ NextStateToward(state, "LEADER") # "LEADER"
     /\ Free(a) # <<>>

\* One pass of the loop over a requested state: `count` replicas are assigned
\* from the queue as long as it has any.
RECURSIVE Assign(_, _, _, _, _)
Assign(S, p, requested, count, a) ==
  LET adjusts == Adjusts(S, p, requested, count, a)
      i == IF adjusts THEN Head(Free(a)) ELSE Head(a.queue)
  IN IF count = 0 \/ a.queue = <<>> THEN a
     ELSE IF Head(a.queue) \in DOMAIN a.assigned
     THEN Assign(S, p, requested, count, [a EXCEPT !.queue = Tail(@)])
     ELSE Assign(S, p, requested, count - 1,
            [ queue    |-> IF i = Head(a.queue) THEN Tail(a.queue) ELSE a.queue,
              byState  |-> IF adjusts THEN SubSeq(a.byState, Position(a.byState, i) + 1, Len(a.byState))
                           ELSE a.byState,
              assigned |-> (i :> requested) @@ a.assigned ])

\* One LEADER, as many STANDBYs as the list is long; the other states have no
\* count of their own.
SemiAuto(S, p) ==
  LET start == [queue |-> Candidates(S, p), byState |-> ByState(S, p), assigned |-> <<>>]
      leader == Assign(S, p, "LEADER", 1, start)
      placed == IF PreferenceList(S, p) = NoList THEN <<>>
                ELSE Assign(S, p, "STANDBY", Len(PreferenceList(S, p)), leader).assigned
      extra == {i \in Instances : PlanningState(S, p, i) # ABSENT /\ ~Preferred(S, p, i)}
  IN [i \in DOMAIN placed \cup extra |-> IF i \in extra THEN "DROPPED" ELSE placed[i]]

-----------------------------------------------------------------------------
(* select_transitions.                                                     *)

\* A candidate's place in transitions_in_priority_order.
TransitionPriority(t) ==
  Position(<< <<"LEADER", "STANDBY">>, <<"STANDBY", "LEADER">>, <<"OFFLINE", "STANDBY">>,
              <<"STANDBY", "OFFLINE">>, <<"OFFLINE", "DROPPED">> >>, <<t.from, t.to>>)

Lexicographic(a, b) ==
  \E k \in DOMAIN a : a[k] < b[k] /\ \A j \in 1..k - 1 : a[j] = b[j]

InOrder(T, key(_)) ==
  LET ranked == {<<key(t), t>> : t \in T}
      before(r) == {u \in ranked : Lexicographic(u[1], r[1])}
  IN [n \in 1..Cardinality(T) |-> (CHOOSE r \in ranked : Cardinality(before(r)) = n - 1)[2]]

\* The LEADERs of a partition: live ones, and either end of a pending one.
LeaderCount(S, pending, mode, p) ==
  LET here == {m \in OperationalPending(S, pending, mode) : m.part = p}
  IN Cardinality({i \in LiveInstances(S) : PlanningState(S, p, i) = "LEADER"})
       + Cardinality({m \in here : m.to = "LEADER"}) + Cardinality({m \in here : m.from = "LEADER"})

\* The greedy pass: a candidate is taken unless it would be a second LEADER.
GreedySelection(S, pending, mode) ==
  LET key(t) == <<Position(PartitionOrder, t.part), TransitionPriority(t),
                  Position(InstanceOrder, t.inst)>>
      take(a, t) ==
        IF t.to = "LEADER" /\ a.leaders[t.part] + 1 > 1 THEN a
        ELSE [ leaders |-> IF t.to = "LEADER" THEN [a.leaders EXCEPT ![t.part] = @ + 1]
                           ELSE a.leaders,
               selected |-> a.selected \cup {t} ]
  IN FoldLeft(take,
       [ leaders |-> [p \in Partitions |-> LeaderCount(S, pending, mode, p)], selected |-> {} ],
       InOrder(TransitionRequests(S), key)).selected

-----------------------------------------------------------------------------
(* compute_intermediate_and_throttle.                                      *)

\* The scopes whose quotas a transition draws on.
Scopes(t) == {<<"CLUSTER", Every>>, <<"RESOURCE", ResourceOf[t.part]>>, <<"INSTANCE", t.inst>>}

AllScopes(S) ==
  {<<"CLUSTER", Every>>} \cup ({"RESOURCE"} \X Range(ResourceOf))
    \cup ({"INSTANCE"} \X LiveInstances(S))

\* ThrottleController::new: a limit without a target is every resource's, or
\* every live instance's; the last limit that fits a quota sets it.
Quotas(S, mode) ==
  LET fitting(q) == {k \in DOMAIN Limits :
        /\ mode # "Startup"
        /\ Limits[k].scope = q[1][1] /\ Limits[k].target \in {Every, q[1][2]}
        /\ Limits[k].type = q[2]}
  IN [q \in {r \in AllScopes(S) \X Types : fitting(r) # {}} |-> Limits[Max(fitting(q))].max]

Drawn(q, type, t) == q[1] \in Scopes(t) /\ q[2] \in {"ANY", type}

\* should_throttle
Exhausted(quotas, type, t) == \E q \in DOMAIN quotas : Drawn(q, type, t) /\ quotas[q] = 0

\* charge, saturating at zero.
Charge(quotas, type, t) ==
  [q \in DOMAIN quotas |-> IF Drawn(q, type, t) /\ quotas[q] > 0 THEN quotas[q] - 1 ELSE quotas[q]]

\* required_states, for one state: a LEADER, then STANDBYs for the replicas
\* that the live candidates can fill.
RequiredCount(S, p, state) ==
  LET live == IF PreferenceList(S, p) = NoList THEN 0 ELSE Len(Candidates(S, p))
  IN CASE live = 0           -> 0
       [] state = "LEADER"   -> 1
       [] state = "STANDBY"  -> live - 1
       [] OTHER              -> 0

\* Mutant: the transition itself is counted in.
CountedRebalanceType(S, states, t) ==
  IF RequiredCount(S, t.part, t.to) > 1 + Cardinality({i \in Instances : states[t.part][i] = t.to})
  THEN "RECOVERY_BALANCE" ELSE "LOAD_BALANCE"

\* rebalance_type: a transition into a state the partition lacks is recovery.
RebalanceType(S, states, t) ==
  IF RequiredCount(S, t.part, t.to) > Cardinality({i \in Instances : states[t.part][i] = t.to})
  THEN "RECOVERY_BALANCE" ELSE "LOAD_BALANCE"

PlanningStates(S) == [p \in Partitions |-> [i \in Instances |-> PlanningState(S, p, i)]]

\* Mutant: nothing in flight is charged.
ChargeNothing(S, operational, quotas) == quotas

\* charge_pending: what is in flight from the state its replica is in.
ChargePending(S, operational, quotas) ==
  LET states == PlanningStates(S)
      charged == {m \in operational : states[m.part][m.inst] = m.from /\ m.from # m.to}
  IN FoldSet(LAMBDA m, q : Charge(q, RebalanceType(S, states, m), m), quotas, charged)

\* partition_priority, then message_priority: partitions with a LEADER first,
\* then those with fewer replicas in place; then by target state, place in the
\* preference list and name.
DispatchPriority(S, t) ==
  LET p == t.part
      replicas == {[inst |-> i, now |-> PlanningState(S, p, i), best |-> BestPossibleState(S, p, i)] :
                     i \in {j \in Instances : PlanningState(S, p, j) # ABSENT}}
      now(state) == Cardinality({r \in replicas : r.now = state})
      best(state) == Cardinality({r \in replicas : r.best = state})
      common(state) == Min({now(state), best(state)})
      matched == {r \in replicas : r.now = r.best}
  IN << Min({k \in DOMAIN PartitionOrder : ResourceOf[PartitionOrder[k]] = ResourceOf[p]}),
        IF now("LEADER") = 0 THEN 1 ELSE 0,
        MapThenSumSet(common, ReplicaStates \cup TargetStates), Cardinality(matched),
        Position(PartitionOrder, p), StatePriority(t.to),
        IF PreferenceList(S, p) = NoList THEN 0 ELSE Position(PreferenceList(S, p), t.inst),
        Position(InstanceOrder, t.inst) >>

\* pending_by_resource_matches
IsPending(operational, t) ==
  \E m \in operational : m.part = t.part /\ m.inst = t.inst /\ m.from = t.from /\ m.to = t.to

\* The transitions that pass, in priority order, each charged as it passes.
ThrottledDispatch(S, pending, mode) ==
  LET operational == OperationalPending(S, pending, mode)
      dispatch(a, t) ==
        LET type == RebalanceType(S, a.states, t)
        IN IF IsPending(operational, t) \/ Exhausted(a.quotas, type, t) THEN a
           ELSE [ quotas |-> Charge(a.quotas, type, t),
                  states |-> [a.states EXCEPT ![t.part][t.inst] = t.to],
                  sent   |-> a.sent \cup {t} ]
      key(t) == DispatchPriority(S, t)
  IN FoldLeft(dispatch,
       [ quotas |-> ChargePending(S, operational, Quotas(S, mode)),
         states |-> PlanningStates(S), sent |-> {} ],
       InOrder(GreedySelection(S, pending, mode), key)).sent

=============================================================================
