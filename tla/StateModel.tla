----------------------------- MODULE StateModel -----------------------------
(***************************************************************************)
(* Construction of a state-model definition (model/state_model.rs): the    *)
(* builder's calls, the validation of build, and the ordered all-pairs     *)
(* table that says which state comes first on the way from one state to    *)
(* another.  Cardinalities take no part in either and are left out.        *)
(***************************************************************************)
EXTENDS Naturals, Sequences, FiniteSets, FiniteSetsExt, SequencesExt

LS == INSTANCE LeaderStandby

CONSTANTS
  Names,            \* the names a caller uses, one after the other
  MaxStates,        \* bound on the calls of add_state
  MaxTransitions    \* bound on the calls of add_transition

Unset == "unset"
NoHop == "no hop"

VARIABLES
  builder,   \* what the calls so far have left in the StateModelBuilder
  result     \* what build returned: an error, or the next-hop table

vars == <<builder, result>>

StateNames == ToSet(Names)
Rank(s) == CHOOSE k \in DOMAIN Names : Names[k] = s

Edges(b) == ToSet(b.transitions)

-----------------------------------------------------------------------------
(* build_transition_table.                                                 *)

\* The rows of distances and next before the loop.  No path is longer than the
\* number of states, which stands for the missing distance.
DirectPaths(b) ==
  [from \in ToSet(b.states) |-> [to \in ToSet(b.states) |->
     CASE <<from, to>> \in Edges(b) -> [distance |-> 1, next |-> to]
       [] from = to                 -> [distance |-> 0, next |-> from]
       [] OTHER                     -> [distance |-> Len(b.states), next |-> NoHop]]]

Known(path) == path.next # NoHop

\* A mutant of Shorter: an equally long path replaces the one already found.
ShorterOrEqual(known, first, second) ==
  IF Known(first) /\ Known(second) /\ first.distance + second.distance <= known.distance
  THEN [distance |-> first.distance + second.distance, next |-> first.next] ELSE known

\* The body of the loops: a path over an intermediate state replaces a longer one.
Shorter(known, first, second) ==
  IF /\ Known(first) /\ Known(second)
     /\ Known(known) => first.distance + second.distance < known.distance
  THEN [distance |-> first.distance + second.distance, next |-> first.next] ELSE known

\* One pass of the outer loop.  The pass changes neither the row nor the column of
\* its own intermediate state, so the two inner loops update all pairs at once.
Relax(paths, via) ==
  [from \in DOMAIN paths |-> [to \in DOMAIN paths |->
     Shorter(paths[from][to], paths[from][via], paths[via][to])]]

TransitionTable(b) ==
  LET paths == FoldLeft(Relax, DirectPaths(b), b.states)
  IN [from \in ToSet(b.states) |->
        [to \in {s \in ToSet(b.states) \ {from} : Known(paths[from][s])} |-> paths[from][to].next]]

-----------------------------------------------------------------------------
(* The builder.                                                            *)

Init ==
  /\ builder \in [name : {"", "model"}, initial : {Unset}, states : {<<>>}, transitions : {<<>>}]
  /\ result = [error |-> "not built", table |-> <<>>]

UnknownAt(b, k) == \E n \in 1..2 : b.transitions[k][n] \notin ToSet(b.states)
RepeatedAt(b, k) == \E j \in 1..(k - 1) : b.transitions[j] = b.transitions[k]
RejectedAt(b) == {k \in DOMAIN b.transitions : UnknownAt(b, k) \/ RepeatedAt(b, k)}

\* Bound: setters of different kinds commute and a builder that build would reject
\* for what it holds already stays rejected, so calls are made by kind, names and
\* transitions in one order (DROPPED, which build looks for, at any place), a loop
\* is added to one state only, and nothing more is asked of a builder that is
\* beyond help.
Hopeful(b) == b.name # "" /\ IsInjective(b.states) /\ RejectedAt(b) = {}

SetInitial(s) ==
  /\ result.error = "not built" /\ Hopeful(builder)
  /\ builder.initial = Unset /\ builder.states = <<>>
  /\ builder' = [builder EXCEPT !.initial = s]
  /\ UNCHANGED result

AddState(s) ==
  LET others == SelectSeq(builder.states, LAMBDA n : n # "DROPPED")
  IN /\ result.error = "not built" /\ Hopeful(builder)
     /\ builder.transitions = <<>> /\ Len(builder.states) < MaxStates
     /\ s # "DROPPED" /\ others # <<>> => Rank(s) >= Rank(Last(others))
     /\ builder' = [builder EXCEPT !.states = Append(@, s)]
     /\ UNCHANGED result

AddTransition(from, to) ==
  LET code(t) == Rank(t[1]) * (Len(Names) + 1) + Rank(t[2])
  IN /\ result.error = "not built" /\ Hopeful(builder)
     /\ builder.initial \in ToSet(builder.states) /\ Len(builder.transitions) < MaxTransitions
     /\ from = to => from = LS!InitialState
     /\ builder.transitions # <<>> => code(<<from, to>>) >= code(Last(builder.transitions))
     /\ builder' = [builder EXCEPT !.transitions = Append(@, <<from, to>>)]
     /\ UNCHANGED result

\* The first check that fails.  A transition is compared with the ones before it
\* only when both of its states are known.
Verdict(b, table) ==
  CASE b.name = ""                           -> "EmptyModelName"
    [] b.states = <<>>                       -> "NoStates"
    [] ~IsInjective(b.states)                -> "DuplicateState"
    [] b.initial = Unset                     -> "MissingInitialState"
    [] b.initial \notin ToSet(b.states)      -> "UnknownInitialState"
    [] RejectedAt(b) # {}                    ->
         IF UnknownAt(b, Min(RejectedAt(b))) THEN "UnknownTransitionState" ELSE "DuplicateTransition"
    [] "DROPPED" \notin ToSet(b.states)      -> "MissingDroppedState"
    [] \E s \in ToSet(b.states) \ {"DROPPED"} :
         "DROPPED" \notin DOMAIN table[s] -> "NoPathToDropped"
    [] OTHER                                 -> "none"

Build ==
  LET table == TransitionTable(builder)
      error == Verdict(builder, table)
  IN /\ result.error = "not built"
     /\ result' = [error |-> error, table |-> IF error = "none" THEN table ELSE <<>>]
     /\ UNCHANGED builder

Next ==
  \/ SetInitial(LS!InitialState)
  \/ \E s \in StateNames : AddState(s)
  \/ \E from, to \in StateNames : AddTransition(from, to)
  \/ Build

Spec == Init /\ [][Next]_vars

-----------------------------------------------------------------------------
TypeOK ==
  /\ builder.name \in {"", "model"} /\ builder.initial \in StateNames \cup {Unset}
  /\ builder.states \in Seq(StateNames) /\ builder.transitions \in Seq(StateNames \X StateNames)
  /\ result.error = "none" => DOMAIN result.table = ToSet(builder.states)

\* The states from which n declared transitions or fewer lead to a state.
Within(b, to) ==
  LET ball[n \in 0..Len(b.states)] ==
        IF n = 0 THEN {to}
        ELSE LET nearer == ball[n - 1]
             IN nearer \cup {s \in ToSet(b.states) : \E t \in nearer : <<s, t>> \in Edges(b)}
  IN ball

\* A definition that was built has a next hop exactly where a path exists, the hop is a
\* declared transition and comes strictly nearer to the target; DROPPED can be reached
\* from everywhere.
HopsComeNearer ==
  result.error = "none" =>
    \A from, to \in ToSet(builder.states) : from # to =>
      LET ball == Within(builder, to)
          reached == {n \in 0..Len(builder.states) : from \in ball[n]}
      IN /\ to = "DROPPED" => reached # {}
         /\ to \in DOMAIN result.table[from] <=> reached # {}
         /\ reached # {} =>
              /\ <<from, result.table[from][to]>> \in Edges(builder)
              /\ result.table[from][to] \in ball[Min(reached) - 1]

\* leader_standby(): the calls the built-in definition is made with, transitions in
\* the order of AddTransition.
IsLeaderStandby(b) ==
  /\ b.states = <<"LEADER", "STANDBY", "OFFLINE", "DROPPED">> /\ b.initial = LS!InitialState
  /\ IsInjective(b.transitions) /\ Edges(b) = LS!Transitions

\* The hops of planner and participants (LeaderStandby!NextStateToward) are the ones
\* build derives for the built-in definition.
BuiltInTable ==
  IsLeaderStandby(builder) /\ result.error # "not built" =>
    /\ result.error = "none"
    /\ \A from, to \in ToSet(builder.states) : from # to =>
         LS!NextStateToward(from, to) =
           IF to \in DOMAIN result.table[from] THEN result.table[from][to] ELSE LS!NoState

\* next_state_toward: a replica that is sent hop by hop arrives after as few transitions
\* as there can be, in every definition the builder accepts and in the built-in one.
RoutesAreShortest == HopsComeNearer /\ BuiltInTable

=============================================================================
