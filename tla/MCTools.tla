------------------------------ MODULE MCTools ------------------------------
(***************************************************************************)
(* Programs around the library, side by side and each on its own: the      *)
(* chaos driver (module Chaos), the replay and reduction of its failures   *)
(* (Minimizer) and the data plane of an example application                *)
(* (ReplicatedData).  A behaviour is one of one of them; the others stay   *)
(* in an initial state.                                                    *)
(***************************************************************************)
EXTENDS ReplicatedData, Chaos

VARIABLES
  part,
  failure, current, before, phase, granularity, tested, expected, stats

\* A trace of four actions on one resource, with two faults.
Shards ==
  [name |-> "r", partitions |-> <<"x", "y">>, replicas |-> 2,
   lists |-> [p \in {"x", "y"} |-> {"p1", "p2"}]]

FailedTrace ==
  [controllers |-> <<"c1", "c2">>, participants |-> <<"p1", "p2">>, resources |-> <<Shards>>,
   actions |-> <<[op |-> "controller", id |-> "c1", tag |-> 1],
                 [op |-> "participant", id |-> "p1", tag |-> 2],
                 [op |-> "create", resource |-> Shards, tag |-> 3],
                 [op |-> "modify", name |-> "r", partition |-> "x", instances |-> {"p1"}, tag |-> 4]>>,
   faults |-> <<[index |-> 2, at |-> 2, tag |-> 5, owner |-> "c1", signed |-> FALSE, values |-> <<2, 1>>],
                [index |-> 4, at |-> 4, tag |-> 6, owner |-> "p1", signed |-> TRUE, values |-> <<-3>>]>>]

\* Failures that need up to two actions or faults and perhaps a scalar of at least one,
\* that something else in the trace hides, or that show only now and then.
FailuresOfTrace ==
  {[core |-> core, flaky |-> FALSE, least |-> least, spoiler |-> pair[1], counterpart |-> pair[2]] :
     core \in {c \in SUBSET (1..6) : Cardinality(c) <= 2}, least \in {0, 1},
     pair \in {<<1, 1>>, <<1, 4>>, <<3, 2>>, <<2, 5>>}}
  \cup {[core |-> 1..4, flaky |-> TRUE, least |-> 1, spoiler |-> 1, counterpart |-> 1]}

MCControllers == <<"ca", "cc">>
MCParticipants == <<"n1", "n4">>

ASSUME ChaosConstants == ChaosAssumption

R == INSTANCE Minimizer WITH Original <- FailedTrace, Failures <- FailuresOfTrace, Attempts <- 2

minimizerVars == <<failure, current, before, phase, granularity, tested, expected, stats>>
allVars == <<part, chaosVars, minimizerVars, vars>>

ToolsInit ==
  /\ part \in {"chaos", "minimizer", "data"}
  /\ ChaosInit /\ (part # "chaos" => profile = "pr" /\ ~machine.faulty)
  /\ R!Init /\ (part # "minimizer" => failure.flaky)
  /\ Init

ToolsNext ==
  /\ UNCHANGED part
  /\ \/ part = "chaos" /\ ChaosNext /\ UNCHANGED <<minimizerVars, vars>>
     \/ part = "minimizer" /\ R!Next /\ UNCHANGED <<chaosVars, vars>>
     \/ part = "data" /\ Next /\ UNCHANGED <<chaosVars, minimizerVars>>

ToolsSpec == ToolsInit /\ [][ToolsNext]_allVars

\* Faults stay with their actions, and configuration and actions agree (minimizer.rs).
ReductionsAreWellFormed == R!ReductionsAreWellFormed

\* The result of minimize shows the failure and cannot be reduced further.
ResultIsMinimal == R!ResultIsMinimal

=============================================================================
