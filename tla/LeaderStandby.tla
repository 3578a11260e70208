---------------------------- MODULE LeaderStandby ----------------------------
(***************************************************************************)
(* The built-in LeaderStandby state model, the only one the runtime        *)
(* accepts, with the next-hop table the builder derives for it.            *)
(***************************************************************************)

\* A replica without a CurrentState key.
ABSENT == "ABSENT"

\* The answer of next_state_toward when no path exists.
NoState == "NoState"

\* What a CurrentState key can hold: DROPPED deletes the key, and ERROR is
\* written when the application's handler fails.
ReplicaStates == {"LEADER", "STANDBY", "OFFLINE", "ERROR"}

TargetStates == {"LEADER", "STANDBY", "OFFLINE", "DROPPED"}

InitialState == "OFFLINE"

\* The five declared transitions.
Transitions ==
  { <<"LEADER", "STANDBY">>, <<"STANDBY", "LEADER">>, <<"OFFLINE", "STANDBY">>,
    <<"STANDBY", "OFFLINE">>, <<"OFFLINE", "DROPPED">> }

\* The first state on the way from one state to another.
NextStateToward(from, to) ==
  CASE <<from, to>> \in Transitions                          -> to
    [] from = "LEADER"  /\ to \in {"OFFLINE", "DROPPED"}     -> "STANDBY"
    [] from = "STANDBY" /\ to = "DROPPED"                    -> "OFFLINE"
    [] from = "OFFLINE" /\ to = "LEADER"                     -> "STANDBY"
    [] OTHER                                                 -> NoState

\* The rank of a state in priority order; a state outside the model is last.
StatePriority(state) ==
  CASE state = "LEADER"  -> 0
    [] state = "STANDBY" -> 1
    [] state = "OFFLINE" -> 2
    [] OTHER             -> 4

=============================================================================
