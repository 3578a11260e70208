------------------------------ MODULE Sessions ------------------------------
(***************************************************************************)
(* What a participant session is (model/session.rs): an instance has at    *)
(* most one live session, a session belongs to one instance for ever, the  *)
(* record of a session is written by its owner while it is live, and a new *)
(* session starts with the partitions of the instance's latest session,    *)
(* each in its initial state.  The in-memory state numbers sessions with a *)
(* counter; nothing but the order within an instance matters to its users, *)
(* so a new session takes any unused larger number here.                   *)
(***************************************************************************)
EXTENDS Integers, FiniteSets

CONSTANTS
  Instances, Parts, States,
  Initial,      \* the initial state of the state model
  MaxSession    \* bound on the session numbers

Absent == "absent"

SessionIds == 1..MaxSession

VARIABLES
  live,     \* live_instances: the live session of each instance, 0 if none
  known,    \* known_sessions: the sessions each instance has had
  record    \* current_states: the partitions of each session

sessionState == <<live, known, record>>

Empty == [p \in Parts |-> Absent]

Latest(ids) == IF ids = {} THEN 0 ELSE CHOOSE s \in ids : \A t \in ids : t <= s

\* carried_current_states.
Carried(rec) == [p \in Parts |-> IF rec[p] = Absent THEN Absent ELSE Initial]

CarriedFrom(s) == IF s = 0 THEN Empty ELSE Carried(record[s])

Init ==
  /\ live = [i \in Instances |-> 0]
  /\ known = [i \in Instances |-> {}]
  /\ record = [s \in SessionIds |-> Empty]

\* allocate_session.
Allocated(i, s) ==
  /\ s \in SessionIds
  /\ \A j \in Instances : s \notin known[j]
  /\ \A t \in known[i] : t < s

Begin(i, s, previous) ==
  /\ live' = [live EXCEPT ![i] = s]
  /\ known' = [known EXCEPT ![i] = @ \cup {s}]
  /\ record' = [record EXCEPT ![s] = CarriedFrom(previous)]

Connect(i, s) ==
  /\ live[i] = 0 /\ Allocated(i, s)
  /\ Begin(i, s, Latest(known[i]))

\* require_live_session: the caller has the live session.
RequireLiveSession(i, s) == s # 0 /\ live[i] = s

\* store_current_state adds to what is there.
StoreCurrentState(s, p, state) == record' = [record EXCEPT ![s][p] = state]

Disconnect(i) ==
  /\ RequireLiveSession(i, live[i])
  /\ live' = [live EXCEPT ![i] = 0]
  /\ UNCHANGED <<known, record>>

ExpireAndReconnect(i, s) ==
  /\ RequireLiveSession(i, live[i]) /\ Allocated(i, s)
  /\ Begin(i, s, live[i])

PublishCurrentState(i, p, state) ==
  /\ RequireLiveSession(i, live[i])
  /\ StoreCurrentState(live[i], p, state)
  /\ UNCHANGED <<live, known>>

\* inject_session_current_state: any session the instance has had.
InjectSessionCurrentState(i, s, p, state) ==
  /\ s \in known[i]
  /\ StoreCurrentState(s, p, state)
  /\ UNCHANGED <<live, known>>

Next ==
  \E i \in Instances :
    \/ Disconnect(i)
    \/ \E s \in SessionIds : Connect(i, s) \/ ExpireAndReconnect(i, s)
    \/ \E p \in Parts, state \in States :
         \/ PublishCurrentState(i, p, state)
         \/ \E s \in SessionIds : InjectSessionCurrentState(i, s, p, state)

Spec == Init /\ [][Next]_sessionState

=============================================================================
