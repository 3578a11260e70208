---------------------------- MODULE Registration ----------------------------
(***************************************************************************)
(* Participant sessions in etcd (etcd/session.rs).  A process registers in *)
(* steps, each a request of its own: it looks for the latest session of    *)
(* its instance, takes the next number of the sequence, reads the          *)
(* partitions it carries over, takes a lease, and writes everything in one *)
(* transaction that fails if the instance is live.  Leases expire, and an  *)
(* operator revokes sessions, injects records and removes the records of a *)
(* resource, in between.                                                   *)
(***************************************************************************)
EXTENDS Sessions

CONSTANTS
  Procs,        \* participant processes
  InstanceOf,   \* the instance each process registers
  MaxTries,     \* MAX_CAS_RETRIES
  Batch         \* CURRENT_STATE_DELETE_BATCH

VARIABLES
  sequence,   \* the sequence key
  leases,     \* the sessions whose lease is alive
  proc,       \* the processes
  operator    \* an operator's request with several steps

vars == <<sessionState, sequence, leases, proc, operator>>

NoProc == [pc |-> "out", previous |-> 0, read |-> 0, tries |-> 0, session |-> 0, carried |-> Empty]

\* touched: history, the keys written since the records were listed, or, of a listed
\* one, since it was deleted.
NoOperator == [pc |-> "idle", session |-> 0, keys |-> {}, touched |-> {}]

Touch(keys) ==
  operator' = IF operator.pc = "remove" THEN [operator EXCEPT !.touched = operator.touched \cup keys]
              ELSE operator

Records == [Parts -> States \cup {Absent}]

ProcStates ==
  [pc : {"out", "allocate", "swap", "carry", "grant", "register", "running"},
   previous : 0..MaxSession, read : 0..MaxSession, tries : 0..MaxTries,
   session : 0..MaxSession, carried : Records]

OperatorStates ==
  [pc : {"idle", "failed", "revoke", "remove"}, session : 0..MaxSession,
   keys : SUBSET (SessionIds \X Parts), touched : SUBSET (SessionIds \X Parts)]

\* Every process registers an instance, and MAX_CAS_RETRIES is positive.
RegistrationAssumption ==
  /\ InstanceOf \in [Procs -> Instances]
  /\ MaxTries \in Nat \ {0} /\ MaxSession \in Nat /\ Batch \in Nat \ {0}
  /\ Initial \in States /\ Absent \notin States

\* The sessions known, the session numbers taken, and what each process and the
\* operator remember, by type.
TypeOK ==
  /\ live \in [Instances -> 0..MaxSession] /\ known \in [Instances -> SUBSET SessionIds]
  /\ record \in [SessionIds -> Records]
  /\ sequence \in 0..MaxSession /\ leases \subseteq SessionIds
  /\ proc \in [Procs -> ProcStates]
  /\ operator \in OperatorStates

-----------------------------------------------------------------------------
(* register.                                                               *)

Move(n, r) == proc' = [proc EXCEPT ![n] = r]

\* latest_session.
LatestSession(n) ==
  /\ proc[n].pc = "out"
  /\ Move(n, [NoProc EXCEPT !.pc = "allocate", !.previous = Latest(known[InstanceOf[n]])])
  /\ UNCHANGED <<sessionState, sequence, leases, operator>>

\* allocate_session reads the sequence.
ReadSequence(n) ==
  /\ proc[n].pc = "allocate" /\ sequence < MaxSession
  /\ Move(n, [proc[n] EXCEPT !.pc = "swap", !.read = sequence])
  /\ UNCHANGED <<sessionState, sequence, leases, operator>>

\* It writes the next number if nobody else has, and starts again if somebody has.
SwapSequence(n) ==
  /\ proc[n].pc = "swap"
  /\ \/ /\ sequence = proc[n].read
        /\ sequence' = proc[n].read + 1
        /\ Move(n, [proc[n] EXCEPT !.pc = "carry", !.session = proc[n].read + 1])
     \/ /\ sequence # proc[n].read
        /\ Move(n, IF proc[n].tries + 1 = MaxTries THEN NoProc
                   ELSE [proc[n] EXCEPT !.pc = "allocate", !.tries = proc[n].tries + 1])
        /\ UNCHANGED sequence
  /\ UNCHANGED <<sessionState, leases, operator>>

\* Mutant: the states are carried over as they are.
CarryStateAsIs(n) ==
  /\ proc[n].pc = "carry"
  /\ Move(n, [proc[n] EXCEPT !.pc = "grant",
                !.carried = IF proc[n].previous = 0 THEN Empty ELSE record[proc[n].previous]])
  /\ UNCHANGED <<sessionState, sequence, leases, operator>>

\* carried_state.
CarryState(n) ==
  /\ proc[n].pc = "carry"
  /\ Move(n, [proc[n] EXCEPT !.pc = "grant", !.carried = CarriedFrom(proc[n].previous)])
  /\ UNCHANGED <<sessionState, sequence, leases, operator>>

GrantLease(n) ==
  /\ proc[n].pc = "grant"
  /\ leases' = leases \cup {proc[n].session}
  /\ Move(n, [proc[n] EXCEPT !.pc = "register"])
  /\ UNCHANGED <<sessionState, sequence, operator>>

\* The transaction, or RegistrationLost; it is an error when the lease has run out.
Register(n) ==
  LET i == InstanceOf[n]  s == proc[n].session
  IN /\ proc[n].pc = "register"
     /\ \/ /\ live[i] = 0 /\ s \in leases
           /\ live' = [live EXCEPT ![i] = s]
           /\ known' = [known EXCEPT ![i] = @ \cup {s}]
           /\ record' = [record EXCEPT ![s] =
                [p \in Parts |-> IF proc[n].carried[p] = Absent THEN record[s][p] ELSE proc[n].carried[p]]]
           /\ Move(n, [proc[n] EXCEPT !.pc = "running"])
           /\ Touch({s} \X {p \in Parts : proc[n].carried[p] # Absent})
           /\ UNCHANGED leases
        \/ /\ live[i] # 0 \/ s \notin leases
           /\ leases' = leases \ {s}
           /\ Move(n, NoProc)
           /\ UNCHANGED <<sessionState, operator>>
     /\ UNCHANGED sequence

-----------------------------------------------------------------------------
(* A running process, its end, and its lease.                              *)

\* publish_current_state is fenced by the live key.
Publish(n, p, state) ==
  LET i == InstanceOf[n]
  IN /\ proc[n].pc = "running" /\ live[i] = proc[n].session
     /\ record' = [record EXCEPT ![proc[n].session][p] = state]
     /\ Touch({<<proc[n].session, p>>})
     /\ UNCHANGED <<live, known, sequence, leases, proc>>

\* The lease ends, and the live key with it.
EndLease(s) ==
  /\ leases' = leases \ {s}
  /\ live' = [i \in Instances |-> IF live[i] = s THEN 0 ELSE live[i]]
  /\ UNCHANGED <<known, record>>

\* revoke, at the end of a process.
Revoke(n) ==
  /\ proc[n].pc = "running"
  /\ EndLease(proc[n].session)
  /\ Move(n, NoProc)
  /\ UNCHANGED <<sequence, operator>>

\* A process dies anywhere and leaves its lease behind.
Crash(n) ==
  /\ proc[n].pc # "out"
  /\ Move(n, NoProc)
  /\ UNCHANGED <<sessionState, sequence, leases, operator>>

ExpireLease(s) ==
  /\ s \in leases
  /\ EndLease(s)
  /\ UNCHANGED <<sequence, proc, operator>>

\* A keepalive answers that the lease is gone; the process registers again.
KeepAliveExpired(n) ==
  /\ proc[n].pc = "running" /\ proc[n].session \notin leases
  /\ Move(n, NoProc)
  /\ UNCHANGED <<sessionState, sequence, leases, operator>>

-----------------------------------------------------------------------------
(* The operator.                                                           *)

Free == operator.pc \in {"idle", "failed"}

\* revoke_live deletes the live key of the session it has read, then its lease,
\* which stays when that request fails.
RevokeLive(i) ==
  /\ Free /\ live[i] # 0
  /\ live' = [live EXCEPT ![i] = 0]
  /\ operator' = [NoOperator EXCEPT !.pc = "revoke", !.session = live[i]]
  /\ UNCHANGED <<known, record, sequence, leases, proc>>

RevokeLiveLease ==
  /\ operator.pc = "revoke"
  /\ EndLease(operator.session) \/ UNCHANGED <<sessionState, leases>>
  /\ operator' = NoOperator
  /\ UNCHANGED <<sequence, proc>>

\* inject_session_current_state: the session's marker exists.
Inject(i, s, p, state) ==
  /\ Free /\ s \in known[i]
  /\ record' = [record EXCEPT ![s][p] = state]
  /\ UNCHANGED <<live, known, sequence, leases, proc, operator>>

\* remove_current_states_for_resource lists the keys, then deletes them in batches.
ListRecords ==
  /\ Free
  /\ operator' = [NoOperator EXCEPT !.pc = "remove",
                    !.keys = {k \in SessionIds \X Parts : record[k[1]][k[2]] # Absent}]
  /\ operator'.keys # {}
  /\ UNCHANGED <<sessionState, sequence, leases, proc>>

IsBatch(keys) ==
  /\ operator.pc = "remove" /\ keys # {}
  /\ Cardinality(keys) = Batch \/ (Cardinality(keys) < Batch /\ keys = operator.keys)

Without(keys) ==
  [s \in SessionIds |-> [p \in Parts |-> IF <<s, p>> \in keys THEN Absent ELSE record[s][p]]]

\* Mutant: the first batch is the only one.
DeleteOneBatch(keys) ==
  /\ IsBatch(keys)
  /\ record' = Without(keys)
  /\ operator' = NoOperator
  /\ UNCHANGED <<live, known, sequence, leases, proc>>

\* The transaction has no condition: a record written since the listing goes as well.
DeleteBatch(keys) ==
  /\ IsBatch(keys)
  /\ record' = Without(keys)
  /\ operator' = IF keys = operator.keys THEN NoOperator
                 ELSE [operator EXCEPT !.keys = operator.keys \ keys, !.touched = operator.touched \ keys]
  /\ UNCHANGED <<live, known, sequence, leases, proc>>

\* The transaction, or only its answer, is lost; the other batches are not tried.
FailBatch(keys) ==
  /\ IsBatch(keys)
  /\ record' = record \/ record' = Without(keys)
  /\ operator' = [NoOperator EXCEPT !.pc = "failed"]
  /\ UNCHANGED <<live, known, sequence, leases, proc>>

-----------------------------------------------------------------------------
RegInit ==
  /\ Init
  /\ sequence = 0 /\ leases = {} /\ proc = [n \in Procs |-> NoProc] /\ operator = NoOperator

ProcStep(n) ==
  \/ LatestSession(n) \/ ReadSequence(n) \/ SwapSequence(n) \/ CarryState(n) \/ GrantLease(n)
  \/ Register(n) \/ Revoke(n) \/ Crash(n) \/ KeepAliveExpired(n)
  \/ \E p \in Parts, state \in States : Publish(n, p, state)

OperatorStep ==
  \/ RevokeLiveLease \/ ListRecords
  \/ \E keys \in SUBSET operator.keys : DeleteBatch(keys) \/ FailBatch(keys)
  \/ \E i \in Instances : RevokeLive(i)
  \/ \E i \in Instances, s \in SessionIds, p \in Parts, state \in States : Inject(i, s, p, state)

RegNext ==
  \/ \E n \in Procs : ProcStep(n)
  \/ \E s \in SessionIds : ExpireLease(s)
  \/ OperatorStep

RegSpec == RegInit /\ [][RegNext]_vars

\* What the runtimes do: the processes of an instance follow one another, and
\* no operator touches records (participant.rs registers with register alone).
Alone(n) == \A m \in Procs \ {n} : InstanceOf[m] = InstanceOf[n] => proc[m].pc = "out"

SerialNext ==
  \/ \E n \in Procs : Alone(n) /\ ProcStep(n)
  \/ \E s \in SessionIds : ExpireLease(s)
  \/ RevokeLiveLease
  \/ \E i \in Instances : RevokeLive(i)

SerialSpec == RegInit /\ [][SerialNext]_vars

-----------------------------------------------------------------------------
\* When the last batch is deleted, the records left are exactly those that were
\* written, by a registration or a publication, after the keys were listed or, at a
\* listed key, after its batch (remove_current_states_for_resource): no old record
\* survives, and none is lost but a listed one that was written again before its batch,
\* which the unconditional delete takes.
RemovalIsExact ==
  [][operator.pc = "remove" /\ operator'.pc = "idle" =>
       \A s \in SessionIds, p \in Parts :
         record'[s][p] # Absent <=> <<s, p>> \in operator.touched \ operator.keys]_vars

\* Processes that follow one another implement Sessions: each new session has a
\* larger number than every earlier one of its instance and carries exactly the
\* partitions of the latest, whatever expires, is revoked or dies in between.
SessionsImplemented == Spec

=============================================================================
