------------------------- MODULE RegistrationProofs -------------------------
(***************************************************************************)
(* Participant sessions, for any processes, instances and partitions and   *)
(* any bounds: the registration in steps is well typed, the removal of     *)
(* records leaves exactly the new ones, and processes that follow one      *)
(* another implement the sessions of module Sessions.                      *)
(***************************************************************************)
EXTENDS Registration, NaturalsInduction, WellFoundedInduction, TLAPS

\* A leaf goes to Zenon; one that needs arithmetic, or the theory of functions
\* and records, cites SMT.
USE ZenonT(60)
-----------------------------------------------------------------------------
(***************************************************************************)
(* The latest session.                                                     *)
(***************************************************************************)
\* A non-empty set of bounded numbers has a largest one.
LEMMA LargestExists ==
  ASSUME NEW n \in Nat, NEW S \in SUBSET (1..n), S # {}
  PROVE  \E x \in S : \A y \in S : y <= x
<1> DEFINE T == {n - x : x \in S}
<1>1. T \subseteq Nat /\ T # {}
  <2>1. PICK x \in S : TRUE
    OBVIOUS
  <2>2. n - x \in T
    BY <2>1
  <2>3. \A y \in S : n - y \in Nat
    BY SMT
  <2> QED
    BY <2>2, <2>3
<1>2. PICK t \in T : \A u \in T : ~(<<u, t>> \in OpToRel(<, Nat))
  BY <1>1, NatLessThanWellFounded, WFMin
<1>3. \A u \in T : ~(u < t)
  BY <1>1, <1>2 DEF OpToRel
<1>4. PICK x \in S : t = n - x
  BY DEF T
<1>5. \A y \in S : ~(n - y < n - x)
  BY <1>3, <1>4
<1> QED
  BY SMT, <1>5

\* latest_session finds a session that the instance has had, or none.
LEMMA LatestIsKnown ==
  ASSUME MaxSession \in Nat, NEW S \in SUBSET SessionIds
  PROVE  /\ Latest(S) \in 0..MaxSession
         /\ Latest(S) # 0 => Latest(S) \in S
<1>1. CASE S = {}
  BY SMT, <1>1 DEF Latest
<1>2. CASE S # {}
  <2>1. \E x \in S : \A y \in S : y <= x
    BY <1>2, LargestExists DEF SessionIds
  <2>2. Latest(S) = CHOOSE x \in S : \A y \in S : y <= x
    BY <1>2 DEF Latest
  <2>3. Latest(S) \in S
    BY <2>1, <2>2
  <2>4. \A l \in S : l \in 0..MaxSession
    BY SMT DEF SessionIds
  <2> QED
    BY <2>3, <2>4
<1> QED
  BY <1>1, <1>2

-----------------------------------------------------------------------------
(***************************************************************************)
(* Types.                                                                  *)
(***************************************************************************)
\* Processes that have a session.
Numbered == {"carry", "grant", "register", "running"}

\* allocate_session counts its attempts, and the number it read has a successor.
RegTypeOK ==
  /\ TypeOK
  /\ \A n \in Procs :
       /\ proc[n].tries < MaxTries /\ (proc[n].pc = "swap" => proc[n].read < MaxSession)
       /\ proc[n].pc \in Numbered => proc[n].session # 0

LEMMA EmptyType == Empty \in Records
  BY DEF Empty, Records

LEMMA NoProcType ==
  ASSUME RegistrationAssumption
  PROVE  /\ NoProc \in ProcStates
         /\ NoProc.pc = "out" /\ NoProc.session = 0 /\ NoProc.tries = 0
  BY SMT, EmptyType DEF NoProc, ProcStates, RegistrationAssumption

LEMMA NoOperatorType ==
  ASSUME RegistrationAssumption
  PROVE  NoOperator \in OperatorStates /\ NoOperator.pc = "idle"
  BY SMT DEF NoOperator, OperatorStates, RegistrationAssumption

LEMMA CarriedType ==
  ASSUME RegistrationAssumption, TypeOK, NEW s \in 0..MaxSession
  PROVE  CarriedFrom(s) \in Records
<1>1. CASE s = 0
  BY <1>1, EmptyType DEF CarriedFrom
<1>2. CASE s # 0
  <2>1. Initial \in States
    BY DEF RegistrationAssumption
  <2>2. CarriedFrom(s) = [p \in Parts |-> IF record[s][p] = Absent THEN Absent ELSE Initial]
    BY <1>2 DEF CarriedFrom, Carried
  <2> QED
    BY <2>1, <2>2 DEF Records
<1> QED
  BY <1>1, <1>2

\* A process moves and the others stay.
LEMMA Moved ==
  ASSUME proc \in [Procs -> ProcStates], NEW n \in Procs, NEW r \in ProcStates, Move(n, r)
  PROVE  /\ proc' \in [Procs -> ProcStates] /\ proc'[n] = r
         /\ \A m \in Procs \ {n} : proc'[m] = proc[m]
  BY DEF Move

\* What the steps of a process do to it.
LEMMA LatestSessionMoves ==
  ASSUME RegistrationAssumption, RegTypeOK, NEW n \in Procs, LatestSession(n)
  PROVE  /\ proc' \in [Procs -> ProcStates]
         /\ \A m \in Procs \ {n} : proc'[m] = proc[m]
         /\ proc'[n].pc = "allocate" /\ proc'[n].session = 0 /\ proc'[n].tries < MaxTries
         /\ proc'[n].previous = Latest(known[InstanceOf[n]])
<1>1. PICK l : l = Latest(known[InstanceOf[n]])
  OBVIOUS
<1>2. l \in 0..MaxSession
  BY <1>1, LatestIsKnown DEF RegTypeOK, TypeOK, RegistrationAssumption
<1>3. PICK t : t = [NoProc EXCEPT !.pc = "allocate", !.previous = l]
  OBVIOUS
<1>4. /\ t \in ProcStates
      /\ t.pc = "allocate" /\ t.previous = l /\ t.session = 0 /\ t.tries = 0
  BY <1>2, <1>3, NoProcType DEF ProcStates
<1>5. Move(n, t)
  BY <1>1, <1>3 DEF LatestSession
<1> QED
  BY SMT, <1>1, <1>4, <1>5, Moved DEF RegTypeOK, TypeOK, RegistrationAssumption

LEMMA ReadSequenceMoves ==
  ASSUME RegistrationAssumption, RegTypeOK, NEW n \in Procs, ReadSequence(n)
  PROVE  /\ proc' \in [Procs -> ProcStates]
         /\ \A m \in Procs \ {n} : proc'[m] = proc[m]
         /\ proc'[n].pc = "swap" /\ proc'[n].session = proc[n].session /\ proc'[n].tries < MaxTries
         /\ proc'[n].previous = proc[n].previous /\ proc'[n].read < MaxSession
<1>1. proc[n] \in ProcStates /\ sequence \in 0..MaxSession
  BY DEF RegTypeOK, TypeOK
<1>2. PICK t : t = [proc[n] EXCEPT !.pc = "swap", !.read = sequence]
  OBVIOUS
<1>3. /\ t \in ProcStates
      /\ t.pc = "swap" /\ t.previous = proc[n].previous /\ t.session = proc[n].session
      /\ t.tries = proc[n].tries /\ t.read = sequence
  BY <1>1, <1>2 DEF ProcStates
<1>4. Move(n, t) /\ sequence < MaxSession
  BY <1>2 DEF ReadSequence
<1> QED
  BY <1>3, <1>4, Moved DEF RegTypeOK, TypeOK

LEMMA SwapSequenceMoves ==
  ASSUME RegistrationAssumption, RegTypeOK, NEW n \in Procs, SwapSequence(n)
  PROVE  /\ proc' \in [Procs -> ProcStates]
         /\ \A m \in Procs \ {n} : proc'[m] = proc[m]
         /\ proc'[n].tries < MaxTries
         /\ \/ /\ sequence' = sequence + 1 /\ sequence' \in 0..MaxSession
               /\ proc'[n].pc = "carry" /\ proc'[n].session = sequence + 1
               /\ proc'[n].previous = proc[n].previous
            \/ /\ sequence' = sequence
               /\ \/ proc'[n].pc = "out" /\ proc'[n].session = 0
                  \/ /\ proc'[n].pc = "allocate" /\ proc'[n].session = proc[n].session
                     /\ proc'[n].previous = proc[n].previous
<1>1. proc[n] \in ProcStates /\ proc \in [Procs -> ProcStates]
  BY DEF RegTypeOK, TypeOK
<1>2. proc[n].tries < MaxTries /\ proc[n].pc = "swap" /\ proc[n].read < MaxSession
  BY DEF RegTypeOK, SwapSequence
<1>3. CASE sequence = proc[n].read
  <2>1. PICK t : t = [proc[n] EXCEPT !.pc = "carry", !.session = proc[n].read + 1]
    OBVIOUS
  <2>2. proc[n].read + 1 \in 0..MaxSession /\ proc[n].read \in 0..MaxSession
    BY SMT, <1>1, <1>2 DEF ProcStates, RegistrationAssumption
  <2>3. /\ t \in ProcStates
        /\ t.pc = "carry" /\ t.previous = proc[n].previous /\ t.session = proc[n].read + 1
        /\ t.tries = proc[n].tries
    BY <1>1, <2>1, <2>2 DEF ProcStates
  <2>4. Move(n, t) /\ sequence' = proc[n].read + 1
    BY <1>3, <2>1 DEF SwapSequence
  <2> QED
    BY <1>1, <1>2, <1>3, <2>2, <2>3, <2>4, Moved
<1>4. CASE sequence # proc[n].read
  <2>1. sequence' = sequence
    BY <1>4 DEF SwapSequence
  <2>2. CASE proc[n].tries + 1 = MaxTries
    <3>1. Move(n, NoProc)
      BY <1>4, <2>2 DEF SwapSequence
    <3> QED
      BY SMT, <1>1, <2>1, <3>1, Moved, NoProcType DEF RegistrationAssumption
  <2>3. CASE proc[n].tries + 1 # MaxTries
    <3>1. PICK t : t = [proc[n] EXCEPT !.pc = "allocate", !.tries = proc[n].tries + 1]
      OBVIOUS
    <3>2. proc[n].tries + 1 \in 0..MaxTries /\ proc[n].tries + 1 < MaxTries
      BY SMT, <1>1, <1>2, <2>3 DEF ProcStates, RegistrationAssumption
    <3>3. /\ t \in ProcStates
          /\ t.pc = "allocate" /\ t.previous = proc[n].previous /\ t.session = proc[n].session
          /\ t.tries = proc[n].tries + 1
      BY <1>1, <3>1, <3>2 DEF ProcStates
    <3>4. Move(n, t)
      BY <1>4, <2>3, <3>1 DEF SwapSequence
    <3> QED
      BY <1>1, <2>1, <3>2, <3>3, <3>4, Moved
  <2> QED
    BY <2>2, <2>3
<1> QED
  BY <1>3, <1>4

LEMMA CarryStateMoves ==
  ASSUME RegistrationAssumption, RegTypeOK, NEW n \in Procs, CarryState(n)
  PROVE  /\ proc' \in [Procs -> ProcStates]
         /\ \A m \in Procs \ {n} : proc'[m] = proc[m]
         /\ proc'[n].pc = "grant" /\ proc'[n].session = proc[n].session /\ proc'[n].tries < MaxTries
         /\ proc'[n].previous = proc[n].previous
         /\ proc'[n].carried = CarriedFrom(proc[n].previous)
<1>1. proc[n] \in ProcStates
  BY DEF RegTypeOK, TypeOK
<1>2. PICK c : c = CarriedFrom(proc[n].previous)
  OBVIOUS
<1>3. c \in Records
  BY <1>1, <1>2, CarriedType DEF ProcStates, RegTypeOK
<1>4. PICK t : t = [proc[n] EXCEPT !.pc = "grant", !.carried = c]
  OBVIOUS
<1>5. /\ t \in ProcStates
      /\ t.pc = "grant" /\ t.previous = proc[n].previous /\ t.session = proc[n].session
      /\ t.tries = proc[n].tries /\ t.carried = c
  BY <1>1, <1>3, <1>4 DEF ProcStates
<1>6. Move(n, t)
  BY <1>2, <1>4 DEF CarryState
<1> QED
  BY <1>2, <1>5, <1>6, Moved DEF RegTypeOK, TypeOK

\* A process that takes its lease or is registered keeps everything but its pc.
LEMMA PcMoves ==
  ASSUME RegTypeOK, NEW n \in Procs, NEW pc \in {"register", "running"},
         Move(n, [proc[n] EXCEPT !.pc = pc])
  PROVE  /\ proc' \in [Procs -> ProcStates]
         /\ \A m \in Procs \ {n} : proc'[m] = proc[m]
         /\ proc'[n].pc = pc /\ proc'[n].session = proc[n].session /\ proc'[n].tries < MaxTries
         /\ proc'[n].previous = proc[n].previous /\ proc'[n].carried = proc[n].carried
<1>1. proc[n] \in ProcStates
  BY DEF RegTypeOK, TypeOK
<1>2. PICK t : t = [proc[n] EXCEPT !.pc = pc]
  OBVIOUS
<1>3. /\ t \in ProcStates
      /\ t.pc = pc /\ t.previous = proc[n].previous /\ t.session = proc[n].session
      /\ t.tries = proc[n].tries /\ t.carried = proc[n].carried
  BY <1>1, <1>2 DEF ProcStates
<1> QED
  BY <1>2, <1>3, Moved DEF RegTypeOK, TypeOK

LEMMA OutMoves ==
  ASSUME RegistrationAssumption, RegTypeOK, NEW n \in Procs, Move(n, NoProc)
  PROVE  /\ proc' \in [Procs -> ProcStates]
         /\ \A m \in Procs \ {n} : proc'[m] = proc[m]
         /\ proc'[n].pc = "out" /\ proc'[n].session = 0 /\ proc'[n].tries < MaxTries
  BY SMT, NoProcType, Moved DEF RegTypeOK, TypeOK, RegistrationAssumption

\* A step of a process keeps its own record well typed.
LEMMA ProcType ==
  ASSUME RegistrationAssumption, RegTypeOK, NEW n \in Procs, ProcStep(n)
  PROVE  /\ proc' \in [Procs -> ProcStates]
         /\ \A m \in Procs :
              /\ proc'[m].tries < MaxTries /\ (proc'[m].pc = "swap" => proc'[m].read < MaxSession)
              /\ proc'[m].pc \in Numbered => proc'[m].session # 0
         /\ sequence' \in 0..MaxSession
<1> USE DEF Numbered
<1>0. /\ proc \in [Procs -> ProcStates] /\ sequence \in 0..MaxSession
      /\ \A m \in Procs :
           /\ proc[m].tries < MaxTries /\ (proc[m].pc = "swap" => proc[m].read < MaxSession)
           /\ proc[m].pc \in Numbered => proc[m].session # 0
  BY DEF RegTypeOK, TypeOK
<1>1. CASE LatestSession(n)
  <2>1. sequence' = sequence
    BY <1>1 DEF LatestSession
  <2> QED
    BY <1>0, <1>1, <2>1, LatestSessionMoves
<1>2. CASE ReadSequence(n)
  <2>1. sequence' = sequence
    BY <1>2 DEF ReadSequence
  <2> QED
    BY <1>0, <1>2, <2>1, ReadSequenceMoves
<1>3. CASE SwapSequence(n)
  BY SMT, <1>0, <1>3, SwapSequenceMoves
<1>4. CASE CarryState(n)
  <2>1. sequence' = sequence /\ proc[n].pc = "carry"
    BY <1>4 DEF CarryState
  <2> QED
    BY <1>0, <1>4, <2>1, CarryStateMoves
<1>5. CASE GrantLease(n)
  <2>1. sequence' = sequence /\ proc[n].pc = "grant" /\ Move(n, [proc[n] EXCEPT !.pc = "register"])
    BY <1>5 DEF GrantLease
  <2> QED
    BY <1>0, <2>1, PcMoves
<1>6. CASE Register(n)
  <2>1. sequence' = sequence /\ proc[n].pc = "register"
    BY <1>6 DEF Register
  <2>2. Move(n, [proc[n] EXCEPT !.pc = "running"]) \/ Move(n, NoProc)
    BY <1>6 DEF Register
  <2> QED
    BY <1>0, <2>1, <2>2, PcMoves, OutMoves
<1>7. CASE Revoke(n) \/ Crash(n) \/ KeepAliveExpired(n)
  <2>1. sequence' = sequence /\ Move(n, NoProc)
    BY <1>7 DEF Revoke, Crash, KeepAliveExpired
  <2> QED
    BY <1>0, <2>1, OutMoves
<1>8. CASE \E p \in Parts, state \in States : Publish(n, p, state)
  <2>1. proc' = proc /\ sequence' = sequence
    BY <1>8 DEF Publish
  <2> QED
    BY <1>0, <2>1
<1> QED
  BY <1>1, <1>2, <1>3, <1>4, <1>5, <1>6, <1>7, <1>8 DEF ProcStep

\* The end of a lease keeps the live keys well typed.
LEMMA EndLeaseType ==
  ASSUME RegistrationAssumption, TypeOK, NEW s, EndLease(s)
  PROVE  /\ live' \in [Instances -> 0..MaxSession] /\ leases' \subseteq SessionIds
         /\ known' = known /\ record' = record
<1>1. 0 \in 0..MaxSession
  BY SMT DEF RegistrationAssumption
<1>2. live \in [Instances -> 0..MaxSession] /\ leases \subseteq SessionIds
  BY DEF TypeOK
<1>3. /\ leases' = leases \ {s} /\ known' = known /\ record' = record
      /\ live' = [i \in Instances |-> IF live[i] = s THEN 0 ELSE live[i]]
  BY DEF EndLease
<1>4. \A i \in Instances : (IF live[i] = s THEN 0 ELSE live[i]) \in 0..MaxSession
  BY <1>1, <1>2
<1> QED
  BY <1>2, <1>3, <1>4

\* What a step of a process does to the store, by type.
LEMMA ProcStoreType ==
  ASSUME RegistrationAssumption, RegTypeOK, NEW n \in Procs, ProcStep(n)
  PROVE  /\ live' \in [Instances -> 0..MaxSession] /\ known' \in [Instances -> SUBSET SessionIds]
         /\ record' \in [SessionIds -> Records] /\ leases' \subseteq SessionIds
         /\ operator' \in OperatorStates
<1>0. /\ live \in [Instances -> 0..MaxSession] /\ known \in [Instances -> SUBSET SessionIds]
      /\ record \in [SessionIds -> Records] /\ leases \subseteq SessionIds
      /\ operator \in OperatorStates /\ proc[n] \in ProcStates /\ TypeOK
      /\ InstanceOf[n] \in Instances
  BY DEF RegTypeOK, TypeOK, RegistrationAssumption
<1>s. proc[n].pc \in Numbered => proc[n].session \in SessionIds
  BY SMT, <1>0 DEF RegTypeOK, ProcStates, SessionIds, RegistrationAssumption
<1>t. ASSUME NEW keys \in SUBSET (SessionIds \X Parts), Touch(keys)
      PROVE  operator' \in OperatorStates
  BY <1>0, <1>t DEF Touch, OperatorStates
<1>1. CASE LatestSession(n) \/ ReadSequence(n) \/ SwapSequence(n) \/ CarryState(n) \/ Crash(n)
           \/ KeepAliveExpired(n)
  BY <1>0, <1>1 DEF LatestSession, ReadSequence, SwapSequence, CarryState, Crash, KeepAliveExpired,
    sessionState
<1>2. CASE GrantLease(n)
  BY <1>0, <1>2, <1>s DEF GrantLease, Numbered, sessionState
<1>3. CASE Register(n)
  <2> DEFINE i == InstanceOf[n]
             s == proc[n].session
  <2>1. s \in SessionIds /\ s \in 0..MaxSession
    BY <1>0, <1>3, <1>s DEF Register, Numbered, ProcStates
  <2>2. CASE live[i] = 0 /\ s \in leases
    <3>1. /\ live' = [live EXCEPT ![i] = s]
          /\ known' = [known EXCEPT ![i] = known[i] \cup {s}]
          /\ record' = [record EXCEPT ![s] =
               [p \in Parts |-> IF proc[n].carried[p] = Absent THEN record[s][p] ELSE proc[n].carried[p]]]
          /\ leases' = leases /\ Touch({s} \X {p \in Parts : proc[n].carried[p] # Absent})
      BY <1>3, <2>2 DEF Register
    <3>2. [p \in Parts |-> IF proc[n].carried[p] = Absent THEN record[s][p] ELSE proc[n].carried[p]]
            \in Records
      BY SMT, <1>0, <2>1 DEF ProcStates, Records
    <3>3. record' \in [SessionIds -> Records]
      BY <1>0, <3>1, <3>2
    <3> QED
      BY <1>0, <1>t, <2>1, <3>1, <3>3
  <2>3. CASE ~(live[i] = 0 /\ s \in leases)
    BY <1>0, <1>3, <2>3 DEF Register, sessionState
  <2> QED
    BY <2>2, <2>3
<1>4. CASE Revoke(n)
  BY <1>0, <1>4, EndLeaseType DEF Revoke
<1>5. CASE \E p \in Parts, state \in States : Publish(n, p, state)
  <2>1. PICK p \in Parts, state \in States : Publish(n, p, state)
    BY <1>5
  <2>2. /\ proc[n].session \in SessionIds /\ live' = live /\ known' = known /\ leases' = leases
        /\ record' = [record EXCEPT ![proc[n].session][p] = state]
        /\ Touch({<<proc[n].session, p>>})
    BY <1>s, <2>1 DEF Publish, Numbered
  <2>3. record' \in [SessionIds -> Records]
    BY <1>0, <2>2 DEF Records
  <2>4. {<<proc[n].session, p>>} \in SUBSET (SessionIds \X Parts)
    BY SMT, <2>2
  <2>5. operator' \in OperatorStates
    BY <1>t, <2>2, <2>4
  <2> QED
    BY <1>0, <2>2, <2>3, <2>5
<1> QED
  BY <1>1, <1>2, <1>3, <1>4, <1>5 DEF ProcStep

LEMMA WithoutType ==
  ASSUME record \in [SessionIds -> Records], NEW keys
  PROVE  Without(keys) \in [SessionIds -> Records]
  BY DEF Without, Records

LEMMA OperatorType ==
  ASSUME RegistrationAssumption, TypeOK, OperatorStep
  PROVE  /\ live' \in [Instances -> 0..MaxSession] /\ known' \in [Instances -> SUBSET SessionIds]
         /\ record' \in [SessionIds -> Records] /\ leases' \subseteq SessionIds
         /\ operator' \in OperatorStates /\ UNCHANGED <<sequence, proc>>
<1>0. /\ live \in [Instances -> 0..MaxSession] /\ known \in [Instances -> SUBSET SessionIds]
      /\ record \in [SessionIds -> Records] /\ leases \subseteq SessionIds
      /\ operator \in OperatorStates /\ NoOperator \in OperatorStates /\ 0 \in 0..MaxSession
  BY SMT, NoOperatorType DEF TypeOK, RegistrationAssumption
<1>1. CASE RevokeLiveLease
  BY <1>0, <1>1, EndLeaseType DEF RevokeLiveLease, sessionState
<1>2. CASE ListRecords
  <2>1. PICK K : K = {k \in SessionIds \X Parts : record[k[1]][k[2]] # Absent}
    OBVIOUS
  <2>2. PICK o : o = [NoOperator EXCEPT !.pc = "remove", !.keys = K]
    OBVIOUS
  <2>3. o \in OperatorStates
    BY <1>0, <2>1, <2>2 DEF OperatorStates
  <2> QED
    BY <1>0, <1>2, <2>1, <2>2, <2>3 DEF ListRecords, sessionState
<1>3. CASE \E keys \in SUBSET operator.keys : DeleteBatch(keys)
  <2>1. PICK keys \in SUBSET operator.keys : DeleteBatch(keys)
    BY <1>3
  <2>2. record' \in [SessionIds -> Records]
    BY <1>0, <2>1, WithoutType DEF DeleteBatch
  <2>3. operator' \in OperatorStates
    BY <1>0, <2>1 DEF DeleteBatch, OperatorStates
  <2> QED
    BY <1>0, <2>1, <2>2, <2>3 DEF DeleteBatch
<1>6. CASE \E keys \in SUBSET operator.keys : FailBatch(keys)
  <2>1. PICK keys \in SUBSET operator.keys : FailBatch(keys)
    BY <1>6
  <2>2. record' \in [SessionIds -> Records]
    <3>1. record' = record \/ record' = Without(keys)
      BY <2>1 DEF FailBatch
    <3>2. Without(keys) \in [SessionIds -> Records]
      BY <1>0, WithoutType
    <3> QED
      BY <1>0, <3>1, <3>2
  <2>3. PICK o : o = [NoOperator EXCEPT !.pc = "failed"]
    OBVIOUS
  <2>4. o \in OperatorStates
    BY <1>0, <2>3 DEF OperatorStates
  <2> QED
    BY <1>0, <2>1, <2>2, <2>3, <2>4 DEF FailBatch
<1>4. CASE \E i \in Instances : RevokeLive(i)
  <2>1. PICK i \in Instances : RevokeLive(i)
    BY <1>4
  <2>2. PICK o : o = [NoOperator EXCEPT !.pc = "revoke", !.session = live[i]]
    OBVIOUS
  <2>3. o \in OperatorStates
    BY <1>0, <2>2 DEF OperatorStates
  <2> QED
    BY <1>0, <2>1, <2>2, <2>3 DEF RevokeLive
<1>5. CASE \E i \in Instances, s \in SessionIds, p \in Parts, state \in States : Inject(i, s, p, state)
  <2>1. PICK i \in Instances, s \in SessionIds, p \in Parts, state \in States : Inject(i, s, p, state)
    BY <1>5
  <2>2. record' \in [SessionIds -> Records]
    BY <1>0, <2>1 DEF Inject, Records
  <2> QED
    BY <1>0, <2>1, <2>2 DEF Inject
<1> QED
  BY <1>1, <1>2, <1>3, <1>4, <1>5, <1>6 DEF OperatorStep

LEMMA RegTypeStep ==
  ASSUME RegistrationAssumption, RegTypeOK, [RegNext]_vars
  PROVE  RegTypeOK'
<1>1. CASE \E n \in Procs : ProcStep(n)
  BY <1>1, ProcType, ProcStoreType DEF RegTypeOK, TypeOK
<1>2. CASE \E s \in SessionIds : ExpireLease(s)
  BY <1>2, EndLeaseType DEF RegTypeOK, TypeOK, ExpireLease
<1>3. CASE OperatorStep
  BY <1>3, OperatorType DEF RegTypeOK, TypeOK
<1>4. CASE UNCHANGED vars
  BY <1>4 DEF vars, sessionState, RegTypeOK, TypeOK
<1> QED
  BY <1>1, <1>2, <1>3, <1>4 DEF RegNext

LEMMA RegTypeInit == ASSUME RegistrationAssumption, RegInit PROVE RegTypeOK
<1>1. MaxTries > 0 /\ 0 \in 0..MaxSession
  BY SMT DEF RegistrationAssumption
<1>2. TypeOK
  BY <1>1, NoProcType, NoOperatorType, EmptyType DEF RegInit, Init, TypeOK
<1> QED
  BY <1>1, <1>2, NoProcType DEF RegInit, RegTypeOK, Numbered

\* Registrations, publications, expiries and the operator's requests keep the session
\* keys, the sequence and what a process remembers between its requests well typed
\* (session.rs).
THEOREM RegistrationTypes ==
  ASSUME RegistrationAssumption PROVE RegSpec => []RegTypeOK
  BY RegTypeInit, RegTypeStep, PTL DEF RegSpec

-----------------------------------------------------------------------------
(***************************************************************************)
(* The removal of records.                                                 *)
(***************************************************************************)
Present(s, p) == record[s][p] # Absent

\* While the keys are deleted, every record is listed or has been written since, and what
\* has been written since is there.
RemovalOK ==
  operator.pc = "remove" =>
    \A s \in SessionIds, p \in Parts :
      /\ Present(s, p) => <<s, p>> \in operator.keys \/ <<s, p>> \in operator.touched
      /\ <<s, p>> \in operator.touched => Present(s, p)

\* A registration or a publication is noted, and deletes nothing.
LEMMA WrittenIsTouched ==
  ASSUME RegistrationAssumption, RegTypeOK, NEW n \in Procs, ProcStep(n)
  PROVE  /\ operator'.pc = operator.pc /\ operator'.keys = operator.keys
         /\ operator.pc = "remove" =>
              \A s \in SessionIds, p \in Parts :
                /\ Present(s, p)' => Present(s, p) \/ <<s, p>> \in operator'.touched
                /\ Present(s, p) => Present(s, p)'
                /\ <<s, p>> \in operator'.touched => <<s, p>> \in operator.touched \/ Present(s, p)'
                /\ <<s, p>> \in operator.touched => <<s, p>> \in operator'.touched
<1> DEFINE Writes(keys) ==
             /\ Touch(keys)
             /\ \A s \in SessionIds, p \in Parts :
                  IF <<s, p>> \in keys THEN Present(s, p)' ELSE Present(s, p)' <=> Present(s, p)
<1>0. operator \in OperatorStates /\ record \in [SessionIds -> Records] /\ Absent \notin States
  BY DEF RegTypeOK, TypeOK, RegistrationAssumption
<1>1. CASE UNCHANGED <<record, operator>>
  BY <1>1 DEF Present
<1>2. ASSUME NEW keys, Writes(keys)
      PROVE  /\ operator'.pc = operator.pc /\ operator'.keys = operator.keys
             /\ operator.pc = "remove" => operator'.touched = operator.touched \cup keys
  BY <1>0, <1>2 DEF Touch, OperatorStates
<1>3. CASE \E keys : Writes(keys)
  <2>1. PICK keys : Writes(keys)
    BY <1>3
  <2>2. /\ operator'.pc = operator.pc /\ operator'.keys = operator.keys
        /\ operator.pc = "remove" => operator'.touched = operator.touched \cup keys
    BY <1>2, <2>1
  <2>3. ASSUME operator.pc = "remove", NEW s \in SessionIds, NEW p \in Parts
        PROVE  /\ Present(s, p)' => Present(s, p) \/ <<s, p>> \in operator'.touched
               /\ Present(s, p) => Present(s, p)'
               /\ <<s, p>> \in operator'.touched => <<s, p>> \in operator.touched \/ Present(s, p)'
               /\ <<s, p>> \in operator.touched => <<s, p>> \in operator'.touched
    <3>1. IF <<s, p>> \in keys THEN Present(s, p)' ELSE Present(s, p)' <=> Present(s, p)
      BY <2>1
    <3>2. operator'.touched = operator.touched \cup keys
      BY <2>2, <2>3
    <3> QED
      BY <3>1, <3>2
  <2> QED
    BY <2>2, <2>3
<1>4. UNCHANGED <<record, operator>> \/ \E keys : Writes(keys)
  <2>1. CASE Register(n)
    <3>1. CASE live[InstanceOf[n]] = 0 /\ proc[n].session \in leases
      <4> DEFINE t == proc[n].session
                 carried == proc[n].carried
                 merged == [p \in Parts |-> IF carried[p] = Absent THEN record[t][p] ELSE carried[p]]
      <4>1. Touch({t} \X {p \in Parts : carried[p] # Absent}) /\ record' = [record EXCEPT ![t] = merged]
        BY <2>1, <3>1 DEF Register
      <4>2. ASSUME NEW s \in SessionIds, NEW p \in Parts
            PROVE  record'[s][p] = IF s = t /\ carried[p] # Absent THEN carried[p] ELSE record[s][p]
        <5>1. record'[s] = IF s = t THEN merged ELSE record[s]
          BY <1>0, <4>1
        <5> QED
          BY <5>1
      <4>3. Writes({t} \X {p \in Parts : carried[p] # Absent})
        <5>1. \A s \in SessionIds, p \in Parts :
                <<s, p>> \in {t} \X {q \in Parts : carried[q] # Absent} <=> s = t /\ carried[p] # Absent
          BY SMT
        <5>2. \A s \in SessionIds, p \in Parts :
                IF s = t /\ carried[p] # Absent THEN Present(s, p)' ELSE Present(s, p)' <=> Present(s, p)
          BY <4>2 DEF Present
        <5> QED
          BY <4>1, <5>1, <5>2
      <4> QED
        BY <4>3
    <3>2. CASE ~(live[InstanceOf[n]] = 0 /\ proc[n].session \in leases)
      BY <2>1, <3>2 DEF Register, sessionState
    <3> QED
      BY <3>1, <3>2
  <2>2. CASE \E p \in Parts, state \in States : Publish(n, p, state)
    <3>1. PICK q \in Parts, state \in States : Publish(n, q, state)
      BY <2>2
    <3> DEFINE t == proc[n].session
    <3>2. Touch({<<t, q>>}) /\ record' = [record EXCEPT ![t][q] = state]
      BY <3>1 DEF Publish
    <3>3. ASSUME NEW s \in SessionIds, NEW p \in Parts
          PROVE  record'[s][p] = IF s = t /\ p = q THEN state ELSE record[s][p]
      BY <1>0, <3>2 DEF Records
    <3>4. Writes({<<t, q>>})
      <4>1. \A s \in SessionIds, p \in Parts : <<s, p>> \in {<<t, q>>} <=> s = t /\ p = q
        BY SMT
      <4>2. \A s \in SessionIds, p \in Parts :
              IF s = t /\ p = q THEN Present(s, p)' ELSE Present(s, p)' <=> Present(s, p)
        BY <1>0, <3>3 DEF Present
      <4> QED
        BY <3>2, <4>1, <4>2
    <3> QED
      BY <3>4
  <2>3. CASE Revoke(n)
    BY <2>3 DEF Revoke, EndLease
  <2>4. CASE ~Register(n) /\ ~(\E p \in Parts, state \in States : Publish(n, p, state)) /\ ~Revoke(n)
    BY <2>4 DEF ProcStep, LatestSession, ReadSequence, SwapSequence, CarryState, GrantLease, Crash,
      KeepAliveExpired, sessionState
  <2> QED
    BY <2>1, <2>2, <2>3, <2>4
<1> QED
  BY <1>1, <1>3, <1>4

LEMMA FailedPc == [NoOperator EXCEPT !.pc = "failed"].pc = "failed"
  BY DEF NoOperator

LEMMA RemovalStep ==
  ASSUME RegistrationAssumption, RegTypeOK, RemovalOK, [RegNext]_vars
  PROVE  RemovalOK'
<1>0. operator \in OperatorStates /\ record \in [SessionIds -> Records]
  BY DEF RegTypeOK, TypeOK
<1>1. CASE \E n \in Procs : ProcStep(n)
  <2>1. PICK n \in Procs : ProcStep(n)
    BY <1>1
  <2>2. /\ operator'.pc = operator.pc /\ operator'.keys = operator.keys
        /\ operator.pc = "remove" =>
             \A s \in SessionIds, p \in Parts :
               /\ Present(s, p)' => Present(s, p) \/ <<s, p>> \in operator'.touched
               /\ Present(s, p) => Present(s, p)'
               /\ <<s, p>> \in operator'.touched => <<s, p>> \in operator.touched \/ Present(s, p)'
               /\ <<s, p>> \in operator.touched => <<s, p>> \in operator'.touched
    BY <2>1, WrittenIsTouched
  <2> QED
    BY <2>2 DEF RemovalOK
<1>2. CASE \E s \in SessionIds : ExpireLease(s)
  BY <1>2 DEF ExpireLease, EndLease, RemovalOK, Present
<1>3. CASE RevokeLiveLease \/ \E i \in Instances : RevokeLive(i)
  <2>1. operator'.pc # "remove"
    <3>1. CASE RevokeLiveLease
      BY <3>1 DEF RevokeLiveLease, NoOperator
    <3>2. ASSUME NEW i \in Instances, RevokeLive(i)
          PROVE  operator'.pc = "revoke"
      <4>1. PICK o : o = [NoOperator EXCEPT !.pc = "revoke", !.session = live[i]]
        OBVIOUS
      <4>2. o.pc = "revoke"
        BY <4>1 DEF NoOperator
      <4> QED
        BY <3>2, <4>1, <4>2 DEF RevokeLive
    <3> QED
      BY <1>3, <3>1, <3>2
  <2> QED
    BY <2>1 DEF RemovalOK
<1>4. CASE \E i \in Instances, s \in SessionIds, p \in Parts, state \in States : Inject(i, s, p, state)
  <2>1. operator.pc # "remove" /\ operator' = operator
    BY <1>4 DEF Inject, Free
  <2> QED
    BY <2>1 DEF RemovalOK
<1>5. CASE ListRecords
  <2>1. PICK K : K = {k \in SessionIds \X Parts : record[k[1]][k[2]] # Absent}
    OBVIOUS
  <2>2. PICK o : o = [NoOperator EXCEPT !.pc = "remove", !.keys = K]
    OBVIOUS
  <2>3. o.keys = K /\ o.touched = {}
    BY <2>2 DEF NoOperator
  <2>4. operator' = o /\ record' = record
    BY <1>5, <2>1, <2>2 DEF ListRecords, sessionState
  <2>5. \A s \in SessionIds, p \in Parts : record[s][p] # Absent => <<s, p>> \in K
    BY <2>1
  <2> QED
    BY <2>3, <2>4, <2>5 DEF RemovalOK, Present
<1>6. CASE \E keys \in SUBSET operator.keys : DeleteBatch(keys)
  <2>1. PICK keys \in SUBSET operator.keys : DeleteBatch(keys)
    BY <1>6
  <2>2. CASE keys = operator.keys
    BY <2>1, <2>2 DEF DeleteBatch, NoOperator, RemovalOK
  <2>3. CASE keys # operator.keys
    <3>1. /\ operator' = [operator EXCEPT !.keys = operator.keys \ keys, !.touched = operator.touched \ keys]
          /\ operator.pc = "remove" /\ record' = Without(keys)
      BY <2>1, <2>3 DEF DeleteBatch, IsBatch
    <3>2. operator'.keys = operator.keys \ keys /\ operator'.touched = operator.touched \ keys
      BY <1>0, <3>1 DEF OperatorStates
    <3>3. \A s \in SessionIds, p \in Parts : Present(s, p)' <=> Present(s, p) /\ <<s, p>> \notin keys
      <4>1. \A s \in SessionIds, p \in Parts :
              Without(keys)[s][p] = IF <<s, p>> \in keys THEN Absent ELSE record[s][p]
        BY DEF Without
      <4> QED
        BY <3>1, <4>1 DEF Present
    <3> QED
      BY <3>1, <3>2, <3>3 DEF RemovalOK
  <2> QED
    BY <2>2, <2>3
<1>7. CASE UNCHANGED vars
  BY <1>7 DEF vars, sessionState, RemovalOK, Present
<1>8. CASE \E keys \in SUBSET operator.keys : FailBatch(keys)
  <2>1. operator'.pc = "failed"
    BY <1>8, FailedPc DEF FailBatch
  <2> QED
    BY <2>1 DEF RemovalOK
<1> QED
  BY <1>1, <1>2, <1>3, <1>4, <1>5, <1>6, <1>7, <1>8 DEF RegNext, OperatorStep

\* Whatever registers and publishes between the batches, when the last batch is deleted no
\* record is left that was there when the keys were listed, and every record is left that
\* was written since, but for those a later batch deletes
\* (remove_current_states_for_resource).
THEOREM RemovalExact ==
  ASSUME RegistrationAssumption PROVE RegSpec => RemovalIsExact
<1> DEFINE A == operator.pc = "remove" /\ operator'.pc = "idle" =>
                  \A s \in SessionIds, p \in Parts :
                    record'[s][p] # Absent <=> <<s, p>> \in operator.touched \ operator.keys
<1>1. RegInit => RemovalOK
  BY SMT DEF RegInit, NoOperator, RemovalOK
<1>2. ASSUME RegTypeOK, RemovalOK, [RegNext]_vars
      PROVE  [A]_vars
  <2> SUFFICES ASSUME operator.pc = "remove", operator'.pc = "idle"
               PROVE  \A s \in SessionIds, p \in Parts :
                        record'[s][p] # Absent <=> <<s, p>> \in operator.touched \ operator.keys
    OBVIOUS
  <2>1. \A n \in Procs : ~ProcStep(n)
    BY <1>2, WrittenIsTouched
  <2>2. \A keys : ~FailBatch(keys)
    BY FailedPc DEF FailBatch
  <2>3. PICK keys \in SUBSET operator.keys : DeleteBatch(keys)
    BY <1>2, <2>1, <2>2 DEF RegNext, OperatorStep, ExpireLease, RevokeLiveLease, ListRecords, RevokeLive,
      Inject, Free, vars
  <2>4. keys = operator.keys
    <3>1. operator \in OperatorStates
      BY <1>2 DEF RegTypeOK, TypeOK
    <3>2. [operator EXCEPT !.keys = operator.keys \ keys, !.touched = operator.touched \ keys].pc = "remove"
      BY <3>1 DEF OperatorStates
    <3> QED
      BY <2>3, <3>2 DEF DeleteBatch
  <2>5. record \in [SessionIds -> Records] /\ record' = Without(keys)
    BY <1>2, <2>3 DEF DeleteBatch, RegTypeOK, TypeOK
  <2>6. \A s \in SessionIds, p \in Parts : record'[s][p] # Absent <=> Present(s, p) /\ <<s, p>> \notin keys
    <3>1. \A s \in SessionIds, p \in Parts :
            Without(keys)[s][p] = IF <<s, p>> \in keys THEN Absent ELSE record[s][p]
      BY DEF Without
    <3> QED
      BY <2>5, <3>1 DEF Present
  <2> QED
    BY <1>2, <2>4, <2>6 DEF RemovalOK
<1>3. RegTypeOK /\ RemovalOK /\ [RegNext]_vars => RemovalOK'
  BY RemovalStep
<1> QED
  BY <1>1, <1>2, <1>3, RegistrationTypes, PTL DEF RegSpec, RemovalIsExact

-----------------------------------------------------------------------------
(***************************************************************************)
(* Processes that follow one another implement Sessions.                   *)
(***************************************************************************)
Unregistered == {"carry", "grant", "register"}

\* A session is in use at one instance at most, has been drawn from the sequence, and has
\* no record before it is registered.
StoreOK ==
  /\ \A i \in Instances :
       /\ live[i] # 0 => live[i] \in known[i]
       /\ \A s \in known[i] : s <= sequence
       /\ \A j \in Instances : i # j => known[i] \cap known[j] = {}
  /\ \A s \in SessionIds : (\A i \in Instances : s \notin known[i]) => record[s] = Empty

\* What a process that registers remembers of its instance is still true, since nobody
\* else registers the instance or reports for it; its session is its own.
ProcOK(n) ==
  LET mine == known[InstanceOf[n]] IN
  /\ proc[n].pc \in {"out", "allocate", "swap"} => proc[n].session = 0
  /\ proc[n].pc \in Unregistered =>
       /\ proc[n].session <= sequence
       /\ \A i \in Instances : proc[n].session \notin known[i]
       /\ \A t \in mine : t < proc[n].session
       /\ \A m \in Procs \ {n} : proc[m].session # proc[n].session
  /\ proc[n].pc = "running" => proc[n].session \in mine
  /\ proc[n].pc \in {"allocate", "swap"} \cup Unregistered => proc[n].previous = Latest(mine)
  /\ proc[n].pc \in {"grant", "register"} => proc[n].carried = CarriedFrom(proc[n].previous)

SerialInv == StoreOK /\ \A n \in Procs : ProcOK(n)

\* A process that another one's step leaves alone.
LEMMA ProcKept ==
  ASSUME NEW n \in Procs, ProcOK(n), proc'[n] = proc[n], sequence' >= sequence,
         sequence \in Nat, sequence' \in Nat, proc[n] \in ProcStates,
         known' = known, record' = record,
         proc[n].pc \in Unregistered => \A m \in Procs \ {n} : proc'[m].session # proc[n].session
  PROVE  ProcOK(n)'
<1>1. CarriedFrom(proc[n].previous)' = CarriedFrom(proc[n].previous)
  BY DEF CarriedFrom, Carried
<1>2. proc[n].session \in Int
  BY SMT DEF ProcStates
<1> QED
  BY SMT, <1>1, <1>2 DEF ProcOK
\* Steps that register and report nothing; the lease of a session may end with one.
Quiet ==
  /\ known' = known /\ record' = record
  /\ \A i \in Instances : live'[i] \in {0, live[i]}

LEMMA QuietStore ==
  ASSUME RegTypeOK, RegTypeOK', StoreOK, Quiet, sequence' >= sequence
  PROVE  StoreOK'
<1>1. /\ \A i \in Instances : known[i] \subseteq SessionIds
      /\ sequence \in Int /\ sequence' \in Int /\ \A s \in SessionIds : s \in Int
  BY SMT DEF RegTypeOK, TypeOK, SessionIds
<1>2. \A i \in Instances : \A s \in known[i] : s <= sequence'
  BY SMTT(30), <1>1 DEF StoreOK
<1> QED
  BY <1>2 DEF Quiet, StoreOK

\* The numbers that are taken, by a process or in the store, are not above the sequence.
LEMMA SessionsTaken ==
  ASSUME RegistrationAssumption, RegTypeOK, SerialInv, NEW n \in Procs
  PROVE  proc[n].session <= sequence /\ sequence \in Nat /\ proc[n].session \in Nat
<1>1. proc[n] \in ProcStates /\ sequence \in Nat /\ proc[n].session \in Nat
  BY SMT DEF RegTypeOK, TypeOK, ProcStates
<1>2. proc[n].pc \in {"out", "allocate", "swap"} \cup Unregistered \cup {"running"}
  BY <1>1 DEF ProcStates, Unregistered
<1>3. ProcOK(n) /\ InstanceOf[n] \in Instances
  BY DEF SerialInv, RegistrationAssumption
<1> QED
  BY SMT, <1>1, <1>2, <1>3 DEF ProcOK, SerialInv, StoreOK

LEMMA QuietStep ==
  ASSUME RegistrationAssumption, RegTypeOK, RegTypeOK', SerialInv, Quiet,
         NEW n \in Procs, \A m \in Procs \ {n} : proc'[m] = proc[m],
         ProcOK(n)',
         (sequence' = sequence /\ proc'[n].session \in {0, proc[n].session})
           \/ (sequence' = sequence + 1 /\ proc'[n].session = sequence + 1)
  PROVE  SerialInv'
<1>1. sequence' >= sequence /\ sequence \in Nat /\ sequence' \in Nat
  BY SMT DEF RegTypeOK, TypeOK
<1>2. StoreOK'
  BY <1>1, QuietStore DEF SerialInv
<1>3. ASSUME NEW m \in Procs \ {n}
      PROVE  ProcOK(m)'
  <2>1. ProcOK(m) /\ proc'[m] = proc[m] /\ proc[m] \in ProcStates
    BY DEF SerialInv, RegTypeOK, TypeOK
  <2>2. proc[m].pc \in Unregistered => proc[m].session # 0
    BY DEF RegTypeOK, Unregistered, Numbered
  <2>3. proc[m].session <= sequence /\ proc[m].session \in Nat
    BY SessionsTaken
  <2>4. proc[m].pc \in Unregistered => \A k \in Procs \ {m} : proc'[k].session # proc[m].session
    <3> SUFFICES ASSUME proc[m].pc \in Unregistered, NEW k \in Procs \ {m}
                 PROVE  proc'[k].session # proc[m].session
      OBVIOUS
    <3>1. proc[k].session # proc[m].session
      BY <2>1 DEF ProcOK
    <3>2. CASE k = n
      BY SMT, <1>1, <2>2, <2>3, <3>1, <3>2
    <3>3. CASE k # n
      BY <3>1, <3>3
    <3> QED
      BY <3>2, <3>3
  <2> QED
    BY <1>1, <2>1, <2>4, ProcKept DEF Quiet
<1> QED
  BY <1>2, <1>3 DEF SerialInv

\* The same when no process moves.
LEMMA QuietStoreStep ==
  ASSUME RegistrationAssumption, RegTypeOK, RegTypeOK', SerialInv, Quiet, UNCHANGED <<sequence, proc>>
  PROVE  SerialInv'
<1>1. sequence \in Nat /\ sequence' >= sequence
  BY SMT DEF RegTypeOK, TypeOK
<1>2. StoreOK'
  BY <1>1, QuietStore DEF SerialInv
<1>3. ASSUME NEW m \in Procs
      PROVE  ProcOK(m)'
  <2>1. ProcOK(m) /\ proc'[m] = proc[m] /\ proc[m] \in ProcStates
    BY DEF SerialInv, RegTypeOK, TypeOK
  <2>2. proc[m].pc \in Unregistered => \A k \in Procs \ {m} : proc'[k].session # proc[m].session
    BY <2>1 DEF ProcOK
  <2> QED
    BY <1>1, <2>1, <2>2, ProcKept DEF Quiet
<1> QED
  BY <1>2, <1>3 DEF SerialInv

\* A process that is out, whatever happens to the store.
LEMMA OutKept ==
  ASSUME NEW n \in Procs, proc'[n].pc = "out", proc'[n].session = 0
  PROVE  ProcOK(n)'
  BY DEF ProcOK, Unregistered

\* The end of a lease is quiet.
LEMMA EndLeaseQuiet ==
  ASSUME RegTypeOK, NEW s, EndLease(s)
  PROVE  Quiet
  BY DEF EndLease, Quiet, RegTypeOK, TypeOK

\* The steps of a process before it is registered, and its ends.
LEMMA QuietProcStep ==
  ASSUME RegistrationAssumption, RegTypeOK, RegTypeOK', SerialInv, NEW n \in Procs, ProcStep(n),
         ~(Register(n) /\ live[InstanceOf[n]] = 0 /\ proc[n].session \in leases),
         ~(\E p \in Parts, state \in States : Publish(n, p, state))
  PROVE  SerialInv' /\ Quiet
<1>0. ProcOK(n) /\ \A m \in Procs : proc[m].session <= sequence /\ proc[m].session \in Nat
  BY SessionsTaken DEF SerialInv
<1>q. UNCHANGED sessionState => Quiet
  BY DEF sessionState, Quiet
<1>1. CASE LatestSession(n)
  <2>1. UNCHANGED sessionState /\ sequence' = sequence
    BY <1>1 DEF LatestSession
  <2>2. ProcOK(n)'
    BY <1>1, <2>1, LatestSessionMoves DEF ProcOK, Unregistered, sessionState
  <2> QED
    BY <1>1, <1>q, <2>1, <2>2, QuietStep, LatestSessionMoves
<1>2. CASE ReadSequence(n)
  <2>1. UNCHANGED sessionState /\ sequence' = sequence /\ proc[n].pc = "allocate"
    BY <1>2 DEF ReadSequence
  <2>2. ProcOK(n)'
    BY <1>0, <1>2, <2>1, ReadSequenceMoves DEF ProcOK, Unregistered, sessionState
  <2> QED
    BY <1>2, <1>q, <2>1, <2>2, QuietStep, ReadSequenceMoves
<1>3. CASE SwapSequence(n)
  <2>1. UNCHANGED sessionState /\ proc[n].pc = "swap"
    BY <1>3 DEF SwapSequence
  <2>2. CASE proc'[n].pc = "carry"
    <3>1. /\ sequence' = sequence + 1 /\ proc'[n].session = sequence + 1
          /\ proc'[n].previous = proc[n].previous
          /\ \A m \in Procs \ {n} : proc'[m] = proc[m]
      BY <1>3, <2>2, SwapSequenceMoves
    <3>2. \A i \in Instances : \A t \in known[i] : t <= sequence /\ t \in Int
      BY SMT DEF SerialInv, StoreOK, RegTypeOK, TypeOK, SessionIds
    <3>3. sequence \in Nat /\ InstanceOf[n] \in Instances
      BY SMT DEF RegTypeOK, TypeOK, RegistrationAssumption
    <3>4. /\ \A i \in Instances : sequence + 1 \notin known[i]
          /\ \A t \in known[InstanceOf[n]] : t < sequence + 1
      BY SMTT(30), <3>2, <3>3
    <3>5. \A m \in Procs \ {n} : proc'[m].session # sequence + 1
      BY SMTT(30), <1>0, <3>1, <3>3
    <3>6. ProcOK(n)'
      BY SMTT(30), <1>0, <2>1, <2>2, <3>1, <3>3, <3>4, <3>5 DEF ProcOK, Unregistered, sessionState
    <3> QED
      BY <1>q, <2>1, <3>1, <3>6, QuietStep
  <2>3. CASE proc'[n].pc # "carry"
    <3>1. /\ sequence' = sequence /\ \A m \in Procs \ {n} : proc'[m] = proc[m]
          /\ proc'[n].session \in {0, proc[n].session}
      BY <1>3, <2>3, SwapSequenceMoves
    <3>2. ProcOK(n)'
      BY <1>0, <1>3, <2>1, <2>3, SwapSequenceMoves DEF ProcOK, Unregistered, sessionState
    <3> QED
      BY <1>q, <2>1, <3>1, <3>2, QuietStep
  <2> QED
    BY <2>2, <2>3
<1>4. CASE CarryState(n)
  <2>1. UNCHANGED sessionState /\ sequence' = sequence /\ proc[n].pc = "carry"
    BY <1>4 DEF CarryState
  <2>2. \A s : CarriedFrom(s)' = CarriedFrom(s)
    BY <2>1 DEF CarriedFrom, Carried, sessionState
  <2>3. ProcOK(n)'
    BY SMT, <1>0, <1>4, <2>1, <2>2, CarryStateMoves DEF ProcOK, Unregistered, sessionState
  <2> QED
    BY <1>4, <1>q, <2>1, <2>3, QuietStep, CarryStateMoves
<1>5. CASE GrantLease(n)
  <2>1. /\ UNCHANGED sessionState /\ sequence' = sequence /\ proc[n].pc = "grant"
        /\ Move(n, [proc[n] EXCEPT !.pc = "register"])
    BY <1>5 DEF GrantLease
  <2>2. \A s : CarriedFrom(s)' = CarriedFrom(s)
    BY <2>1 DEF CarriedFrom, Carried, sessionState
  <2>3. /\ \A m \in Procs \ {n} : proc'[m] = proc[m]
        /\ proc'[n].pc = "register" /\ proc'[n].session = proc[n].session
        /\ proc'[n].previous = proc[n].previous /\ proc'[n].carried = proc[n].carried
    BY <2>1, PcMoves
  <2>4. ProcOK(n)'
    BY <1>0, <2>1, <2>2, <2>3 DEF ProcOK, Unregistered, sessionState
  <2> QED
    BY <1>q, <2>1, <2>3, <2>4, QuietStep
<1>6. CASE Register(n) \/ Crash(n) \/ KeepAliveExpired(n) \/ Revoke(n)
  <2>1. Move(n, NoProc) /\ sequence' = sequence
    BY <1>6 DEF Register, Crash, KeepAliveExpired, Revoke
  <2>2. Quiet
    BY <1>6, <1>q, EndLeaseQuiet DEF Register, Crash, KeepAliveExpired, Revoke
  <2> QED
    BY <2>1, <2>2, OutMoves, OutKept, QuietStep
<1> QED
  BY <1>1, <1>2, <1>3, <1>4, <1>5, <1>6 DEF ProcStep

\* A registration or a report of one instance leaves alone what a process of another
\* instance remembers.
LEMMA OtherInstance ==
  ASSUME RegistrationAssumption, RegTypeOK, SerialInv,
         NEW n \in Procs, NEW m \in Procs, InstanceOf[m] # InstanceOf[n], proc'[m] = proc[m],
         known'[InstanceOf[m]] = known[InstanceOf[m]], sequence' = sequence,
         \A s \in known[InstanceOf[m]] : record'[s] = record[s],
         proc[m].pc \in Unregistered =>
           /\ \A i \in Instances : proc[m].session \notin known'[i]
           /\ \A k \in Procs \ {m} : proc'[k].session # proc[m].session
  PROVE  ProcOK(m)'
<1>1. ProcOK(m) /\ InstanceOf[m] \in Instances /\ known[InstanceOf[m]] \in SUBSET SessionIds
  BY DEF SerialInv, RegTypeOK, TypeOK, RegistrationAssumption
<1>2. ASSUME proc[m].pc \in {"grant", "register"}
      PROVE  CarriedFrom(proc[m].previous)' = CarriedFrom(proc[m].previous)
  <2>1. proc[m].previous = Latest(known[InstanceOf[m]])
    BY <1>1, <1>2 DEF ProcOK, Unregistered
  <2>2. proc[m].previous # 0 => proc[m].previous \in known[InstanceOf[m]]
    BY <1>1, <2>1, LatestIsKnown DEF RegistrationAssumption
  <2>3. CASE proc[m].previous = 0
    BY <2>3 DEF CarriedFrom
  <2>4. CASE proc[m].previous # 0
    <3>1. record'[proc[m].previous] = record[proc[m].previous]
      BY <2>2, <2>4
    <3> QED
      BY <2>4, <3>1 DEF CarriedFrom, Carried
  <2> QED
    BY <2>3, <2>4
<1> QED
  BY <1>1, <1>2 DEF ProcOK

\* The transaction of register is a Connect.
LEMMA RegisterStep ==
  ASSUME RegistrationAssumption, RegTypeOK, SerialInv, NEW n \in Procs, Alone(n), Register(n),
         live[InstanceOf[n]] = 0, proc[n].session \in leases
  PROVE  SerialInv' /\ Connect(InstanceOf[n], proc[n].session)
<1> DEFINE i == InstanceOf[n]
           s == proc[n].session
<1>0. /\ live \in [Instances -> 0..MaxSession] /\ known \in [Instances -> SUBSET SessionIds]
      /\ record \in [SessionIds -> Records] /\ i \in Instances /\ proc[n] \in ProcStates
  BY DEF RegTypeOK, TypeOK, RegistrationAssumption
<1>1. /\ proc[n].pc = "register" /\ sequence' = sequence
      /\ live' = [live EXCEPT ![i] = s]
      /\ known' = [known EXCEPT ![i] = known[i] \cup {s}]
      /\ record' = [record EXCEPT ![s] =
           [p \in Parts |-> IF proc[n].carried[p] = Absent THEN record[s][p] ELSE proc[n].carried[p]]]
      /\ Move(n, [proc[n] EXCEPT !.pc = "running"])
  BY DEF Register
<1>2. s \in SessionIds
  BY SMT, <1>0, <1>1 DEF RegTypeOK, Numbered, ProcStates, SessionIds, RegistrationAssumption
<1>3. /\ s <= sequence /\ \A j \in Instances : s \notin known[j]
      /\ \A t \in known[i] : t < s
      /\ \A m \in Procs \ {n} : proc[m].session # s
      /\ proc[n].carried = CarriedFrom(Latest(known[i]))
  BY <1>1 DEF SerialInv, ProcOK, Unregistered
<1>4. record[s] = Empty
  BY <1>2, <1>3 DEF SerialInv, StoreOK
<1>5. record' = [record EXCEPT ![s] = CarriedFrom(Latest(known[i]))]
  <2>1. proc[n].carried \in Records
    BY <1>0 DEF ProcStates
  <2>2. \A p \in Parts : record[s][p] = Absent
    BY <1>4 DEF Empty
  <2>3. [p \in Parts |-> IF proc[n].carried[p] = Absent THEN record[s][p] ELSE proc[n].carried[p]]
          = proc[n].carried
    BY <2>1, <2>2 DEF Records
  <2> QED
    BY <1>1, <1>3, <2>3
<1>6. Connect(i, s)
  BY <1>1, <1>2, <1>3, <1>5 DEF Connect, Allocated, Begin
<1>7. /\ \A m \in Procs \ {n} : proc'[m] = proc[m]
      /\ proc'[n].pc = "running" /\ proc'[n].session = s
  BY <1>1, PcMoves
<1>8. /\ known'[i] = known[i] \cup {s} /\ \A j \in Instances \ {i} : known'[j] = known[j]
      /\ live'[i] = s /\ \A j \in Instances \ {i} : live'[j] = live[j]
      /\ \A t \in SessionIds \ {s} : record'[t] = record[t]
  BY <1>0, <1>1
<1>9. StoreOK'
  <2>1. \A j \in Instances : live'[j] # 0 => live'[j] \in known'[j]
    BY SMT, <1>8 DEF SerialInv, StoreOK
  <2>2. \A j \in Instances : \A t \in known'[j] : t <= sequence'
    BY SMT, <1>1, <1>3, <1>8 DEF SerialInv, StoreOK
  <2>3. \A j, k \in Instances : j # k => known'[j] \cap known'[k] = {}
    BY SMT, <1>3, <1>8 DEF SerialInv, StoreOK
  <2>4. \A t \in SessionIds : (\A j \in Instances : t \notin known'[j]) => record'[t] = Empty
    BY <1>0, <1>8 DEF SerialInv, StoreOK
  <2>5. Empty' = Empty
    BY DEF Empty
  <2> QED
    BY <2>1, <2>2, <2>3, <2>4, <2>5 DEF StoreOK
<1>10. ASSUME NEW m \in Procs \ {n}
       PROVE  ProcOK(m)'
  <2>1. ProcOK(m) /\ InstanceOf[m] \in Instances
    BY DEF SerialInv, RegistrationAssumption
  <2>2. CASE InstanceOf[m] = i
    <3>1. proc[m].pc = "out"
      BY <2>2 DEF Alone
    <3> QED
      BY <1>7, <2>1, <3>1, OutKept DEF ProcOK
  <2>3. CASE InstanceOf[m] # i
    <3>1. known'[InstanceOf[m]] = known[InstanceOf[m]]
      BY <1>8, <2>1, <2>3
    <3>2. \A t \in known[InstanceOf[m]] : record'[t] = record[t]
      BY <1>0, <1>3, <1>8, <2>1
    <3>3. proc[m].pc \in Unregistered =>
            /\ \A j \in Instances : proc[m].session \notin known'[j]
            /\ \A k \in Procs \ {m} : proc'[k].session # proc[m].session
      BY SMTT(30), <1>3, <1>7, <1>8, <2>1 DEF ProcOK
    <3> QED
      BY <1>1, <1>7, <2>3, <3>1, <3>2, <3>3, OtherInstance
  <2> QED
    BY <2>2, <2>3
<1>11. ProcOK(n)'
  BY <1>7, <1>8 DEF ProcOK, Unregistered
<1> QED
  BY <1>6, <1>9, <1>10, <1>11 DEF SerialInv

\* A report goes to the record of the live session.
LEMMA PublishStep ==
  ASSUME RegistrationAssumption, RegTypeOK, SerialInv, NEW n \in Procs, Alone(n),
         NEW p \in Parts, NEW state \in States, Publish(n, p, state)
  PROVE  SerialInv' /\ PublishCurrentState(InstanceOf[n], p, state)
<1> DEFINE i == InstanceOf[n]
           s == proc[n].session
<1>0. /\ known \in [Instances -> SUBSET SessionIds]
      /\ record \in [SessionIds -> Records] /\ i \in Instances
  BY DEF RegTypeOK, TypeOK, RegistrationAssumption
<1>1. /\ proc[n].pc = "running" /\ live[i] = s /\ s # 0 /\ s \in known[i] /\ s \in SessionIds
      /\ record' = [record EXCEPT ![s][p] = state]
      /\ live' = live /\ known' = known /\ sequence' = sequence /\ proc' = proc
  BY <1>0 DEF Publish, RegTypeOK, Numbered, SerialInv, ProcOK
<1>2. PublishCurrentState(i, p, state)
  BY <1>1 DEF PublishCurrentState, RequireLiveSession, StoreCurrentState
<1>3. \A t \in SessionIds \ {s} : record'[t] = record[t]
  BY <1>0, <1>1
<1>4. StoreOK'
  <2>1. \A t \in SessionIds : (\A j \in Instances : t \notin known'[j]) => record'[t] = Empty
    BY SMT, <1>0, <1>1, <1>3 DEF SerialInv, StoreOK
  <2>2. Empty' = Empty
    BY DEF Empty
  <2> QED
    BY <1>1, <2>1, <2>2 DEF SerialInv, StoreOK
<1>5. ASSUME NEW m \in Procs \ {n}
      PROVE  ProcOK(m)'
  <2>1. ProcOK(m) /\ InstanceOf[m] \in Instances
    BY DEF SerialInv, RegistrationAssumption
  <2>2. CASE InstanceOf[m] = i
    <3>1. proc[m].pc = "out"
      BY <2>2 DEF Alone
    <3> QED
      BY <1>1, <2>1, <3>1, OutKept DEF ProcOK
  <2>3. CASE InstanceOf[m] # i
    <3>1. s \notin known[InstanceOf[m]]
      BY <1>0, <1>1, <2>1, <2>3 DEF SerialInv, StoreOK
    <3>2. \A t \in known[InstanceOf[m]] : record'[t] = record[t]
      BY <1>0, <1>3, <2>1, <3>1
    <3>3. proc[m].pc \in Unregistered =>
            /\ \A j \in Instances : proc[m].session \notin known'[j]
            /\ \A k \in Procs \ {m} : proc'[k].session # proc[m].session
      BY <1>1, <2>1 DEF ProcOK
    <3> QED
      BY <1>1, <2>3, <3>2, <3>3, OtherInstance
  <2> QED
    BY <2>2, <2>3
<1>6. ProcOK(n)'
  BY <1>1 DEF ProcOK, SerialInv, Unregistered
<1> QED
  BY <1>2, <1>4, <1>5, <1>6 DEF SerialInv
\* A quiet step ends at most one session, which is a Disconnect.
LEMMA EndLeaseImplements ==
  ASSUME RegTypeOK, SerialInv, NEW s \in 0..MaxSession, EndLease(s)
  PROVE  Next \/ UNCHANGED sessionState
<1>0. /\ live \in [Instances -> 0..MaxSession] /\ known' = known /\ record' = record
      /\ live' = [i \in Instances |-> IF live[i] = s THEN 0 ELSE live[i]]
  BY DEF RegTypeOK, TypeOK, EndLease
<1>1. CASE \E i \in Instances : live[i] = s /\ s # 0
  <2>1. PICK i \in Instances : live[i] = s /\ s # 0
    BY <1>1
  <2>2. \A j \in Instances : live[j] = s => j = i
    BY <2>1 DEF SerialInv, StoreOK
  <2>3. live' = [live EXCEPT ![i] = 0]
    BY <1>0, <2>1, <2>2
  <2>4. Disconnect(i)
    BY <1>0, <2>1, <2>3 DEF Disconnect, RequireLiveSession
  <2> QED
    BY <2>4 DEF Next
<1>2. CASE ~(\E i \in Instances : live[i] = s /\ s # 0)
  <2>1. live' = live
    BY <1>0, <1>2
  <2> QED
    BY <1>0, <2>1 DEF sessionState
<1> QED
  BY <1>1, <1>2

LEMMA SerialIsReg ==
  ASSUME [SerialNext]_vars PROVE [RegNext]_vars
  BY DEF SerialNext, RegNext, OperatorStep

\* Every step of the registration in steps is a step of Sessions or leaves its state alone.
LEMMA SerialStep ==
  ASSUME RegistrationAssumption, RegTypeOK, RegTypeOK', SerialInv, [SerialNext]_vars
  PROVE  SerialInv' /\ (Next \/ UNCHANGED sessionState)
<1>1. ASSUME NEW n \in Procs, Alone(n), ProcStep(n)
      PROVE  SerialInv' /\ (Next \/ UNCHANGED sessionState)
  <2>0. InstanceOf[n] \in Instances /\ proc[n] \in ProcStates
    BY DEF RegistrationAssumption, RegTypeOK, TypeOK
  <2>1. CASE Register(n) /\ live[InstanceOf[n]] = 0 /\ proc[n].session \in leases
    <3>1. SerialInv' /\ Connect(InstanceOf[n], proc[n].session)
      BY <1>1, <2>1, RegisterStep
    <3>2. proc[n].session \in SessionIds
      BY <3>1 DEF Connect, Allocated
    <3> QED
      BY <2>0, <3>1, <3>2 DEF Next
  <2>2. CASE \E p \in Parts, state \in States : Publish(n, p, state)
    <3>1. PICK p \in Parts, state \in States : Publish(n, p, state)
      BY <2>2
    <3>2. SerialInv' /\ PublishCurrentState(InstanceOf[n], p, state)
      BY <1>1, <3>1, PublishStep
    <3> QED
      BY <2>0, <3>2 DEF Next
  <2>3. CASE ~(Register(n) /\ live[InstanceOf[n]] = 0 /\ proc[n].session \in leases)
             /\ ~(\E p \in Parts, state \in States : Publish(n, p, state))
    <3>1. SerialInv'
      BY <1>1, <2>3, QuietProcStep
    <3>2. CASE Revoke(n)
      <4>1. proc[n].session \in 0..MaxSession /\ EndLease(proc[n].session)
        BY <2>0, <3>2 DEF ProcStates, Revoke
      <4> QED
        BY <3>1, <4>1, EndLeaseImplements
    <3>3. CASE ~Revoke(n)
      <4>1. UNCHANGED sessionState
        BY <1>1, <2>3, <3>3 DEF ProcStep, LatestSession, ReadSequence, SwapSequence, CarryState,
          GrantLease, Register, Crash, KeepAliveExpired
      <4> QED
        BY <3>1, <4>1
    <3> QED
      BY <3>2, <3>3
  <2> QED
    BY <2>1, <2>2, <2>3
<1>2. ASSUME NEW s \in 0..MaxSession, EndLease(s), UNCHANGED <<sequence, proc>>
      PROVE  SerialInv' /\ (Next \/ UNCHANGED sessionState)
  BY <1>2, EndLeaseQuiet, QuietStoreStep, EndLeaseImplements
<1>3. ASSUME NEW s \in SessionIds, ExpireLease(s)
      PROVE  SerialInv' /\ (Next \/ UNCHANGED sessionState)
  <2>1. s \in 0..MaxSession
    BY SMT DEF SessionIds
  <2> QED
    BY <1>2, <1>3, <2>1 DEF ExpireLease
<1>4. CASE RevokeLiveLease
  <2>1. operator.session \in 0..MaxSession
    BY DEF RegTypeOK, TypeOK, OperatorStates
  <2>2. CASE UNCHANGED sessionState
    <3>1. Quiet /\ UNCHANGED <<sequence, proc>>
      BY <1>4, <2>2 DEF RevokeLiveLease, sessionState, Quiet
    <3> QED
      BY <2>2, <3>1, QuietStoreStep
  <2> QED
    BY <1>2, <1>4, <2>1, <2>2 DEF RevokeLiveLease
<1>5. ASSUME NEW i \in Instances, RevokeLive(i)
      PROVE  SerialInv' /\ (Next \/ UNCHANGED sessionState)
  <2>1. /\ live[i] # 0 /\ live' = [live EXCEPT ![i] = 0] /\ UNCHANGED <<known, record, sequence, proc>>
    BY <1>5 DEF RevokeLive
  <2>2. Quiet
    BY <2>1 DEF Quiet, RegTypeOK, TypeOK
  <2>3. Disconnect(i)
    BY <2>1 DEF Disconnect, RequireLiveSession
  <2> QED
    BY <2>1, <2>2, <2>3, QuietStoreStep DEF Next
<1>6. CASE UNCHANGED vars
  <2>1. Quiet /\ UNCHANGED <<sequence, proc>> /\ UNCHANGED sessionState
    BY <1>6 DEF vars, sessionState, Quiet
  <2> QED
    BY <2>1, QuietStoreStep
<1> QED
  BY <1>1, <1>3, <1>4, <1>5, <1>6 DEF SerialNext

LEMMA SerialInit == ASSUME RegistrationAssumption, RegInit PROVE SerialInv
<1>1. \A n \in Procs : proc[n].pc = "out" /\ proc[n].session = 0
  BY DEF RegInit, NoProc
<1>2. StoreOK
  BY DEF RegInit, Init, StoreOK
<1> QED
  BY <1>1, <1>2 DEF SerialInv, ProcOK, Unregistered

\* Processes that follow one another implement Sessions, in memory (model/session.rs) and
\* in etcd (session.rs) alike: although the latest session, the number and the carried
\* partitions are read in requests of their own before the transaction that uses them, and
\* leases expire and are revoked in between, a new session has a larger number than every
\* earlier one of its instance and starts with exactly the partitions of the latest.
THEOREM SerialRefinement ==
  ASSUME RegistrationAssumption PROVE SerialSpec => SessionsImplemented
<1>1. RegTypeOK /\ [SerialNext]_vars => RegTypeOK'
  BY SerialIsReg, RegTypeStep
<1>2. RegTypeOK /\ RegTypeOK' /\ SerialInv /\ [SerialNext]_vars => SerialInv' /\ [Next]_sessionState
  BY SerialStep
<1>3. RegInit => RegTypeOK /\ SerialInv /\ Init
  BY RegTypeInit, SerialInit DEF RegInit
<1> QED
  BY <1>1, <1>2, <1>3, PTL DEF SerialSpec, SessionsImplemented, Spec

=============================================================================
