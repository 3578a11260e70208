------------------------------ MODULE Observer ------------------------------
(***************************************************************************)
(* An observer waits for a condition (observe.rs): it reads a snapshot,    *)
(* replays the namespace's events from the last authoritative revision on, *)
(* reads a fresh snapshot for every event and at every poll, and returns   *)
(* the first one that satisfies the predicate, once the replay has caught  *)
(* up with the first snapshot.  Around it the namespace changes as the     *)
(* control plane changes it (module ControlPlane), and etcd's revision     *)
(* also counts the writes of other namespaces.                             *)
(***************************************************************************)
EXTENDS Integers, Sequences, FiniteSets

CONSTANTS
  MaxRev,     \* bound on the revisions of the store
  MaxFaults   \* bound on the broken streams and failed requests

ObserverAssumption == MaxRev \in Nat \ {0} /\ MaxFaults \in Nat

VARIABLES
  rev,        \* etcd: the revision of the store
  compacted,  \* etcd: the history before this revision is gone
  log,        \* etcd: the namespace's events, one for each revision it wrote
  marker,     \* the authoritative revision
  processed,  \* controller/output/processed-revision, 0 if absent
  queued,     \* pending transitions are published
  elected,    \* a controller is active
  wait,       \* wait_until: where it is and what it knows
  faults

storeVars == <<rev, compacted, log, marker, processed, queued, elected>>
vars == <<storeVars, wait, faults>>

\* `expiry` marks the deletion of a live key.
Events == [rev : 1..MaxRev, expiry : BOOLEAN]

Conditions == {"idle", "controller"}

Snapshots ==
  [rev : 0..MaxRev, auth : 0..MaxRev, processed : 0..MaxRev, queued : BOOLEAN, elected : BOOLEAN]

Waits ==
  [ pc : {"start", "waiting", "reading", "returned", "timeout", "failed"},
    for : Conditions, stream : {"closed", "open", "broken", "deaf"},
    start : 0..MaxRev + 1, pos : Nat, floor : 0..MaxRev, catchUp : 0..MaxRev, caughtUp : BOOLEAN,
    recovered : BOOLEAN, result : Snapshots ]

TypeOK ==
  /\ rev \in 1..MaxRev /\ compacted \in 0..rev /\ log \in Seq(Events)
  /\ marker \in 1..rev /\ processed \in 0..marker
  /\ queued \in BOOLEAN /\ elected \in BOOLEAN
  /\ wait \in Waits
  /\ faults \in 0..MaxFaults

\* The revision of the last expiry up to r, 0 if there is none.
LastExpiry(r) ==
  LET seen == {i \in DOMAIN log : log[i].expiry /\ log[i].rev <= r}
  IN IF seen = {} THEN 0 ELSE log[CHOOSE i \in seen : \A j \in seen : j <= i].rev

-----------------------------------------------------------------------------
(* The namespace.                                                          *)

Written(expiry) ==
  /\ rev < MaxRev /\ rev' = rev + 1
  /\ log' = Append(log, [rev |-> rev + 1, expiry |-> expiry])
  /\ UNCHANGED <<compacted, wait, faults>>

\* An administrator or a participant writes input; a completion also takes a
\* message off the queue.
WriteInput ==
  /\ Written(FALSE)
  /\ marker' = rev + 1
  /\ queued' \in {queued, FALSE}
  /\ UNCHANGED <<processed, elected>>

\* A live key goes with its lease: the marker stays behind.
ExpireLive ==
  /\ Written(TRUE)
  /\ UNCHANGED <<marker, processed, queued, elected>>

\* The active controller puts the marker behind an expiry it has been told of.
RecordExpiry ==
  /\ elected /\ LastExpiry(rev) > marker
  /\ Written(FALSE)
  /\ marker' = rev + 1
  /\ UNCHANGED <<processed, queued, elected>>

Publish ==
  /\ elected
  /\ Written(FALSE)
  /\ processed' = marker
  /\ queued' \in BOOLEAN
  /\ UNCHANGED <<marker, elected>>

\* The election record comes or goes.
Elect ==
  /\ Written(FALSE)
  /\ elected' = ~elected
  /\ UNCHANGED <<marker, processed, queued>>

\* Another namespace of the same etcd is written to.
WriteElsewhere ==
  /\ rev < MaxRev /\ rev' = rev + 1
  /\ UNCHANGED <<compacted, log, marker, processed, queued, elected, wait, faults>>

Compact(r) ==
  /\ r \in compacted + 1..rev
  /\ compacted' = r
  /\ UNCHANGED <<rev, log, marker, processed, queued, elected, wait, faults>>

-----------------------------------------------------------------------------
(* The wait.                                                               *)

Snapshot(floor) ==
  [ rev |-> rev, auth |-> IF marker > floor THEN marker ELSE floor, processed |-> processed,
    queued |-> queued, elected |-> elected ]

\* wait_for_idle and wait_for_controller.
Holds(for, S) ==
  CASE for = "idle"       -> ~S.queued /\ S.processed # 0 /\ S.processed >= S.auth
    [] for = "controller" -> S.elected

NoSnapshot == [rev |-> 0, auth |-> 0, processed |-> 0, queued |-> FALSE, elected |-> FALSE]

Start(for) ==
  [ pc |-> "start", for |-> for, stream |-> "closed", start |-> 0, pos |-> 1, floor |-> 0,
    catchUp |-> 0, caughtUp |-> FALSE, recovered |-> FALSE, result |-> NoSnapshot ]

\* The place in the history of the first event from a revision on.
Place(start) == 1 + Cardinality({i \in DOMAIN log : log[i].rev < start})

\* A wait w has read a snapshot S.
Test(w, S) ==
  IF w.caughtUp /\ Holds(w.for, S)
  THEN [w EXCEPT !.pc = "returned", !.result = S]
  ELSE [w EXCEPT !.pc = "waiting"]

\* The first snapshot, and a watch that starts after its authoritative revision.
Begin ==
  LET w == [wait EXCEPT !.stream = "open", !.start = marker + 1, !.pos = Place(marker + 1),
              !.floor = marker, !.catchUp = rev, !.caughtUp = marker >= rev]
  IN /\ wait.pc = "start"
     /\ wait' = Test(w, Snapshot(marker))
     /\ UNCHANGED <<storeVars, faults>>

\* The stream has yet to send what a compaction has removed.  `start` is 0 once
\* etcd has brought the stream up to date.
Compacted ==
  /\ wait.stream = "open"
  /\ IF wait.pos <= Len(log) THEN log[wait.pos].rev < compacted
                             ELSE wait.start # 0 /\ wait.start < compacted

\* etcd finds nothing to send from the start of the watch on.
Synced ==
  /\ wait.pc = "waiting" /\ wait.stream = "open" /\ wait.start # 0
  /\ wait.pos > Len(log) /\ ~Compacted
  /\ wait' = [wait EXCEPT !.start = 0]
  /\ UNCHANGED <<storeVars, faults>>

\* Mutant: an expiry does not raise the floor.
NextEventUnfloored ==
  LET e == log[wait.pos]
  IN /\ wait.pc = "waiting" /\ wait.stream = "open" /\ wait.pos <= Len(log) /\ ~Compacted
     /\ wait' = [wait EXCEPT !.pc = "reading", !.pos = wait.pos + 1, !.start = 0,
                   !.caughtUp = wait.caughtUp \/ e.rev >= wait.catchUp]
     /\ UNCHANGED <<storeVars, faults>>

\* Mutant: only an event after the first snapshot ends the replay.
NextEventLate ==
  LET e == log[wait.pos]
  IN /\ wait.pc = "waiting" /\ wait.stream = "open" /\ wait.pos <= Len(log) /\ ~Compacted
     /\ wait' = [wait EXCEPT !.pc = "reading", !.pos = wait.pos + 1, !.start = 0,
                   !.caughtUp = wait.caughtUp \/ e.rev > wait.catchUp,
                   !.floor = IF e.expiry /\ e.rev > wait.floor THEN e.rev ELSE wait.floor]
     /\ UNCHANGED <<storeVars, faults>>

\* The watch delivers an event; the snapshot that answers it is read later.
NextEvent ==
  LET e == log[wait.pos]
  IN /\ wait.pc = "waiting" /\ wait.stream = "open" /\ wait.pos <= Len(log) /\ ~Compacted
     /\ wait' = [wait EXCEPT !.pc = "reading", !.pos = wait.pos + 1, !.start = 0,
                   !.caughtUp = wait.caughtUp \/ e.rev >= wait.catchUp,
                   !.floor = IF e.expiry /\ e.rev > wait.floor THEN e.rev ELSE wait.floor]
     /\ UNCHANGED <<storeVars, faults>>

Read ==
  /\ wait.pc = "reading"
  /\ wait' = Test(wait, Snapshot(wait.floor))
  /\ UNCHANGED <<storeVars, faults>>

\* A snapshot that an event asks for, the first one, or the one that replaces a
\* compacted watch cannot be read: the wait ends.  (A poll that fails is forgotten.)
ReadFails ==
  /\ wait.pc \in {"start", "reading"} \/ (wait.pc = "waiting" /\ Compacted)
  /\ faults < MaxFaults
  /\ wait' = [wait EXCEPT !.pc = "failed"]
  /\ faults' = faults + 1
  /\ UNCHANGED storeVars

\* The 250 ms tick.
Poll ==
  /\ wait.pc = "waiting"
  /\ wait' = Test(wait, Snapshot(wait.floor))
  /\ wait' # wait
  /\ UNCHANGED <<storeVars, faults>>

\* A compacted watch is replaced by a snapshot and a watch of what follows it.
Recover ==
  LET S == Snapshot(wait.floor)
      w == [wait EXCEPT !.stream = "open", !.start = rev + 1, !.pos = Place(rev + 1),
              !.floor = S.auth, !.caughtUp = TRUE, !.recovered = TRUE]
  IN /\ wait.pc = "waiting" /\ Compacted
     /\ wait' = Test(w, S)
     /\ UNCHANGED <<storeVars, faults>>

Disconnect ==
  /\ wait.pc = "waiting" /\ wait.stream = "open" /\ faults < MaxFaults
  /\ wait' = [wait EXCEPT !.stream = "broken"]
  /\ faults' = faults + 1
  /\ UNCHANGED storeVars

\* resume_until_available: the resumed namespace watch watches no key (module
\* Watch, OpenWatch).
Resume ==
  /\ wait.pc = "waiting" /\ wait.stream = "broken"
  /\ wait' = [wait EXCEPT !.stream = "deaf"]
  /\ UNCHANGED <<storeVars, faults>>

Timeout ==
  /\ wait.pc \in {"waiting", "reading"}
  /\ wait' = [wait EXCEPT !.pc = "timeout"]
  /\ UNCHANGED <<storeVars, faults>>

-----------------------------------------------------------------------------
\* A namespace whose input has been written, and not processed yet.
Init ==
  /\ rev = 1 /\ compacted = 0 /\ log = <<[rev |-> 1, expiry |-> FALSE]>>
  /\ marker = 1 /\ processed = 0 /\ queued = FALSE /\ elected = TRUE
  /\ wait \in {Start(for) : for \in Conditions}
  /\ faults = 0

Namespace ==
  \/ WriteInput \/ ExpireLive \/ RecordExpiry \/ Publish \/ Elect \/ WriteElsewhere
  \/ \E r \in 1..MaxRev : Compact(r)

Next ==
  \/ Namespace \/ Begin \/ Synced \/ NextEvent \/ Read \/ Poll \/ Recover
  \/ ReadFails \/ Disconnect \/ Resume \/ Timeout

Spec == Init /\ [][Next]_vars

\* The waiting task is polled and etcd answers it.
Fairness ==
  /\ WF_vars(Begin) /\ WF_vars(NextEvent) /\ WF_vars(Read) /\ WF_vars(Poll)
  /\ WF_vars(Recover) /\ WF_vars(Resume)

FairSpec == Spec /\ Fairness

-----------------------------------------------------------------------------
\* An observer that finds the cluster idle has a controller that knows of
\* every lease that expired before the wait began, and of every expiry the
\* observer has been told of, although no expiry moves the authoritative
\* revision (the replay from the authoritative revision, the floor and
\* caught_up in wait_until).  A compaction may have taken the events away.
IdleCoversThePast ==
  wait.pc = "returned" /\ wait.for = "idle" /\ ~wait.recovered =>
    /\ wait.result.processed >= LastExpiry(wait.catchUp)
    /\ wait.result.processed >= wait.floor

\* The replay can never reach the revision of the first snapshot: the
\* resumed watch is deaf, or another namespace wrote that revision and this
\* one has written nothing since.
Stranded ==
  /\ ~wait.caughtUp
  /\ \/ wait.stream = "deaf"
     \/ \A i \in DOMAIN log : log[i].rev < wait.catchUp

\* A condition that comes to stay ends the wait, whatever breaks, is compacted
\* or is written elsewhere, unless the observer stays stranded (wait_until).
WaitEnds ==
  <>[]Holds(wait.for, Snapshot(LastExpiry(rev))) =>
    <>(wait.pc \in {"returned", "timeout", "failed"}) \/ <>[]Stranded

=============================================================================
