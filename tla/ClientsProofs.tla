--------------------------- MODULE ClientsProofs ---------------------------
(***************************************************************************)
(* Proofs about two clients of the coordination store: an observer's wait  *)
(* (module Observer), for any history of the namespace, and a process from *)
(* start to end (Lifecycle), for any number of faults.                     *)
(***************************************************************************)
EXTENDS Observer, Lifecycle, FiniteSetTheorems, NaturalsInduction, WellFoundedInduction, TLAPS

\* A leaf goes to Zenon; one that needs arithmetic, or the theory of functions
\* and records, cites SMT.
USE ZenonT(60)
-----------------------------------------------------------------------------
(***************************************************************************)
(* The history of the namespace.                                           *)
(***************************************************************************)

\* Events in the order of their revisions, none from the future.
LogOK ==
  /\ \A i, j \in DOMAIN log : i < j => log[i].rev < log[j].rev
  /\ \A i \in DOMAIN log : log[i].rev <= rev

\* The replay has passed the expiries up to where it stands: the floor covers them.
PassedOK(w) == \A i \in DOMAIN log : i < w.pos /\ log[i].expiry => log[i].rev <= w.floor

\* It has caught up with the first snapshot: the floor covers all there were then.
CaughtUpOK(w) ==
  w.caughtUp => \A i \in DOMAIN log : log[i].expiry /\ log[i].rev <= w.catchUp => log[i].rev <= w.floor

\* What a wait knows.
WaitOK(w) ==
  /\ w.catchUp <= rev /\ w.pos \in 1 .. Len(log) + 1
  /\ ~w.recovered => PassedOK(w) /\ CaughtUpOK(w)
  /\ w.pc = "returned" => w.caughtUp /\ (w.for = "idle" => w.result.processed >= w.floor)

\* The inductive invariant: IdleCoversThePast speaks of a wait that has returned, this of
\* what every wait has gathered on its way.
ObserverInv == TypeOK /\ LogOK /\ WaitOK(wait)

\* A non-empty set of places in the history has a last one.
LEMMA LastExists ==
  ASSUME NEW n \in Nat, NEW S \in SUBSET (1..n), S # {}
  PROVE  \E x \in S : \A y \in S : y <= x
<1> DEFINE T == {n - x : x \in S}
<1>1. T \subseteq Nat /\ T # {}
  <2>1. PICK x \in S : TRUE
    OBVIOUS
  <2>2. n - x \in T /\ \A y \in S : n - y \in Nat
    BY SMT, <2>1
  <2> QED  BY <2>2
<1>2. PICK t \in T : \A u \in T : ~(<<u, t>> \in OpToRel(<, Nat))
  BY <1>1, NatLessThanWellFounded, WFMin
<1>3. \A u \in T : ~(u < t)
  BY <1>1, <1>2 DEF OpToRel
<1>4. PICK x \in S : t = n - x
  BY DEF T
<1>5. \A y \in S : ~(n - y < n - x)
  BY <1>3, <1>4
<1> QED  BY SMT, <1>5

\* What LastExpiry returns: 0, or the revision of an expiry up to r.
LEMMA LastExpiryIsOne ==
  ASSUME NEW r, log \in Seq(Events)
  PROVE  \/ LastExpiry(r) = 0
         \/ \E i \in DOMAIN log : log[i].expiry /\ log[i].rev <= r /\ LastExpiry(r) = log[i].rev
<1> DEFINE seen == {i \in DOMAIN log : log[i].expiry /\ log[i].rev <= r}
           last == CHOOSE i \in seen : \A j \in seen : j <= i
<1>1. CASE seen = {}
  BY <1>1 DEF LastExpiry
<1>2. CASE seen # {}
  <2>1. Len(log) \in Nat /\ seen \in SUBSET (1 .. Len(log))
    BY SMT
  <2>2. \E i \in seen : \A j \in seen : j <= i
    <3> HIDE DEF seen
    <3> QED  BY <1>2, <2>1, LastExists
  <2>3. last \in seen
    BY <2>2
  <2>4. LastExpiry(r) = log[last].rev
    BY <1>2 DEF LastExpiry
  <2> QED  BY <2>3, <2>4
<1> QED  BY <1>1, <1>2

\* There are no more places in a part of the history than in the whole.
LEMMA CountedPlaces ==
  ASSUME NEW n \in Nat, NEW T \in SUBSET (1..n)
  PROVE  Cardinality(T) \in Nat /\ Cardinality(T) <= n
<1>1. IsFiniteSet(1..n) /\ Cardinality(1..n) = IF 1 > n THEN 0 ELSE n - 1 + 1
  BY SMT, FS_Interval
<1>2. Cardinality(1..n) = n
  BY SMT, <1>1
<1>3. IsFiniteSet(T) /\ Cardinality(T) <= Cardinality(1..n)
  BY <1>1, FS_Subset
<1> QED  BY <1>2, <1>3, FS_CardinalityType

\* A number that is read of the store, in a store that is well typed.
LEMMA StoreNumbers ==
  ASSUME ObserverAssumption, TypeOK
  PROVE  /\ MaxRev \in Nat /\ rev \in Nat /\ rev >= 1 /\ rev <= MaxRev
         /\ marker \in Nat /\ marker >= 1 /\ marker <= rev /\ processed \in Nat /\ processed <= rev
         /\ log \in Seq(Events) /\ Len(log) \in Nat /\ DOMAIN log = 1 .. Len(log)
         /\ \A i \in DOMAIN log : log[i].rev \in Nat /\ log[i].expiry \in BOOLEAN
<1>1. MaxRev \in Nat /\ rev \in Nat /\ rev >= 1 /\ rev <= MaxRev
  BY SMT DEF ObserverAssumption, TypeOK
<1>2. marker \in Nat /\ marker >= 1 /\ marker <= rev
  BY SMT, <1>1 DEF TypeOK
<1>3. processed \in Nat /\ processed <= rev
  BY SMT, <1>1, <1>2 DEF TypeOK
<1>4. log \in Seq(Events)
  BY DEF TypeOK
<1>5. \A i \in DOMAIN log : log[i] \in Events
  BY SMT, <1>4
<1>6. \A e \in Events : e.rev \in Nat /\ e.expiry \in BOOLEAN
  BY SMT, <1>1 DEF Events
<1>7. Len(log) \in Nat /\ DOMAIN log = 1 .. Len(log)
  BY SMT, <1>4
<1> QED  BY <1>1, <1>2, <1>3, <1>4, <1>5, <1>6, <1>7

\* A watch that starts at a revision has only earlier events behind it.
LEMMA PlaceSkipsEarlier ==
  ASSUME ObserverAssumption, TypeOK, LogOK, NEW start \in Nat
  PROVE  /\ Place(start) \in 1 .. Len(log) + 1
         /\ \A i \in DOMAIN log : i < Place(start) => log[i].rev < start
<1> DEFINE T == {i \in DOMAIN log : log[i].rev < start}
<1>1. Len(log) \in Nat /\ DOMAIN log = 1 .. Len(log) /\ T \in SUBSET (1 .. Len(log))
  BY StoreNumbers
<1>2. Place(start) = 1 + Cardinality(T)
  BY DEF Place
<1>3. \A i, j \in DOMAIN log : i < j /\ log[j].rev < start => log[i].rev < start
  BY SMTT(30), StoreNumbers DEF LogOK
<1>4. Cardinality(T) \in Nat /\ Cardinality(T) <= Len(log)
  <2> HIDE DEF T
  <2> QED  BY <1>1, CountedPlaces
<1>6. ASSUME NEW i \in DOMAIN log, i < Place(start), ~(log[i].rev < start) PROVE FALSE
  <2>1. i \in Nat /\ i >= 1 /\ i <= Cardinality(T)
    <3>1. i \in 1 .. Len(log)
      BY <1>1
    <3> HIDE DEF T
    <3> QED  BY SMT, <3>1, <1>1, <1>2, <1>4, <1>6
  <2>2. \A j \in T : j < i
    <3>1. SUFFICES ASSUME NEW j \in T, ~(j < i) PROVE FALSE
      OBVIOUS
    <3>2. j \in 1 .. Len(log) /\ log[j].rev < start /\ i \in 1 .. Len(log)
      BY <1>1
    <3>3. i < j
      BY SMT, <3>1, <3>2, <1>6, <1>1
    <3> QED  BY <1>1, <1>3, <1>6, <3>2, <3>3
  <2>3. PICK m : m = i - 1
    OBVIOUS
  <2>4. m \in Nat /\ m < Cardinality(T)
    <3> HIDE DEF T
    <3> QED  BY SMT, <2>1, <2>3, <1>4
  <2>5. T \in SUBSET (1 .. m)
    <3>1. \A j \in T : j \in 1 .. Len(log)
      BY <1>1
    <3> HIDE DEF T
    <3> QED  BY SMT, <3>1, <2>1, <2>2, <2>3, <1>1
  <2>6. Cardinality(T) <= m
    <3> HIDE DEF T
    <3> QED  BY <2>4, <2>5, CountedPlaces
  <2> HIDE DEF T
  <2> QED  BY SMT, <2>4, <2>6, <1>4
<1>7. Place(start) \in 1 .. Len(log) + 1
  <2> HIDE DEF T
  <2> QED  BY SMT, <1>1, <1>2, <1>4
<1> QED  BY <1>6, <1>7

\* The numbers a wait holds.
LEMMA WaitNumbers ==
  ASSUME ObserverAssumption, NEW w \in Waits
  PROVE  /\ w.pos \in Nat /\ w.floor \in Nat /\ w.floor <= MaxRev /\ w.catchUp \in Nat
         /\ w.catchUp <= MaxRev /\ w.caughtUp \in BOOLEAN /\ w.recovered \in BOOLEAN
         /\ w.for \in Conditions /\ w.result \in Snapshots
<1>1. MaxRev \in Nat
  BY DEF ObserverAssumption
<1>2. /\ w.pos \in Nat /\ w.floor \in 0..MaxRev /\ w.catchUp \in 0..MaxRev /\ w.caughtUp \in BOOLEAN
      /\ w.recovered \in BOOLEAN /\ w.for \in Conditions /\ w.result \in Snapshots
  BY DEF Waits
<1> QED  BY SMT, <1>1, <1>2

-----------------------------------------------------------------------------
(***************************************************************************)
(* The wait.                                                               *)
(***************************************************************************)

\* A snapshot is well typed, and its authoritative revision is not below the floor.
LEMMA SnapshotIs ==
  ASSUME ObserverAssumption, TypeOK, NEW floor \in 0..MaxRev
  PROVE  /\ Snapshot(floor) \in Snapshots /\ Snapshot(floor).processed = processed
         /\ Snapshot(floor).auth \in 0..MaxRev /\ Snapshot(floor).auth >= floor
<1>1. PICK a : a = IF marker > floor THEN marker ELSE floor
  OBVIOUS
<1>2. a \in 0..MaxRev /\ a >= floor
  BY SMT, <1>1, StoreNumbers
<1>3. rev \in 0..MaxRev /\ processed \in 0..MaxRev /\ queued \in BOOLEAN /\ elected \in BOOLEAN
  <2>1. queued \in BOOLEAN /\ elected \in BOOLEAN
    BY DEF TypeOK
  <2>2. rev \in 0..MaxRev /\ processed \in 0..MaxRev
    BY SMT, StoreNumbers
  <2> QED  BY <2>1, <2>2
<1>4. Snapshot(floor) = [rev |-> rev, auth |-> a, processed |-> processed, queued |-> queued, elected |-> elected]
  BY <1>1 DEF Snapshot
<1> QED  BY SMT, <1>2, <1>3, <1>4 DEF Snapshots

\* The test of a snapshot: it returns it when the replay has caught up and the predicate
\* holds, and changes nothing else of the wait.
LEMMA TestIs ==
  ASSUME NEW w \in Waits, NEW S \in Snapshots, NEW t, t = Test(w, S)
  PROVE  /\ t \in Waits /\ t.for = w.for /\ t.pos = w.pos /\ t.floor = w.floor /\ t.catchUp = w.catchUp
         /\ t.caughtUp = w.caughtUp /\ t.recovered = w.recovered
         /\ t.pc = "returned" => w.caughtUp /\ Holds(w.for, S) /\ t.result = S
<1>1. CASE w.caughtUp /\ Holds(w.for, S)
  <2>1. t = [w EXCEPT !.pc = "returned", !.result = S]
    BY <1>1 DEF Test
  <2> QED  BY <1>1, <2>1 DEF Waits
<1>2. CASE ~(w.caughtUp /\ Holds(w.for, S))
  <2>1. t = [w EXCEPT !.pc = "waiting"]
    BY <1>2 DEF Test
  <2> QED  BY <2>1 DEF Waits
<1> QED  BY <1>1, <1>2

\* A wait that knows what WaitOK says still does after the test of a snapshot that
\* respects its floor.
LEMMA TestStep ==
  ASSUME ObserverAssumption, TypeOK, NEW w \in Waits, NEW floor \in 0..MaxRev,
         w.catchUp <= rev, w.pos \in 1 .. Len(log) + 1, ~w.recovered => PassedOK(w) /\ CaughtUpOK(w),
         w.floor <= Snapshot(floor).auth, NEW t, t = Test(w, Snapshot(floor))
  PROVE  t \in Waits /\ WaitOK(t)
<1>1. PICK S : S = Snapshot(floor)
  OBVIOUS
<1>2. S \in Snapshots /\ S.auth \in 0..MaxRev /\ S.processed = processed
  BY <1>1, SnapshotIs
<1>3. /\ t \in Waits /\ t.for = w.for /\ t.pos = w.pos /\ t.floor = w.floor /\ t.catchUp = w.catchUp
      /\ t.caughtUp = w.caughtUp /\ t.recovered = w.recovered
      /\ t.pc = "returned" => w.caughtUp /\ Holds(w.for, S) /\ t.result = S
  BY SMT, <1>1, <1>2, TestIs
<1>4. ~t.recovered => PassedOK(t) /\ CaughtUpOK(t)
  BY <1>3 DEF PassedOK, CaughtUpOK
<1>5. ASSUME t.pc = "returned", t.for = "idle" PROVE t.result.processed >= t.floor
  <2>1. S.processed >= S.auth /\ t.result = S
    BY <1>3, <1>5 DEF Holds
  <2>2. processed \in Nat /\ w.floor \in Nat /\ S.auth \in Nat
    BY SMT, <1>2, StoreNumbers, WaitNumbers
  <2> QED  BY SMT, <2>1, <2>2, <1>1, <1>2, <1>3
<1> QED  BY <1>3, <1>4, <1>5 DEF WaitOK

\* A step of the wait: the store stays.
LEMMA WaitStep ==
  ASSUME ObserverInv, wait' \in Waits, WaitOK(wait'), UNCHANGED storeVars, faults' \in 0..MaxFaults
  PROVE  ObserverInv'
<1>1. TypeOK'
  BY DEF ObserverInv, TypeOK, storeVars
<1>2. LogOK'
  BY DEF ObserverInv, LogOK, storeVars
<1>3. WaitOK(wait)'
  BY DEF WaitOK, PassedOK, CaughtUpOK, storeVars
<1> QED  BY <1>1, <1>2, <1>3 DEF ObserverInv

\* A step that changes only where the wait is and what its watch is.
LEMMA PlainWaitStep ==
  ASSUME ObserverInv, wait' \in Waits, UNCHANGED storeVars, faults' \in 0..MaxFaults,
         wait'.pos = wait.pos, wait'.floor = wait.floor, wait'.catchUp = wait.catchUp,
         wait'.caughtUp = wait.caughtUp, wait'.recovered = wait.recovered, wait'.pc # "returned"
  PROVE  ObserverInv'
<1>1. WaitOK(wait')
  BY DEF ObserverInv, WaitOK, PassedOK, CaughtUpOK
<1> QED  BY <1>1, WaitStep

\* The history grows by an event after all there were.
LEMMA LogGrows ==
  ASSUME ObserverAssumption, ObserverInv, NEW expiry \in BOOLEAN, Written(expiry), TypeOK'
  PROVE  ObserverInv'
<1>1. PICK e : e = [rev |-> rev + 1, expiry |-> expiry]
  OBVIOUS
<1>2. /\ rev < MaxRev /\ rev' = rev + 1 /\ log' = Append(log, e) /\ wait' = wait
      /\ TypeOK /\ LogOK /\ WaitOK(wait) /\ wait \in Waits
  BY <1>1 DEF Written, ObserverInv, TypeOK
<1>3. e.rev = rev + 1
  BY <1>1
<1>4. /\ rev \in Nat /\ log \in Seq(Events) /\ Len(log) \in Nat /\ DOMAIN log = 1 .. Len(log)
      /\ \A i \in DOMAIN log : log[i].rev \in Nat
  BY <1>2, StoreNumbers
<1>5. /\ DOMAIN log' = 1 .. Len(log) + 1 /\ Len(log') = Len(log) + 1
      /\ \A i \in 1 .. Len(log) : log'[i] = log[i]
      /\ log'[Len(log) + 1] = e
  <2>1. e \in Events
    <3>1. rev + 1 \in 1..MaxRev
      BY SMT, <1>2, <1>4, StoreNumbers
    <3> QED  BY <3>1, <1>1 DEF Events
  <2> QED  BY SMT, <2>1, <1>2, <1>4
<1>6. LogOK'
  <2>1. \A i \in 1 .. Len(log) : log'[i].rev < rev + 1
    BY SMT, <1>2, <1>4, <1>5 DEF LogOK
  <2>2. ASSUME NEW i \in 1 .. Len(log) + 1, NEW j \in 1 .. Len(log) + 1, i < j
        PROVE  log'[i].rev < log'[j].rev
    <3>1. i \in 1 .. Len(log)
      BY SMT, <2>2, <1>4
    <3>2. CASE j \in 1 .. Len(log)
      BY <2>2, <3>1, <3>2, <1>2, <1>4, <1>5 DEF LogOK
    <3>3. CASE j = Len(log) + 1
      BY <2>1, <3>1, <3>3, <1>3, <1>5
    <3> QED  BY SMT, <3>2, <3>3, <1>4
  <2>3. \A i \in 1 .. Len(log) + 1 : log'[i].rev <= rev'
    <3>1. ASSUME NEW i \in 1 .. Len(log) + 1 PROVE log'[i].rev <= rev'
      <4>1. CASE i \in 1 .. Len(log)
        BY SMTT(30), <4>1, <2>1, <1>2, <1>4, <1>5
      <4>2. CASE i = Len(log) + 1
        BY SMTT(30), <4>2, <1>2, <1>3, <1>4, <1>5
      <4> QED  BY SMT, <4>1, <4>2, <1>4
    <3> QED  BY <3>1
  <2> QED  BY <2>2, <2>3, <1>5 DEF LogOK
<1>7. WaitOK(wait)'
  <2>1. /\ wait.catchUp \in Nat /\ wait.pos \in Nat /\ wait.catchUp <= rev /\ wait.pos \in 1 .. Len(log) + 1
    BY <1>2, WaitNumbers DEF WaitOK
  <2>2. wait.catchUp <= rev' /\ wait.pos \in 1 .. Len(log') + 1
    BY SMT, <2>1, <1>2, <1>4, <1>5
  <2>3. ASSUME ~wait.recovered PROVE PassedOK(wait)' /\ CaughtUpOK(wait)'
    <3>1. PassedOK(wait) /\ CaughtUpOK(wait)
      BY <2>3, <1>2 DEF WaitOK
    <3>2. \A i \in 1 .. Len(log) + 1 : i < wait.pos => i \in 1 .. Len(log)
      BY SMT, <2>1, <1>4
    <3>3. \A i \in 1 .. Len(log) + 1 : log'[i].rev <= wait.catchUp => i \in 1 .. Len(log)
      <4>1. ~(log'[Len(log) + 1].rev <= wait.catchUp)
        BY SMT, <2>1, <1>3, <1>4, <1>5
      <4>2. \A i \in 1 .. Len(log) + 1 : i = Len(log) + 1 \/ i \in 1 .. Len(log)
        BY SMT, <1>4
      <4> QED  BY <4>1, <4>2
    <3>4. PassedOK(wait)'
      BY <3>1, <3>2, <1>2, <1>4, <1>5 DEF PassedOK
    <3>5. CaughtUpOK(wait)'
      BY <3>1, <3>3, <1>2, <1>4, <1>5 DEF CaughtUpOK
    <3> QED  BY <3>4, <3>5
  <2> QED  BY <2>2, <2>3, <1>2 DEF WaitOK
<1> QED  BY <1>6, <1>7 DEF ObserverInv

\* The writes of the namespace: of input, of an expiry, of the marker behind it, of output
\* and of the election record.
LEMMA NamespaceStep ==
  ASSUME ObserverAssumption, ObserverInv, Namespace
  PROVE  ObserverInv'
<1>1. /\ TypeOK /\ LogOK /\ WaitOK(wait) /\ wait \in Waits /\ rev \in Nat /\ marker \in Nat /\ marker >= 1
      /\ marker <= rev /\ processed \in 0..marker /\ MaxRev \in Nat /\ rev >= 1 /\ compacted \in 0..rev
      /\ queued \in BOOLEAN /\ elected \in BOOLEAN /\ faults \in 0..MaxFaults /\ log \in Seq(Events)
  BY StoreNumbers DEF ObserverInv, TypeOK
<1>2. ASSUME Written(FALSE) \/ Written(TRUE)
      PROVE  /\ rev' \in 1..MaxRev /\ rev' = rev + 1 /\ compacted' \in 0..rev' /\ log' \in Seq(Events)
             /\ wait' \in Waits /\ faults' \in 0..MaxFaults
  <2>1. rev + 1 \in 1..MaxRev /\ rev' = rev + 1 /\ UNCHANGED <<compacted, wait, faults>>
    BY SMT, <1>1, <1>2 DEF Written
  <2>2. PICK expiry \in BOOLEAN : log' = Append(log, [rev |-> rev + 1, expiry |-> expiry])
    BY <1>2 DEF Written
  <2>3. [rev |-> rev + 1, expiry |-> expiry] \in Events
    BY <2>1 DEF Events
  <2>4. log' \in Seq(Events)
    BY SMT, <1>1, <2>2, <2>3
  <2> QED  BY SMT, <1>1, <2>1, <2>4
<1>3. CASE WriteInput
  <2>1. /\ Written(FALSE) /\ marker' = rev + 1 /\ queued' \in BOOLEAN /\ UNCHANGED <<processed, elected>>
    BY <1>1, <1>3 DEF WriteInput
  <2>2. marker' \in 1..rev' /\ processed' \in 0..marker'
    BY SMT, <1>1, <1>2, <2>1
  <2>3. TypeOK'
    BY <1>1, <1>2, <2>1, <2>2 DEF TypeOK
  <2> QED  BY <2>1, <2>3, LogGrows
<1>4. CASE ExpireLive
  <2>1. Written(TRUE) /\ UNCHANGED <<marker, processed, queued, elected>>
    BY <1>4 DEF ExpireLive
  <2>2. marker' \in 1..rev'
    BY SMT, <1>1, <1>2, <2>1
  <2>3. TypeOK'
    BY <1>1, <1>2, <2>1, <2>2 DEF TypeOK
  <2> QED  BY <2>1, <2>3, LogGrows
<1>5. CASE RecordExpiry
  <2>1. Written(FALSE) /\ marker' = rev + 1 /\ UNCHANGED <<processed, queued, elected>>
    BY <1>5 DEF RecordExpiry
  <2>2. marker' \in 1..rev' /\ processed' \in 0..marker'
    BY SMT, <1>1, <1>2, <2>1
  <2>3. TypeOK'
    BY <1>1, <1>2, <2>1, <2>2 DEF TypeOK
  <2> QED  BY <2>1, <2>3, LogGrows
<1>6. CASE Publish
  <2>1. Written(FALSE) /\ processed' = marker /\ queued' \in BOOLEAN /\ UNCHANGED <<marker, elected>>
    BY <1>6 DEF Publish
  <2>2. marker' \in 1..rev' /\ processed' \in 0..marker'
    BY SMT, <1>1, <1>2, <2>1
  <2>3. TypeOK'
    BY <1>1, <1>2, <2>1, <2>2 DEF TypeOK
  <2> QED  BY <2>1, <2>3, LogGrows
<1>7. CASE Elect
  <2>1. Written(FALSE) /\ elected' \in BOOLEAN /\ UNCHANGED <<marker, processed, queued>>
    BY <1>7 DEF Elect
  <2>2. marker' \in 1..rev'
    BY SMT, <1>1, <1>2, <2>1
  <2>3. TypeOK'
    BY <1>1, <1>2, <2>1, <2>2 DEF TypeOK
  <2> QED  BY <2>1, <2>3, LogGrows
<1>8. CASE WriteElsewhere
  <2>1. /\ rev' = rev + 1 /\ rev < MaxRev
        /\ UNCHANGED <<compacted, log, marker, processed, queued, elected, wait, faults>>
    BY <1>8 DEF WriteElsewhere
  <2>2. rev' \in 1..MaxRev /\ compacted' \in 0..rev' /\ marker' \in 1..rev'
    BY SMT, <1>1, <2>1
  <2>3. TypeOK'
    BY <1>1, <2>1, <2>2 DEF TypeOK
  <2>4. LogOK'
    BY SMTT(30), <1>1, <2>1, StoreNumbers DEF LogOK
  <2>5. wait.catchUp <= rev'
    BY SMTT(30), <1>1, <2>1, WaitNumbers DEF WaitOK
  <2>6. WaitOK(wait)'
    BY <1>1, <2>1, <2>5 DEF WaitOK, PassedOK, CaughtUpOK
  <2> QED  BY <2>3, <2>4, <2>6 DEF ObserverInv
<1>9. ASSUME NEW r \in 1..MaxRev, Compact(r) PROVE ObserverInv'
  <2>1. /\ r \in compacted + 1..rev /\ compacted' = r
        /\ UNCHANGED <<rev, log, marker, processed, queued, elected, wait, faults>>
    BY <1>9 DEF Compact
  <2>2. compacted' \in 0..rev'
    BY SMT, <1>1, <2>1
  <2>3. TypeOK'
    BY <1>1, <2>1, <2>2 DEF TypeOK
  <2>4. LogOK' /\ WaitOK(wait)'
    BY <1>1, <2>1 DEF LogOK, WaitOK, PassedOK, CaughtUpOK
  <2> QED  BY <2>3, <2>4 DEF ObserverInv
<1> QED  BY <1>3, <1>4, <1>5, <1>6, <1>7, <1>8, <1>9 DEF Namespace

\* The first snapshot: the replay begins behind its authoritative revision.
LEMMA BeginStep ==
  ASSUME ObserverAssumption, ObserverInv, Begin
  PROVE  ObserverInv'
<1>1. TypeOK /\ LogOK /\ wait \in Waits /\ faults \in 0..MaxFaults
  BY DEF ObserverInv, TypeOK
<1>2. /\ MaxRev \in Nat /\ rev \in Nat /\ marker \in Nat /\ marker <= rev /\ rev <= MaxRev
      /\ marker >= 1 /\ \A i \in DOMAIN log : log[i].rev \in Nat
  BY <1>1, StoreNumbers
<1>3. PICK place : place = Place(marker + 1)
  OBVIOUS
<1>4. /\ place \in 1 .. Len(log) + 1 /\ place \in Nat
      /\ \A i \in DOMAIN log : i < place => log[i].rev < marker + 1
  <2>1. PICK from : from = marker + 1
    OBVIOUS
  <2>2. from \in Nat /\ place = Place(from)
    BY SMT, <1>2, <1>3, <2>1
  <2>3. /\ place \in 1 .. Len(log) + 1
        /\ \A i \in DOMAIN log : i < place => log[i].rev < from
    BY <1>1, <2>2, PlaceSkipsEarlier
  <2>4. Len(log) \in Nat
    BY <1>1, StoreNumbers
  <2> QED  BY SMT, <2>1, <2>3, <2>4
<1>5. PICK caught : caught = (marker >= rev)
  OBVIOUS
<1>6. caught \in BOOLEAN /\ marker + 1 \in 0..MaxRev + 1 /\ marker \in 0..MaxRev /\ rev \in 0..MaxRev
  BY SMT, <1>2, <1>5
<1>7. PICK w : w = [wait EXCEPT !.stream = "open", !.start = marker + 1, !.pos = place,
                      !.floor = marker, !.catchUp = rev, !.caughtUp = caught]
  OBVIOUS
<1>8. /\ w \in Waits /\ w.pos = place /\ w.floor = marker /\ w.catchUp = rev /\ w.caughtUp = caught
  BY <1>1, <1>4, <1>6, <1>7 DEF Waits
<1>9. wait' = Test(w, Snapshot(marker)) /\ UNCHANGED <<storeVars, faults>>
  BY <1>3, <1>5, <1>7 DEF Begin
<1>10. PassedOK(w)
  BY SMT, <1>2, <1>4, <1>8 DEF PassedOK
<1>11. CaughtUpOK(w)
  <2>1. w.caughtUp => marker >= rev
    BY <1>5, <1>8
  <2>2. marker >= rev => \A i \in DOMAIN log : log[i].rev <= marker
    BY SMT, <1>1, <1>2 DEF LogOK
  <2> QED  BY <1>8, <2>1, <2>2 DEF CaughtUpOK
<1>12. w.floor <= Snapshot(marker).auth
  BY <1>1, <1>2, <1>6, <1>8, SnapshotIs
<1>13. w.catchUp <= rev /\ w.pos \in 1 .. Len(log) + 1
  BY SMTT(30), <1>2, <1>4, <1>8
<1>14. wait' \in Waits /\ WaitOK(wait')
  BY <1>1, <1>6, <1>8, <1>9, <1>10, <1>11, <1>12, <1>13, TestStep
<1> QED  BY <1>1, <1>9, <1>14, WaitStep

\* An event: an expiry raises the floor to its revision, and the replay has caught up
\* with the first snapshot once an event is as late.
LEMMA NextEventStep ==
  ASSUME ObserverAssumption, ObserverInv, NextEvent
  PROVE  ObserverInv'
<1>1. TypeOK /\ LogOK /\ wait \in Waits /\ faults \in 0..MaxFaults /\ WaitOK(wait)
  BY DEF ObserverInv, TypeOK
<1>2. /\ MaxRev \in Nat /\ rev \in Nat /\ rev <= MaxRev /\ DOMAIN log = 1 .. Len(log) /\ Len(log) \in Nat
      /\ \A i \in DOMAIN log : log[i].rev \in Nat /\ log[i].expiry \in BOOLEAN
  BY <1>1, StoreNumbers
<1>3. /\ wait.pos \in 1 .. Len(log) /\ wait.floor \in Nat /\ wait.floor <= MaxRev /\ wait.catchUp \in Nat
      /\ wait.caughtUp \in BOOLEAN /\ wait.catchUp <= rev
  BY SMT, <1>1, <1>2, WaitNumbers DEF WaitOK, NextEvent
<1>4. PICK pos : pos = wait.pos + 1
  OBVIOUS
<1>5. pos \in Nat /\ pos \in 1 .. Len(log) + 1
  BY SMT, <1>2, <1>3, <1>4
<1>6. PICK e : e = log[wait.pos]
  OBVIOUS
<1>7. PICK caught : caught = (wait.caughtUp \/ e.rev >= wait.catchUp)
  OBVIOUS
<1>8. PICK floor : floor = IF e.expiry /\ e.rev > wait.floor THEN e.rev ELSE wait.floor
  OBVIOUS
<1>9. PICK w : w = [wait EXCEPT !.pc = "reading", !.pos = pos, !.start = 0, !.caughtUp = caught,
                      !.floor = floor]
  OBVIOUS
<1>10. wait' = w /\ UNCHANGED <<storeVars, faults>>
  BY <1>4, <1>6, <1>7, <1>8, <1>9 DEF NextEvent
<1>11. e.rev \in Nat /\ e.rev <= rev /\ e.expiry \in BOOLEAN
  BY <1>1, <1>2, <1>3, <1>6 DEF LogOK
<1>12. /\ floor \in Nat /\ floor <= MaxRev /\ floor >= wait.floor /\ (e.expiry => e.rev <= floor)
  BY SMTT(30), <1>2, <1>3, <1>8, <1>11
<1>13. caught \in BOOLEAN
  BY <1>3, <1>7
<1>14. floor \in 0..MaxRev /\ 0 \in 0..MaxRev + 1
  BY SMT, <1>2, <1>12
<1>15. /\ w \in Waits /\ w.pos = pos /\ w.floor = floor /\ w.catchUp = wait.catchUp /\ w.caughtUp = caught
       /\ w.recovered = wait.recovered /\ w.pc = "reading"
  BY <1>1, <1>5, <1>9, <1>13, <1>14 DEF Waits
<1>16. ASSUME ~wait.recovered PROVE PassedOK(w) /\ CaughtUpOK(w)
  <2>1. PassedOK(wait) /\ CaughtUpOK(wait)
    BY <1>1, <1>16 DEF WaitOK
  <2>2. ASSUME NEW i \in DOMAIN log, i < pos, log[i].expiry PROVE log[i].rev <= floor
    <3>1. CASE i = wait.pos
      BY <2>2, <3>1, <1>6, <1>12
    <3>2. CASE i < wait.pos
      <4>1. log[i].rev <= wait.floor
        BY <2>1, <2>2, <3>2 DEF PassedOK
      <4> QED  BY SMTT(30), <4>1, <1>2, <1>3, <1>12
    <3>3. i \in 1 .. Len(log)
      BY <1>2
    <3> QED  BY SMT, <2>2, <3>1, <3>2, <3>3, <1>2, <1>3, <1>4
  <2>3. ASSUME caught, NEW i \in DOMAIN log, log[i].expiry, log[i].rev <= wait.catchUp
        PROVE  log[i].rev <= floor
    <3>1. wait.caughtUp \/ e.rev >= wait.catchUp
      BY <2>3, <1>7
    <3>2. CASE wait.caughtUp
      <4>1. log[i].rev <= wait.floor
        BY <2>1, <2>3, <3>2 DEF CaughtUpOK
      <4> QED  BY SMT, <4>1, <1>2, <1>3, <1>12
    <3>3. CASE e.rev >= wait.catchUp
      <4>1. ~(wait.pos < i)
        BY SMTT(30), <1>1, <1>2, <1>3, <1>6, <1>11, <2>3, <3>3 DEF LogOK
      <4>2. i \in 1 .. Len(log) /\ i < pos
        BY SMTT(30), <4>1, <1>2, <1>3, <1>4
      <4> QED  BY <4>2, <2>2, <2>3
    <3> QED  BY <3>1, <3>2, <3>3
  <2>4. PassedOK(w)
    BY <2>2, <1>15 DEF PassedOK
  <2>5. CaughtUpOK(w)
    BY <2>3, <1>15 DEF CaughtUpOK
  <2> QED  BY <2>4, <2>5
<1>17. WaitOK(w)
  BY <1>3, <1>5, <1>15, <1>16 DEF WaitOK
<1> QED  BY <1>1, <1>10, <1>15, <1>17, WaitStep

\* A snapshot for an event or at a poll.
LEMMA ReadStep ==
  ASSUME ObserverAssumption, ObserverInv,
         wait' = Test(wait, Snapshot(wait.floor)), UNCHANGED <<storeVars, faults>>
  PROVE  ObserverInv'
<1>1. TypeOK /\ wait \in Waits /\ faults \in 0..MaxFaults /\ WaitOK(wait)
  BY DEF ObserverInv, TypeOK
<1>2. wait.floor \in 0..MaxRev
  BY <1>1 DEF Waits
<1>3. wait.floor <= Snapshot(wait.floor).auth
  <2>1. MaxRev \in Nat
    BY DEF ObserverAssumption
  <2>2. Snapshot(wait.floor).auth \in 0..MaxRev /\ Snapshot(wait.floor).auth >= wait.floor
    BY <1>1, <1>2, SnapshotIs
  <2> QED  BY <1>2, <2>1, <2>2
<1>4. wait' \in Waits /\ WaitOK(wait')
  BY <1>1, <1>2, <1>3, TestStep DEF WaitOK
<1> QED  BY <1>1, <1>4, WaitStep

\* A compacted watch starts over from a snapshot: the events it lost are not accounted for,
\* and the floor is the snapshot's authoritative revision.
LEMMA RecoverStep ==
  ASSUME ObserverAssumption, ObserverInv, Recover
  PROVE  ObserverInv'
<1>1. TypeOK /\ LogOK /\ wait \in Waits /\ faults \in 0..MaxFaults /\ WaitOK(wait)
  BY DEF ObserverInv, TypeOK
<1>2. MaxRev \in Nat /\ rev \in Nat /\ rev <= MaxRev
  BY <1>1, StoreNumbers
<1>3. wait.floor \in 0..MaxRev
  BY <1>1 DEF Waits
<1>4. PICK floor : floor = Snapshot(wait.floor).auth
  OBVIOUS
<1>5. floor \in 0..MaxRev
  BY <1>1, <1>3, <1>4, SnapshotIs
<1>6. PICK from : from = rev + 1
  OBVIOUS
<1>7. from \in Nat /\ from \in 0..MaxRev + 1
  BY SMT, <1>2, <1>6
<1>8. PICK place : place = Place(from)
  OBVIOUS
<1>9. place \in 1 .. Len(log) + 1 /\ place \in Nat
  <2>1. place \in 1 .. Len(log) + 1
    BY <1>1, <1>7, <1>8, PlaceSkipsEarlier
  <2>2. Len(log) \in Nat
    BY <1>1, StoreNumbers
  <2> QED  BY SMTT(30), <2>1, <2>2
<1>10. PICK w : w = [wait EXCEPT !.stream = "open", !.start = from, !.pos = place,
                       !.floor = floor, !.caughtUp = TRUE, !.recovered = TRUE]
  OBVIOUS
<1>11. /\ w \in Waits /\ w.pos = place /\ w.floor = floor /\ w.catchUp = wait.catchUp /\ w.recovered = TRUE
  BY <1>1, <1>5, <1>7, <1>9, <1>10 DEF Waits
<1>12. wait' = Test(w, Snapshot(wait.floor)) /\ UNCHANGED <<storeVars, faults>>
  BY <1>4, <1>6, <1>8, <1>10 DEF Recover
<1>13. w.floor <= Snapshot(wait.floor).auth
  BY SMT, <1>2, <1>4, <1>5, <1>11
<1>14. w.catchUp <= rev /\ w.pos \in 1 .. Len(log) + 1
  BY <1>1, <1>9, <1>11 DEF WaitOK
<1>15. wait' \in Waits /\ WaitOK(wait')
  BY <1>1, <1>3, <1>11, <1>12, <1>13, <1>14, TestStep
<1> QED  BY <1>1, <1>12, <1>15, WaitStep

\* Every other step of the wait.
LEMMA OtherWaitStep ==
  ASSUME ObserverAssumption, ObserverInv, Synced \/ ReadFails \/ Disconnect \/ Resume \/ Timeout
  PROVE  ObserverInv'
<1>1. wait \in Waits /\ faults \in 0..MaxFaults /\ MaxFaults \in Nat /\ MaxRev \in Nat
  BY DEF ObserverInv, TypeOK, ObserverAssumption
<1>2. CASE Synced
  <2>1. 0 \in 0..MaxRev + 1
    BY SMT, <1>1
  <2>2. wait' = [wait EXCEPT !.start = 0] /\ UNCHANGED <<storeVars, faults>> /\ wait.pc = "waiting"
    BY <1>2 DEF Synced
  <2>3. /\ wait' \in Waits /\ wait'.pos = wait.pos /\ wait'.floor = wait.floor
        /\ wait'.catchUp = wait.catchUp /\ wait'.caughtUp = wait.caughtUp
        /\ wait'.recovered = wait.recovered /\ wait'.pc = "waiting"
    BY <1>1, <2>1, <2>2 DEF Waits
  <2> QED  BY <1>1, <2>2, <2>3, PlainWaitStep
<1>3. CASE ReadFails
  <2>1. /\ wait' = [wait EXCEPT !.pc = "failed"] /\ UNCHANGED storeVars
        /\ faults' = faults + 1 /\ faults < MaxFaults
    BY <1>3 DEF ReadFails
  <2>2. /\ wait' \in Waits /\ wait'.pos = wait.pos /\ wait'.floor = wait.floor
        /\ wait'.catchUp = wait.catchUp /\ wait'.caughtUp = wait.caughtUp
        /\ wait'.recovered = wait.recovered /\ wait'.pc = "failed"
    BY <1>1, <2>1 DEF Waits
  <2>3. faults' \in 0..MaxFaults
    BY SMT, <1>1, <2>1
  <2> QED  BY <2>1, <2>2, <2>3, PlainWaitStep
<1>4. CASE Disconnect
  <2>1. /\ wait' = [wait EXCEPT !.stream = "broken"] /\ UNCHANGED storeVars
        /\ faults' = faults + 1 /\ faults < MaxFaults /\ wait.pc = "waiting"
    BY <1>4 DEF Disconnect
  <2>2. /\ wait' \in Waits /\ wait'.pos = wait.pos /\ wait'.floor = wait.floor
        /\ wait'.catchUp = wait.catchUp /\ wait'.caughtUp = wait.caughtUp
        /\ wait'.recovered = wait.recovered /\ wait'.pc = "waiting"
    BY <1>1, <2>1 DEF Waits
  <2>3. faults' \in 0..MaxFaults
    BY SMT, <1>1, <2>1
  <2> QED  BY <2>1, <2>2, <2>3, PlainWaitStep
<1>5. CASE Resume
  <2>1. wait' = [wait EXCEPT !.stream = "deaf"] /\ UNCHANGED <<storeVars, faults>> /\ wait.pc = "waiting"
    BY <1>5 DEF Resume
  <2>2. /\ wait' \in Waits /\ wait'.pos = wait.pos /\ wait'.floor = wait.floor
        /\ wait'.catchUp = wait.catchUp /\ wait'.caughtUp = wait.caughtUp
        /\ wait'.recovered = wait.recovered /\ wait'.pc = "waiting"
    BY <1>1, <2>1 DEF Waits
  <2> QED  BY <1>1, <2>1, <2>2, PlainWaitStep
<1>6. CASE Timeout
  <2>1. wait' = [wait EXCEPT !.pc = "timeout"] /\ UNCHANGED <<storeVars, faults>>
    BY <1>6 DEF Timeout
  <2>2. /\ wait' \in Waits /\ wait'.pos = wait.pos /\ wait'.floor = wait.floor
        /\ wait'.catchUp = wait.catchUp /\ wait'.caughtUp = wait.caughtUp
        /\ wait'.recovered = wait.recovered /\ wait'.pc = "timeout"
    BY <1>1, <2>1 DEF Waits
  <2> QED  BY <1>1, <2>1, <2>2, PlainWaitStep
<1> QED  BY <1>2, <1>3, <1>4, <1>5, <1>6

\* A wait begins with nothing seen.
LEMMA ObserverInit ==
  ASSUME ObserverAssumption, Init
  PROVE  ObserverInv
<1>1. MaxRev \in Nat /\ MaxRev >= 1 /\ MaxFaults \in Nat
  BY SMT DEF ObserverAssumption
<1>2. /\ rev = 1 /\ compacted = 0 /\ log = <<[rev |-> 1, expiry |-> FALSE]>> /\ marker = 1
      /\ processed = 0 /\ queued = FALSE /\ elected = TRUE /\ faults = 0
  BY DEF Init
<1>3. PICK for \in Conditions : wait = Start(for)
  BY DEF Init
<1>4. [rev |-> 1, expiry |-> FALSE] \in Events
  <2>1. 1 \in 1..MaxRev
    BY SMT, <1>1
  <2> QED  BY <2>1 DEF Events
<1>5. log \in Seq(Events) /\ Len(log) = 1 /\ DOMAIN log = 1..1 /\ log[1].rev = 1
  BY SMTT(30), <1>2, <1>4
<1>6. wait \in Waits
  <2>1. 0 \in 0..MaxRev /\ 0 \in 0..MaxRev + 1
    BY SMT, <1>1
  <2>2. NoSnapshot \in Snapshots
    BY <2>1 DEF NoSnapshot, Snapshots
  <2> QED  BY <1>3, <2>1, <2>2 DEF Start, Waits
<1>7. TypeOK
  <2>1. rev \in 1..MaxRev /\ compacted \in 0..rev /\ marker \in 1..rev /\ processed \in 0..marker
    BY SMT, <1>1, <1>2
  <2>2. faults \in 0..MaxFaults
    BY SMT, <1>1, <1>2
  <2> QED  BY <1>2, <1>5, <1>6, <2>1, <2>2 DEF TypeOK
<1>8. LogOK
  BY SMT, <1>2, <1>5 DEF LogOK
<1>9. wait.catchUp = 0 /\ wait.pos = 1 /\ wait.caughtUp = FALSE /\ wait.pc = "start"
  BY <1>3 DEF Start
<1>10. PassedOK(wait) /\ CaughtUpOK(wait)
  BY SMT, <1>5, <1>9 DEF PassedOK, CaughtUpOK
<1>11. wait.catchUp <= rev /\ wait.pos \in 1 .. Len(log) + 1
  BY SMT, <1>2, <1>5, <1>9
<1>12. WaitOK(wait)
  BY <1>9, <1>10, <1>11 DEF WaitOK
<1> QED  BY <1>7, <1>8, <1>12 DEF ObserverInv

\* Whatever the namespace writes and the watch delivers or loses, an observer's floor
\* covers the expiries its replay has passed (wait_until).
THEOREM ObserverInvariant ==
  ASSUME ObserverAssumption
  PROVE  Spec => []ObserverInv
<1>1. ObserverInv /\ [Next]_vars => ObserverInv'
  <2>1. SUFFICES ASSUME ObserverInv, [Next]_vars PROVE ObserverInv'
    OBVIOUS
  <2>2. CASE UNCHANGED vars
    <3>1. UNCHANGED storeVars /\ wait' = wait /\ faults' = faults
      BY <2>2 DEF vars
    <3>2. wait' \in Waits /\ WaitOK(wait') /\ faults' \in 0..MaxFaults
      BY <2>1, <3>1 DEF ObserverInv, TypeOK
    <3> QED  BY <2>1, <3>1, <3>2, WaitStep
  <2>3. CASE Read
    BY <2>1, <2>3, ReadStep DEF Read
  <2>4. CASE Poll
    BY <2>1, <2>4, ReadStep DEF Poll
  <2> QED  BY <2>1, <2>2, <2>3, <2>4, NamespaceStep, BeginStep, NextEventStep, RecoverStep,
              OtherWaitStep DEF Next
<1> QED  BY <1>1, ObserverInit, PTL DEF Spec

\* An observer that finds the cluster idle has a controller that has processed every lease
\* that expired before the wait began, and every one the observer was told of, unless a
\* compaction took events away (the replay from the authoritative revision, the floor and
\* caught_up in wait_until): for any history of the namespace and any losses.
THEOREM IdleIsSound ==
  ASSUME ObserverAssumption
  PROVE  Spec => []IdleCoversThePast
<1>1. ObserverInv => IdleCoversThePast
  <2>1. SUFFICES ASSUME ObserverInv, wait.pc = "returned", wait.for = "idle", ~wait.recovered
                 PROVE  /\ wait.result.processed >= LastExpiry(wait.catchUp)
                        /\ wait.result.processed >= wait.floor
    BY DEF IdleCoversThePast
  <2>2. /\ TypeOK /\ wait \in Waits /\ wait.caughtUp /\ CaughtUpOK(wait)
        /\ wait.result.processed >= wait.floor
    BY <2>1 DEF ObserverInv, TypeOK, WaitOK
  <2>3. wait.floor \in Nat /\ wait.result \in Snapshots /\ log \in Seq(Events) /\ MaxRev \in Nat
    BY <2>2, WaitNumbers, StoreNumbers
  <2>4. wait.result.processed \in Nat
    BY SMT, <2>3 DEF Snapshots
  <2>5. \/ LastExpiry(wait.catchUp) = 0
        \/ \E i \in DOMAIN log : /\ log[i].expiry /\ log[i].rev <= wait.catchUp
                                 /\ LastExpiry(wait.catchUp) = log[i].rev
    BY <2>3, LastExpiryIsOne
  <2>6. CASE LastExpiry(wait.catchUp) = 0
    BY SMTT(30), <2>2, <2>4, <2>6
  <2>7. CASE \E i \in DOMAIN log : /\ log[i].expiry /\ log[i].rev <= wait.catchUp
                                   /\ LastExpiry(wait.catchUp) = log[i].rev
    <3>1. PICK i \in DOMAIN log : /\ log[i].expiry /\ log[i].rev <= wait.catchUp
                                  /\ LastExpiry(wait.catchUp) = log[i].rev
      BY <2>7
    <3>2. log[i].rev <= wait.floor /\ log[i].rev \in Nat
      BY <2>2, <3>1, StoreNumbers DEF CaughtUpOK
    <3> QED  BY SMTT(30), <2>2, <2>3, <2>4, <3>1, <3>2
  <2> QED  BY <2>5, <2>6, <2>7
<1> QED  BY <1>1, ObserverInvariant, PTL

-----------------------------------------------------------------------------
(***************************************************************************)
(* A process from start to end.                                            *)
(***************************************************************************)

Labels ==
  {"build", "campaign", "campaignWait", "enroll", "enrollAgain", "disenroll", "stand", "standWait",
   "standBroken", "start", "ready", "lead", "relinquish", "fatal", "register", "registerWait",
   "queue", "loop", "resume", "drain", "drainLost", "reconnect", "reconnectWait", "requeue",
   "requeueWait", "revoke", "returned", "rejected"}

\* Where a process has no lease, and where a participant has no handlers.
Unregistered == {"build", "campaign", "campaignWait", "register", "registerWait"}
Quiet == Unregistered \cup {"queue", "reconnect", "reconnectWait", "requeue", "requeueWait"}

\* Where a controller campaigns, and where it has a key of its own and none is left of an
\* earlier lease.
Candidate == {"stand", "standWait", "standBroken"}
Campaigning == Enrolling \cup Candidate \cup {"build"}
Standing == Candidate \cup {"start", "ready", "lead", "relinquish", "fatal"}

\* Where an error of etcd or of a handler may strike.
Interrupted ==
  {"start", "lead", "queue", "loop", "resume", "drain", "drainLost", "reconnect", "requeue"}

\* The control of the process and what it is about to answer.
ControlOK ==
  /\ role \in {"controller", "participant"} /\ lease \in {"none", "held", "gone"} /\ pc \in Labels
  /\ tasks \in 0..1 /\ lifeFaults \in 0..MaxLifeFaults
  /\ ready \in {"unset", "done", "failed"} /\ outcome \in {"none", "ok", "error"}
  /\ answer \in {"none", "ok"} \cup ApplicationErrors
  /\ pc \in Unregistered => lease = "none"
  /\ pc \in {"build", "register", "registerWait"} => ~left
  /\ role = "participant" /\ lease = "held" => ~left
  /\ role = "controller" /\ pc \in Standing => ~left
  /\ role = "controller" \/ pc \in Quiet => tasks = 0
  /\ pc \in {"drain", "relinquish"} => shutdown
  /\ pc = "revoke" /\ outcome = "ok" => shutdown /\ tasks = 0
  /\ pc = "returned" /\ outcome = "ok" => shutdown /\ tasks = 0
  /\ pc = "returned" /\ outcome = "ok" /\ role = "participant" => lease # "held" /\ ~left
  /\ answer # "none" => pc \in {"returned", "rejected"}
  /\ pc \in {"build", "rejected"} => ready = "unset"
  /\ pc = "rejected" => answer \in {"Spec", "Signal", "error"}
  /\ answer = "ok" => pc = "returned" /\ outcome = "ok" /\ ready # "failed" /\ ~signalErr
  /\ answer # "none" /\ ready = "failed" => answer \in {"Callback", "Signal"}

\* A controller that campaigns has not said that it leads, or has said that it no longer
\* does; one that led and returns Ok has no lease and has left none.
AuthorityOK ==
  role = "controller" =>
    /\ pc \in Campaigning => ~Leads
    /\ pc = "returned" /\ outcome = "ok" /\ Leads => lease # "held" /\ ~left

\* What the event hook has been called with.
EventsOK ==
  /\ \A k \in DOMAIN events : events[k] \in Terminal => k = Len(events) /\ pc = "returned"
  /\ pc = "returned" =>
       ((outcome = "ok") <=> (events # <<>> /\ events[Len(events)] = "GracefulShutdown"))

\* The inductive invariant: EndIsAnnounced, and why a process that returns Ok has no
\* handlers and, if it was registered or led, no lease; and a process that registers no
\* handlers.
LifeInv == ControlOK /\ events \in Seq(RuntimeEvents) /\ EventsOK /\ AuthorityOK

\* What a step says to the event hook: nothing, unless it returns Ok; an event that is not
\* an end; or the end, as it returns.
Says ==
  \/ events' = events /\ (pc' = "returned" => outcome' = "error")
  \/ \E e \in RuntimeEvents \ Terminal : events' = Append(events, e) /\ pc' # "returned"
  \/ \E e \in Terminal : /\ events' = Append(events, e) /\ pc' = "returned"
                           /\ outcome' = IF e = "GracefulShutdown" THEN "ok" ELSE "error"

LEMMA EventsStep ==
  ASSUME events \in Seq(RuntimeEvents), EventsOK, pc # "returned", Says
  PROVE  events' \in Seq(RuntimeEvents) /\ EventsOK'
<1>1. \A k \in DOMAIN events : events[k] \notin Terminal
  BY DEF EventsOK
<1>2. Len(events) \in Nat /\ DOMAIN events = 1 .. Len(events) /\ (events # <<>> => Len(events) \in DOMAIN events)
  BY SMT
<1>3. CASE events' = events /\ (pc' = "returned" => outcome' = "error")
  BY <1>1, <1>2, <1>3 DEF EventsOK, Terminal
<1>4. ASSUME NEW e \in RuntimeEvents, events' = Append(events, e)
      PROVE  /\ events' \in Seq(RuntimeEvents) /\ Len(events') = Len(events) + 1 /\ events' # <<>>
             /\ DOMAIN events' = 1 .. Len(events) + 1 /\ events'[Len(events) + 1] = e
             /\ \A k \in 1 .. Len(events) + 1 : k # Len(events) + 1 => events'[k] \notin Terminal
  <2>1. /\ events' \in Seq(RuntimeEvents) /\ Len(events') = Len(events) + 1 /\ events' # <<>>
        /\ events'[Len(events) + 1] = e
    BY SMT, <1>4
  <2>2. DOMAIN events' = 1 .. Len(events) + 1
    BY SMT, <2>1
  <2>3. \A k \in 1 .. Len(events) : events'[k] = events[k]
    BY SMT, <1>4
  <2>4. \A k \in 1 .. Len(events) + 1 : k # Len(events) + 1 => k \in 1 .. Len(events)
    BY SMT, <1>2
  <2> QED  BY <2>1, <2>2, <2>3, <2>4, <1>1, <1>2
<1>5. CASE \E e \in RuntimeEvents \ Terminal : events' = Append(events, e) /\ pc' # "returned"
  <2>1. PICK e \in RuntimeEvents \ Terminal : events' = Append(events, e) /\ pc' # "returned"
    BY <1>5
  <2> QED  BY <2>1, <1>4 DEF EventsOK
<1>6. CASE \E e \in Terminal : /\ events' = Append(events, e) /\ pc' = "returned"
                                 /\ outcome' = IF e = "GracefulShutdown" THEN "ok" ELSE "error"
  <2>1. PICK e \in Terminal : /\ events' = Append(events, e) /\ pc' = "returned"
                                /\ outcome' = IF e = "GracefulShutdown" THEN "ok" ELSE "error"
    BY <1>6
  <2>2. e \in RuntimeEvents
    BY DEF Terminal, RuntimeEvents
  <2>3. (outcome' = "ok") <=> e = "GracefulShutdown"
    BY <2>1
  <2> QED  BY <2>1, <2>2, <2>3, <1>4 DEF EventsOK
<1> QED  BY <1>3, <1>5, <1>6 DEF Says

\* What an event changes in what the application knows of the authority.
Follows ==
  /\ events' = events => (Leads' <=> Leads)
  /\ \A e \in RuntimeEvents : events' = Append(events, e)
       => (Leads' <=> (e = "AuthorityAcquired" \/ (Leads /\ e # "AuthorityLost")))

LEMMA LeadsStep ==
  ASSUME events \in Seq(RuntimeEvents)
  PROVE  Follows
<1>1. ASSUME events' = events
      PROVE  Leads' <=> Leads
  BY <1>1 DEF Leads
<1>2. ASSUME NEW e \in RuntimeEvents, events' = Append(events, e)
      PROVE  Leads' <=> (e = "AuthorityAcquired" \/ (Leads /\ e # "AuthorityLost"))
  <2> DEFINE n == Len(events)
  <2>1. n \in Nat /\ DOMAIN events = 1 .. n
    BY SMT
  <2>2. DOMAIN events' = 1 .. n + 1 /\ events'[n + 1] = e
    BY SMT, <1>2
  <2>3. \A k \in 1 .. n : events'[k] = events[k]
    BY SMT, <1>2
  <2> HIDE DEF n
  <2>4. CASE e = "AuthorityAcquired"
    <3>1. n + 1 \in DOMAIN events' /\ \A j \in DOMAIN events' : ~(j > n + 1)
      BY SMT, <2>1, <2>2
    <3> QED  BY <3>1, <2>2, <2>4 DEF Leads
  <2>5. CASE e = "AuthorityLost"
    <3>1. \A k \in DOMAIN events' : k # n + 1 => n + 1 > k /\ n + 1 \in DOMAIN events'
      BY SMT, <2>1, <2>2
    <3> QED  BY <3>1, <2>2, <2>5 DEF Leads
  <2>6. CASE e # "AuthorityAcquired" /\ e # "AuthorityLost"
    <3>1. \A k \in DOMAIN events' : k = n + 1 \/ k \in DOMAIN events
      BY SMT, <2>1, <2>2
    <3>2. \A k \in DOMAIN events : k \in DOMAIN events' /\ events'[k] = events[k]
      BY SMT, <2>1, <2>2, <2>3
    <3>3. ASSUME Leads PROVE Leads'
      <4>1. PICK k \in DOMAIN events : /\ events[k] = "AuthorityAcquired"
                                     /\ \A j \in DOMAIN events : j > k => events[j] # "AuthorityLost"
        BY <3>3 DEF Leads
      <4>2. \A j \in DOMAIN events' : j > k => events'[j] # "AuthorityLost"
        BY <4>1, <3>1, <3>2, <2>2, <2>6
      <4> QED  BY <4>1, <4>2, <3>2 DEF Leads
    <3>4. ASSUME Leads' PROVE Leads
      <4>1. PICK k \in DOMAIN events' : /\ events'[k] = "AuthorityAcquired"
                                      /\ \A j \in DOMAIN events' : j > k => events'[j] # "AuthorityLost"
        BY <3>4 DEF Leads
      <4>2. k \in DOMAIN events
        BY <4>1, <3>1, <2>2, <2>6
      <4> QED  BY <4>1, <4>2, <3>2 DEF Leads
    <3> QED  BY <3>3, <3>4, <2>6
  <2> QED  BY <2>4, <2>5, <2>6
<1> QED  BY <1>1, <1>2 DEF Follows

\* A step of RecoveryIsQuiet: no handler starts between a lost lease that was noticed and
\* the next session, and a session begins without handlers.
QuietStep ==
  /\ role = "participant" /\ tasks' > tasks => pc \in {"queue", "loop", "requeue"}
  /\ lease # "held" /\ lease' = "held" => tasks' = 0

\* A step of the process before its end.
Moves == pc # "returned" /\ Says /\ QuietStep /\ ControlOK'

\* The steps of a controller.
LEMMA ControllerMoves ==
  ASSUME LifecycleAssumption, ControlOK, Controller
  PROVE  Moves
<1> USE DEF Moves, ControlOK, Says, QuietStep, Labels, Unregistered, Quiet, Inside, Around, At,
            Candidate, Standing, Terminal, RuntimeEvents, ApplicationErrors
<1> USE DEF RevokeLease
<1>1. CASE Grant
  BY SMTT(30), <1>1 DEF Grant
<1>2. CASE Enroll
  BY SMTT(30), <1>2 DEF Enroll, Go
<1>3. CASE Disenroll
  BY SMTT(30), <1>3 DEF Disenroll
<1>4. CASE CampaignAgain
  BY SMTT(30), <1>4 DEF CampaignAgain, Move, Go
<1>5. CASE Stand
  <2>1. /\ role = "controller" /\ pc = "stand"
        /\ \/ pc' \in {"standWait", "standBroken"} /\ events' = events
           \/ pc' = "start" /\ events' = Append(events, "AuthorityAcquired")
        /\ UNCHANGED <<role, lease, left, tasks, ready, outcome, answer, lifeFaults, shutdown, signalErr>>
    BY <1>5 DEF Stand, Emit
  <2> QED  BY SMTT(30), <2>1
<1>6. CASE StandAgain
  BY SMTT(30), <1>6 DEF StandAgain, Move, Go
<1>7. CASE CandidateExpired
  BY SMTT(30), <1>7 DEF CandidateExpired, Abandon
<1>8. CASE CampaignShutdown
  BY SMTT(30), <1>8 DEF CampaignShutdown, Emit, Return
<1>9. CASE FirstCommit
  BY SMTT(30), <1>9 DEF FirstCommit, Move, Go
<1>10. CASE ControllerReady
  BY SMTT(30), <1>10 DEF ControllerReady, CallReady
<1>11. CASE LeaderShutdown
  BY SMTT(30), <1>11 DEF LeaderShutdown, Move, Go
<1>12. CASE LeadershipLost
  BY SMTT(30), <1>12 DEF LeadershipLost, Emit, Abandon
<1>13. CASE ControllerFatal
  BY SMTT(30), <1>13 DEF ControllerFatal, Emit, Return
<1>14. CASE Relinquish
  BY SMTT(30), <1>14 DEF Relinquish, Emit, Return
<1> QED  BY <1>1, <1>2, <1>3, <1>4, <1>5, <1>6, <1>7, <1>8, <1>9, <1>10, <1>11, <1>12, <1>13, <1>14 DEF Controller

\* A controller says what it knows of its authority, and gives up what it has of it.
LEMMA AuthorityStep ==
  ASSUME ControlOK, AuthorityOK, Follows, Controller
  PROVE  AuthorityOK'
<1> USE DEF AuthorityOK, Follows, Candidate, Standing, Enrolling, Campaigning, RevokeLease, Inside,
            Around, At, RuntimeEvents
<1>0. role = "controller" /\ (pc \in Standing => ~left)
  BY DEF ControlOK, Controller, Grant, Enroll, Disenroll, CampaignAgain, Stand, StandAgain,
         CandidateExpired, CampaignShutdown, FirstCommit, ControllerReady, CallReady, LeaderShutdown,
         LeadershipLost, ControllerFatal, Relinquish, Move
<1>1. CASE Grant
  BY <1>0, <1>1 DEF Grant
<1>2. CASE Enroll
  BY <1>0, <1>2 DEF Enroll, Go
<1>3. CASE Disenroll
  BY <1>0, <1>3 DEF Disenroll
<1>4. CASE CampaignAgain
  BY <1>0, <1>4 DEF CampaignAgain, Move, Go
<1>5. CASE Stand
  BY <1>0, <1>5 DEF Stand, Emit
<1>6. CASE StandAgain
  BY <1>0, <1>6 DEF StandAgain, Move, Go
<1>7. CASE CandidateExpired
  BY <1>0, <1>7 DEF CandidateExpired
<1>8. CASE CampaignShutdown
  BY <1>0, <1>8 DEF CampaignShutdown, Emit, Return
<1>9. CASE FirstCommit
  BY <1>0, <1>9 DEF FirstCommit, Move, Go
<1>10. CASE ControllerReady
  BY <1>0, <1>10 DEF ControllerReady, CallReady
<1>11. CASE LeaderShutdown
  BY <1>0, <1>11 DEF LeaderShutdown, Move, Go
<1>12. CASE LeadershipLost
  BY <1>0, <1>12 DEF LeadershipLost, Emit
<1>13. CASE ControllerFatal
  BY <1>0, <1>13 DEF ControllerFatal, Emit, Return
<1>14. CASE Relinquish
  BY <1>0, <1>14 DEF Relinquish, Emit, Return
<1> QED  BY <1>1, <1>2, <1>3, <1>4, <1>5, <1>6, <1>7, <1>8, <1>9, <1>10, <1>11, <1>12, <1>13, <1>14 DEF Controller

\* The steps of a participant.
LEMMA ParticipantMoves ==
  ASSUME LifecycleAssumption, ControlOK, Participant
  PROVE  Moves
<1> USE DEF Moves, ControlOK, Says, QuietStep, Labels, Unregistered, Quiet, Inside, Around, At,
            Candidate, Standing, Terminal, RuntimeEvents, ApplicationErrors
<1>1. CASE Register
  BY SMTT(30), <1>1 DEF Register, Return
<1>2. CASE RegisterAgain
  BY SMTT(30), <1>2 DEF RegisterAgain, Move, Go
<1>3. CASE RegisterShutdown
  BY SMTT(30), <1>3 DEF RegisterShutdown, Emit, Return
<1>4. CASE FirstQueue
  BY <1>4 DEF FirstQueue
<1>5. CASE ParticipantReady
  BY SMTT(30), <1>5 DEF ParticipantReady, CallReady
<1>6. CASE WatchBreaks
  BY <1>6 DEF WatchBreaks, Emit
<1>7. CASE ResumeWatch
  BY SMTT(30), <1>7 DEF ResumeWatch, Move, Go
<1>8. CASE LoopShutdown
  BY SMTT(30), <1>8 DEF LoopShutdown, Move, Go
<1>9. CASE KeepaliveExpired
  BY <1>9 DEF KeepaliveExpired, Emit
<1>10. CASE HandlerEnds
  BY SMTT(30), <1>10 DEF HandlerEnds
<1>11. CASE DrainedLost
  BY SMTT(30), <1>11 DEF DrainedLost, Move, Go
<1>12. CASE Drained
  BY SMTT(30), <1>12 DEF Drained
<1>13. CASE DrainFails
  BY SMTT(30), <1>13 DEF DrainFails
<1>14. CASE Reconnect
  <2>1. ~etcd /\ lease = "held" => left' = left
    BY <1>14 DEF Reconnect, Unheard
  <2> QED  BY SMTT(30), <1>14, <2>1 DEF Reconnect, Emit
<1>15. CASE ReconnectAgain
  BY SMTT(30), <1>15 DEF ReconnectAgain, Move, Go
<1>16. CASE Requeue
  BY <1>16 DEF Requeue
<1>17. CASE RequeueAgain
  BY SMTT(30), <1>17 DEF RequeueAgain, Move, Go
<1>18. CASE RecoveryShutdown
  BY SMTT(30), <1>18 DEF RecoveryShutdown
<1>19. CASE Revoke
  BY SMTT(30), <1>19 DEF Revoke, Emit, Return, RevokeLease
<1> QED  BY <1>1, <1>2, <1>3, <1>4, <1>5, <1>6, <1>7, <1>8, <1>9, <1>10, <1>11, <1>12, <1>13, <1>14, <1>15, <1>16, <1>17, <1>18, <1>19 DEF Participant

\* An error that ends the process.
LEMMA FaultMoves ==
  ASSUME LifecycleAssumption, ControlOK, ControllerFault \/ ParticipantFault
  PROVE  Moves
<1>1. PICK r, from, to : Fault(r, from, to) /\ from \in Interrupted /\ to \in {"fatal", "revoke"}
  <2>1. CASE ControllerFault
    BY <2>1 DEF ControllerFault, Interrupted
  <2>2. CASE ParticipantFault
    BY <2>2 DEF ParticipantFault, Interrupted
  <2> QED  BY <2>1, <2>2
<1>2. /\ pc \in Interrupted /\ pc' \in {"fatal", "revoke"} /\ outcome' = "error" /\ tasks' = 0
      /\ lifeFaults' \in 0..MaxLifeFaults
      /\ UNCHANGED <<role, lease, left, ready, events, answer, shutdown, signalErr>>
  BY SMT, <1>1 DEF Fault, At, Inside, Around, LifecycleAssumption, ControlOK
<1>3. pc # "returned" /\ pc # "rejected" /\ pc' # "returned"
  BY <1>2 DEF Interrupted
<1>4. role = "controller" => pc \in Standing
  BY DEF ControllerFault, ParticipantFault, Fault, At, Standing
<1> QED  BY SMT, <1>2, <1>3, <1>4 DEF Moves, ControlOK, Says, QuietStep, Labels, Unregistered, Quiet

\* The start of a process, and its work.
LEMMA OtherMoves ==
  ASSUME LifecycleAssumption, ControlOK, StartController \/ StartParticipant \/ Work
  PROVE  Moves
<1> USE DEF Moves, ControlOK, Says, QuietStep, Labels, Unregistered, Quiet, Inside, Around, At,
            Candidate, Standing, Terminal, RuntimeEvents, ApplicationErrors
<1>1. CASE StartController
  <2>1. /\ role = "controller" /\ pc = "build"
        /\ \/ pc' = "campaign" /\ answer' = answer
           \/ pc' = "rejected" /\ answer' \in {"Spec", "Signal", "error"}
        /\ UNCHANGED <<role, lease, left, tasks, ready, outcome, events, lifeFaults, shutdown, signalErr>>
    BY <1>1 DEF StartController, BuildAndRun
  <2>2. answer = "none" /\ tasks = 0 /\ lease = "none" /\ ~left
    BY <2>1
  <2>3. Says /\ QuietStep
    BY <2>1, <2>2
  <2> QED  BY <2>1, <2>2, <2>3
<1>2. CASE StartParticipant
  <2>1. /\ role = "participant" /\ pc = "build"
        /\ \/ pc' = "register" /\ answer' = answer
           \/ pc' = "rejected" /\ answer' \in {"Spec", "Signal", "error"}
        /\ UNCHANGED <<role, lease, left, tasks, ready, outcome, events, lifeFaults, shutdown, signalErr>>
    BY <1>2 DEF StartParticipant, BuildAndRun
  <2>2. answer = "none" /\ tasks = 0 /\ lease = "none" /\ ~left
    BY <2>1
  <2>3. Says /\ QuietStep
    BY SMTT(30), <2>1, <2>2
  <2> QED  BY <2>1, <2>2, <2>3
<1>3. CASE Work
  BY SMTT(30), <1>3 DEF Work
<1> QED  BY <1>1, <1>2, <1>3

\* A lease that ends and a key that goes do not come back by themselves.
Fades == (lease' = "held" => lease = "held") /\ (left' => left)

\* What happens around the process, and the answer to the application.
LEMMA SurroundingsMove ==
  ASSUME LifecycleAssumption, ControlOK, Environment \/ Answer
  PROVE  QuietStep /\ ControlOK' /\ Fades /\ UNCHANGED <<role, pc, outcome, events>>
<1> USE DEF Moves, ControlOK, Says, QuietStep, Labels, Unregistered, Quiet, Inside, Around, At,
            Candidate, Standing, Terminal, RuntimeEvents, ApplicationErrors, Fades
<1>1. ASSUME NEW failed \in BOOLEAN, Shutdown(failed)
      PROVE  QuietStep /\ ControlOK' /\ Fades /\ UNCHANGED <<role, pc, outcome, events>>
  BY SMTT(30), <1>1 DEF Shutdown, Outside
<1>2. CASE LeaseEnds
  BY SMTT(30), <1>2 DEF LeaseEnds, Outside, LifecycleAssumption
<1>3. CASE EtcdLeaves
  BY SMTT(30), <1>3 DEF EtcdLeaves, Outside, LifecycleAssumption
<1>4. CASE EtcdReturns
  BY SMTT(30), <1>4 DEF EtcdReturns, Outside
<1>5. CASE RivalComes
  BY SMTT(30), <1>5 DEF RivalComes, Outside, LifecycleAssumption
<1>6. CASE RivalLeaves
  BY SMTT(30), <1>6 DEF RivalLeaves, Outside
<1>7. CASE Answer
  BY SMT, <1>7 DEF Answer, RunResult
<1>8. CASE LeaseLapses
  BY SMTT(30), <1>8 DEF LeaseLapses, Outside, Unattended
<1> QED  BY <1>1, <1>2, <1>3, <1>4, <1>5, <1>6, <1>7, <1>8 DEF Environment

\* Every step preserves the invariant and is quiet.
LEMMA LifeStep ==
  ASSUME LifecycleAssumption, LifeInv, [LifeNext]_lifeVars
  PROVE  LifeInv' /\ (UNCHANGED lifeVars \/ QuietStep)
<1>1. CASE UNCHANGED lifeVars
  <2>1. UNCHANGED <<role, pc, lease, left, tasks, ready, outcome, events, answer, rival, etcd, shutdown, signalErr, lifeFaults>>
    BY <1>1 DEF lifeVars, procVars
  <2>2. AuthorityOK'
    BY <2>1, LeadsStep DEF LifeInv, AuthorityOK, Follows
  <2> QED  BY SMTT(30), <1>1, <2>1, <2>2 DEF LifeInv, ControlOK, EventsOK
<1>2. ASSUME Moves, AuthorityOK' PROVE LifeInv' /\ QuietStep
  <2>1. events' \in Seq(RuntimeEvents) /\ EventsOK'
    BY <1>2, EventsStep DEF LifeInv, Moves
  <2> QED  BY <1>2, <2>1 DEF LifeInv, Moves
<1>3. CASE Environment \/ Answer
  <2>1. QuietStep /\ ControlOK' /\ Fades /\ UNCHANGED <<role, pc, outcome, events>>
    BY <1>3, SurroundingsMove DEF LifeInv
  <2>2. EventsOK'
    BY <2>1 DEF LifeInv, EventsOK
  <2>3. AuthorityOK'
    BY <2>1, LeadsStep DEF LifeInv, AuthorityOK, Follows, Fades
  <2> QED  BY <2>1, <2>2, <2>3 DEF LifeInv
<1>4. CASE Controller
  <2>1. AuthorityOK'
    BY <1>4, AuthorityStep, LeadsStep DEF LifeInv
  <2> QED  BY <1>2, <1>4, <2>1, ControllerMoves DEF LifeInv
<1>5. ASSUME role = "participant", role' = role
      PROVE  AuthorityOK'
  BY <1>5 DEF AuthorityOK
<1>6. CASE Participant
  <2>1. role = "participant" /\ role' = role
    BY <1>6 DEF Participant, Register, RegisterAgain, RegisterShutdown, FirstQueue, ParticipantReady,
                CallReady, WatchBreaks, ResumeWatch, LoopShutdown, KeepaliveExpired, HandlerEnds, DrainedLost,
                Drained, DrainFails, Reconnect, ReconnectAgain, Requeue, RequeueAgain, RecoveryShutdown,
                Revoke, Move, At, Inside, Around
  <2> QED  BY <1>2, <1>5, <1>6, <2>1, ParticipantMoves DEF LifeInv
<1>7. CASE StartParticipant \/ Work
  <2>1. role = "participant" /\ role' = role
    BY <1>7 DEF StartParticipant, BuildAndRun, Work, At, Inside, Around
  <2> QED  BY <1>2, <1>5, <1>7, <2>1, OtherMoves DEF LifeInv
<1>8. CASE StartController
  <2>1. pc = "build" /\ pc' \in {"campaign", "rejected"} /\ events' = events /\ role' = role
    BY <1>8 DEF StartController, BuildAndRun, At, Inside, Around
  <2>2. AuthorityOK'
    BY <2>1, LeadsStep DEF LifeInv, AuthorityOK, Follows, Campaigning
  <2> QED  BY <1>2, <1>8, <2>2, OtherMoves DEF LifeInv
<1>9. CASE ControllerFault \/ ParticipantFault
  <2>1. pc' \in {"fatal", "revoke"}
    BY <1>9 DEF ControllerFault, ParticipantFault, Fault
  <2>2. AuthorityOK'
    BY <2>1 DEF AuthorityOK, Campaigning, Enrolling, Candidate
  <2> QED  BY <1>2, <1>9, <2>2, FaultMoves DEF LifeInv
<1> QED  BY <1>1, <1>3, <1>4, <1>6, <1>7, <1>8, <1>9 DEF LifeNext

\* A process starts with no lease, no handlers and nothing announced.
LEMMA LifeInvInit ==
  ASSUME LifecycleAssumption, LifeInit
  PROVE  LifeInv
<1>1. ControlOK
  BY SMT DEF LifeInit, ControlOK, Labels, Unregistered, Quiet, Candidate, Standing, LifecycleAssumption
<1>2. events = <<>> /\ pc = "build"
  BY DEF LifeInit
<1>3. events \in Seq(RuntimeEvents) /\ EventsOK
  BY SMT, <1>2 DEF EventsOK
<1>4. AuthorityOK
  <2>1. DOMAIN events = {}
    BY SMT, <1>2
  <2> QED  BY <1>2, <2>1 DEF AuthorityOK, Leads
<1> QED  BY <1>1, <1>3, <1>4 DEF LifeInv

\* The control of run_until, wherever it is between the builder's call and its answer.
THEOREM LifeInvariant ==
  ASSUME LifecycleAssumption
  PROVE  LifeSpec => []LifeInv
<1> QED  BY LifeInvInit, LifeStep, PTL DEF LifeSpec

\* A process announces its end at most once and says nothing after it, an orderly one
\* exactly when the runtime returns Ok, which takes a shutdown, leaves no handlers and, after
\* a participant or a controller that led, no lease; the application is told Ok only then,
\* and of a callback that failed (run_until and run_until_signal): for any number of faults.
THEOREM LifeEnds ==
  ASSUME LifecycleAssumption
  PROVE  LifeSpec => []EndIsAnnounced
<1>1. LifeInv => EndIsAnnounced
  BY DEF LifeInv, ControlOK, EventsOK, AuthorityOK, EndIsAnnounced
<1> QED  BY <1>1, LifeInvariant, PTL

\* Between the loss of a lease that was noticed and the new session no handler starts, and
\* none of the old session is left when the new one begins (run_until, reconnect).
THEOREM LifeRecovery ==
  ASSUME LifecycleAssumption
  PROVE  LifeSpec => RecoveryIsQuiet
<1>1. LifeInv /\ [LifeNext]_lifeVars => [QuietStep]_lifeVars
  BY LifeStep
<1> QED  BY <1>1, LifeInvariant, PTL DEF LifeSpec, RecoveryIsQuiet, QuietStep

=============================================================================
