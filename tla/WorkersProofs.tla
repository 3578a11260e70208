---------------------------- MODULE WorkersProofs ----------------------------
(***************************************************************************)
(* The tasks of a participant session, for every set of messages and of    *)
(* execution keys and every bound.                                         *)
(***************************************************************************)
EXTENDS Workers, FiniteSetTheorems, SequenceTheorems, TLAPS

\* A leaf goes to Zenon; one that needs arithmetic, or the theory of functions
\* and records, cites SMT.
USE ZenonT(60)

\* The queue leaves room for the removal of all that is queued.
RoomOK == Len(images) + Cardinality(Queue) <= MaxRev

\* A message is queued once: what was removed does not come back.
ImagesOK ==
  \A m \in Messages : \A a \in 1..Len(images) : m \in images[a] =>
    /\ m \notin fresh
    /\ \A b \in a..Len(images) : m \in images[b] => \A s \in a..b : m \in images[s]

\* What the loop has taken is of the image it looked at last, holds its
\* execution key and has no task yet.
LoopOK ==
  loop.pc = "observe" =>
    /\ loop.rev = seen /\ loop.new \subseteq loop.ids /\ loop.ids \subseteq images[seen]
    /\ \A m \in loop.new : task[m].pc = "none" /\ inFlight[PartOf[m]] = m

KeysOK == \A m \in Messages : task[m].pc # "none" => inFlight[PartOf[m]] = m

\* What is observed lies between the frontier and the latest image, and what
\* the loop has charge of is observed, dealt with or about to be observed.
FrontierOK ==
  /\ frontier <= seen /\ completed \subseteq done
  /\ \A r \in Revisions :
       /\ revisions[r] # {} => frontier <= r /\ r <= seen
       /\ owed[r] \subseteq revisions[r] \cup done \cup Unentered(r)

\* The message of a task was queued in each image the task has been overtaken
\* by.
Overtaken(m) ==
  LET t == task[m] IN
    /\ t.fence - t.tries >= 1 /\ t.fence <= Len(images)
    /\ \A s \in t.fence - t.tries .. t.fence : m \in images[s]

RetriesOK ==
  \A m \in Messages :
    /\ task[m].pc \in {"claim", "check", "subscribe", "wait"} => task[m].tries = 0 /\ Overtaken(m)
    /\ task[m].pc \in {"txn", "cleanup"} => task[m].tries < MaxRetries /\ Overtaken(m)
    /\ task[m].pc = "error" => task[m].tries = MaxRetries /\ Overtaken(m)

WorkersInv ==
  TypeOK /\ RoomOK /\ ImagesOK /\ LoopOK /\ KeysOK /\ FrontierOK /\ RetriesOK

\* A bounded set of revisions has a last one.
LEMMA LastExists ==
  ASSUME NEW n \in Nat, NEW S \in SUBSET (1..n), S # {}
  PROVE  \E x \in S : \A y \in S : y <= x
<1> DEFINE T == {n - x : x \in S}
<1>1. T \subseteq Nat /\ T # {}
  <2>1. PICK x \in S : TRUE
    OBVIOUS
  <2>2. n - x \in T
    BY <2>1
  <2>3. \A y \in S : n - y \in Nat
    BY SMT
  <2> QED
    BY <2>2, <2>3
<1>2. PICK t \in T : \A u \in T : ~(<<u, t>> \in OpToRel(<, Nat))
  BY <1>1, NatLessThanWellFounded, WFMin
<1>3. \A u \in T : ~(u < t)
  BY <1>1, <1>2 DEF OpToRel
<1>4. PICK x \in S : t = n - x
  BY DEF T
<1>5. \A y \in S : ~(n - y < n - x)
  BY <1>3, <1>4
<1> QED
  BY SMT, <1>5

-----------------------------------------------------------------------------
(* The queue.                                                              *)

\* The queue is one of its images.
LEMMA QueueType ==
  ASSUME WorkersAssumption, TypeOK
  PROVE  /\ Len(images) \in Nat \ {0} /\ images \in [1..Len(images) -> SUBSET Messages]
         /\ Queue \in SUBSET Messages /\ IsFiniteSet(Queue) /\ Cardinality(Queue) \in Nat
<1>1. Len(images) \in Nat \ {0} /\ images \in [1..Len(images) -> SUBSET Messages]
  BY SMT DEF TypeOK, Revisions, WorkersAssumption
<1>2. Queue \in SUBSET Messages
  BY SMT, <1>1 DEF Queue
<1> QED
  BY <1>1, <1>2, FS_Subset, FS_CardinalityType DEF WorkersAssumption

\* A write of the queue leaves its earlier images and adds none of the messages
\* that were removed.
LEMMA RewriteStep ==
  ASSUME WorkersAssumption, TypeOK, ImagesOK, NEW q \in SUBSET Messages, Rewrite(q),
         fresh' \subseteq fresh, \A m \in q : m \in Queue \/ m \in fresh \ fresh',
         Len(images) + 1 + Cardinality(q) <= MaxRev
  PROVE  /\ images' \in Seq(SUBSET Messages) /\ Len(images') = Len(images) + 1
         /\ Len(images') \in Revisions
         /\ \A s \in 1..Len(images) : images'[s] = images[s]
         /\ Queue' = q /\ RoomOK' /\ ImagesOK'
<1>1. /\ Len(images) \in Nat \ {0} /\ images \in [1..Len(images) -> SUBSET Messages]
      /\ images \in Seq(SUBSET Messages) /\ Queue = images[Len(images)]
  BY QueueType DEF TypeOK, Queue
<1>2. /\ images' \in Seq(SUBSET Messages) /\ Len(images') = Len(images) + 1
      /\ \A s \in 1..Len(images) : images'[s] = images[s]
      /\ images'[Len(images) + 1] = q
  BY SMT, <1>1, AppendProperties DEF Rewrite
<1>3. Cardinality(q) \in Nat
  BY FS_Subset, FS_CardinalityType DEF WorkersAssumption
<1>4. Len(images') \in Revisions /\ Queue' = q /\ RoomOK'
  BY SMT, <1>1, <1>2, <1>3 DEF Revisions, Queue, RoomOK, WorkersAssumption
<1>5. ImagesOK'
  <2> SUFFICES ASSUME NEW m \in Messages, NEW a \in 1..(Len(images) + 1), m \in images'[a]
               PROVE  /\ m \notin fresh'
                      /\ \A b \in a..(Len(images) + 1) : m \in images'[b] =>
                           \A s \in a..b : m \in images'[s]
    BY <1>2 DEF ImagesOK
  <2>1. CASE a = Len(images) + 1
    <3>1. m \in q
      BY <1>2, <2>1
    <3>2. m \notin fresh'
      BY SMT, <1>1, <3>1 DEF ImagesOK
    <3> QED
      BY SMT, <1>1, <2>1, <3>2
  <2>2. CASE a # Len(images) + 1
    <3>1. a \in 1..Len(images) /\ m \in images[a] /\ m \notin fresh
      BY SMT, <1>1, <1>2, <2>2 DEF ImagesOK
    <3>2. ASSUME NEW b \in a..(Len(images) + 1), m \in images'[b], NEW s \in a..b
          PROVE  m \in images'[s]
      <4>1. CASE b = Len(images) + 1
        <5>1. m \in images[Len(images)]
          BY <1>1, <1>2, <3>1, <3>2, <4>1
        <5> QED
          BY SMT, <1>1, <1>2, <3>1, <3>2, <4>1, <5>1 DEF ImagesOK
      <4>2. CASE b # Len(images) + 1
        BY SMT, <1>1, <1>2, <3>1, <3>2, <4>2 DEF ImagesOK
      <4> QED
        BY <4>1, <4>2
    <3> QED
      BY <3>1, <3>2
  <2> QED
    BY <2>1, <2>2
<1> QED
  BY <1>2, <1>4, <1>5

\* The size of the queue after a removal.
LEMMA RemovalFits ==
  ASSUME WorkersAssumption, WorkersInv, NEW m \in Queue
  PROVE  Len(images) + 1 + Cardinality(Queue \ {m}) <= MaxRev
<1>1. Cardinality(Queue \ {m}) = Cardinality(Queue) - 1
  BY QueueType, FS_RemoveElement DEF WorkersInv
<1> QED
  BY SMT, <1>1, QueueType DEF WorkersInv, RoomOK, WorkersAssumption

\* What is known of tasks and of the loop is about earlier images.
LEMMA OvertakenLater ==
  ASSUME TypeOK, NEW m \in Messages, task'[m] = task[m], Overtaken(m),
         Len(images') >= Len(images), \A s \in 1..Len(images) : images'[s] = images[s],
         Len(images) \in Nat, Len(images') \in Nat
  PROVE  Overtaken(m)'
<1>1. task[m].fence \in Int /\ task[m].tries \in Int
  BY SMT DEF TypeOK, TaskStates, Revisions
<1> QED
  BY SMTT(30), <1>1 DEF Overtaken

\* A write of the queue that leaves the rest alone preserves the invariant.
LEMMA QueueStep ==
  ASSUME WorkersAssumption, WorkersInv, NEW q \in SUBSET Messages, Rewrite(q),
         fresh' \subseteq fresh, \A m \in q : m \in Queue \/ m \in fresh \ fresh',
         Len(images) + 1 + Cardinality(q) <= MaxRev,
         UNCHANGED <<seen, loop, inFlight, frontierVars, task, exited, token, sessionVars,
                     processed, drains>>
  PROVE  WorkersInv'
<1>1. /\ images' \in Seq(SUBSET Messages) /\ Len(images') = Len(images) + 1
      /\ Len(images') \in Revisions
      /\ \A s \in 1..Len(images) : images'[s] = images[s]
      /\ RoomOK' /\ ImagesOK'
  BY RewriteStep DEF WorkersInv
<1>2. Len(images) \in Nat \ {0} /\ seen \in 1..Len(images)
  BY QueueType DEF WorkersInv, TypeOK
<1>3. TypeOK'
  BY SMT, <1>1, <1>2 DEF WorkersInv, TypeOK, frontierVars, sessionVars
<1>4. LoopOK' /\ KeysOK'
  BY <1>1, <1>2 DEF WorkersInv, LoopOK, KeysOK
<1>5. FrontierOK'
  BY DEF WorkersInv, FrontierOK, Unentered, frontierVars
<1>6. RetriesOK'
  <2>1. \A m \in Messages : Overtaken(m) => Overtaken(m)'
    BY SMT, <1>1, <1>2, OvertakenLater DEF WorkersInv
  <2> QED
    BY <2>1 DEF WorkersInv, RetriesOK
<1> QED
  BY <1>1, <1>3, <1>4, <1>5, <1>6 DEF WorkersInv

\* Every action on the queue preserves the invariant.
LEMMA QueueActions ==
  ASSUME WorkersAssumption, WorkersInv,
         \/ RemovePendingTransitionsForResource
         \/ \E m \in Messages : Enqueue(m) \/ InjectPendingTransition(m) \/ Withdraw(m)
  PROVE  WorkersInv'
<1> USE DEF WorkersInv
<1>1. CASE RemovePendingTransitionsForResource
  <2>1. PICK m \in Queue : TRUE
    BY <1>1 DEF RemovePendingTransitionsForResource
  <2>2. Len(images) + 1 + Cardinality({}) <= MaxRev
    <3>1. Cardinality(Queue \ {m}) \in Nat
      BY QueueType, FS_RemoveElement, FS_CardinalityType
    <3> QED
      BY SMT, <2>1, <3>1, QueueType, RemovalFits, FS_EmptySet DEF WorkersAssumption
  <2> QED
    BY <1>1, <2>2, QueueStep DEF RemovePendingTransitionsForResource
<1>2. ASSUME NEW m \in Messages, Withdraw(m)
      PROVE  WorkersInv'
  BY <1>2, QueueType, RemovalFits, QueueStep DEF Withdraw
<1>3. ASSUME NEW m \in Messages, AppendMessage(m)
      PROVE  WorkersInv'
  <2>1. Cardinality(Queue \cup {m}) <= Cardinality(Queue) + 1 /\ Cardinality(Queue \cup {m}) \in Nat
    BY SMTT(30), QueueType, FS_AddElement, FS_CardinalityType
  <2>2. Len(images) + 1 + Cardinality(Queue \cup {m}) <= MaxRev
    BY SMT, <1>3, <2>1, QueueType DEF AppendMessage, WorkersAssumption
  <2>3. Queue \cup {m} \in SUBSET Messages
    BY QueueType
  <2> QED
    BY <1>3, <2>2, <2>3, QueueStep DEF AppendMessage
<1> QED
  BY <1>1, <1>2, <1>3 DEF Enqueue, InjectPendingTransition

-----------------------------------------------------------------------------
(* The loop.                                                               *)

\* What process_messages takes: free messages, each with an execution key of
\* its own.
LEMMA TakesAreApart ==
  ASSUME WorkersAssumption, NEW image \in SUBSET Messages, NEW new \in Takes(image)
  PROVE  /\ new \subseteq Free(image) /\ Free(image) \subseteq image
         /\ \A m, n \in new : PartOf[m] = PartOf[n] => m = n
BY SMT DEF Takes, Free

\* A look at an image preserves the invariant, whatever leads to it.
LEMMA LookStep ==
  ASSUME WorkersAssumption, WorkersInv, loop.pc # "observe",
         NEW r \in seen..Len(images), ProcessMessages(images[r], r), seen' = r,
         UNCHANGED <<queueVars, revisions, completed, frontier, done, task, processed>>,
         exited' \in 0..MaxExited, token' \in BOOLEAN, live' \in BOOLEAN,
         old' \in SUBSET Messages, drains' \in 0..MaxDrains
  PROVE  WorkersInv'
<1> USE DEF WorkersInv
<1>1. /\ Len(images) \in Nat \ {0} /\ images \in [1..Len(images) -> SUBSET Messages]
      /\ Len(images) \in Revisions /\ seen \in 1..Len(images)
      /\ r \in 1..Len(images) /\ r \in Revisions /\ images[r] \in SUBSET Messages
  BY SMT, QueueType DEF TypeOK, Revisions, WorkersAssumption
<1>2. PICK new \in Takes(images[r]) :
        /\ inFlight' = [p \in Parts |-> IF \E m \in new : PartOf[m] = p
                                        THEN CHOOSE m \in new : PartOf[m] = p
                                        ELSE inFlight[p]]
        /\ loop' = [pc |-> "observe", rev |-> r, ids |-> Running(images[r]) \cup new, new |-> new,
                    shutdown |-> FALSE]
        /\ owed' = [owed EXCEPT ![r] = @ \cup Running(images[r]) \cup new]
  BY DEF ProcessMessages
<1>3. /\ new \in SUBSET Messages /\ new \subseteq images[r]
      /\ \A m \in new : inFlight[PartOf[m]] = None
      /\ \A m, n \in new : PartOf[m] = PartOf[n] => m = n
  BY SMT, <1>1, <1>2, TakesAreApart DEF Free
<1>4. Running(images[r]) \in SUBSET Messages /\ Running(images[r]) \subseteq images[r]
  BY <1>1 DEF Running
<1>5. \A m \in new : inFlight'[PartOf[m]] = m
  BY <1>2, <1>3 DEF WorkersAssumption
<1>6. \A p \in Parts : ~(\E m \in new : PartOf[m] = p) => inFlight'[p] = inFlight[p]
  BY <1>2
<1>7. inFlight' \in [Parts -> Messages \cup {None}]
  BY <1>2, <1>3 DEF TypeOK
<1>8. loop' \in LoopStates
  BY <1>1, <1>2, <1>3, <1>4 DEF LoopStates
<1>9. owed' \in [Revisions -> SUBSET Messages]
  BY <1>1, <1>2, <1>3, <1>4 DEF TypeOK
<1>10. TypeOK'
  BY <1>1, <1>7, <1>8, <1>9 DEF TypeOK, queueVars
<1>11. RoomOK' /\ ImagesOK'
  BY DEF RoomOK, ImagesOK, Queue, queueVars
<1>12. KeysOK'
  BY SMTT(30), <1>3, <1>6 DEF KeysOK, WorkersAssumption
<1>13. LoopOK'
  <2>1. \A m \in new : task[m].pc = "none"
    BY <1>3 DEF KeysOK, WorkersAssumption
  <2> QED
    BY <1>2, <1>3, <1>4, <1>5, <2>1 DEF LoopOK, queueVars
<1>14. FrontierOK'
  <2>1. frontier' <= seen' /\ (completed \subseteq done)'
    BY SMTT(30), <1>1 DEF FrontierOK, TypeOK, Revisions
  <2>2. ASSUME NEW s \in Revisions
        PROVE  /\ revisions'[s] # {} => frontier' <= s /\ s <= seen'
               /\ owed'[s] \subseteq revisions'[s] \cup done' \cup Unentered(s)'
    <3>1. revisions[s] # {} => frontier <= s /\ s <= r
      BY SMTT(30), <1>1 DEF FrontierOK, Revisions
    <3>2. owed[s] \subseteq revisions[s] \cup done
      BY DEF FrontierOK, Unentered
    <3>3. CASE s = r
      <4>1. Unentered(s)' = Running(images[r]) \cup new
        BY <1>2, <3>3 DEF Unentered
      <4>2. owed'[s] = owed[s] \cup Running(images[r]) \cup new
        BY <1>1, <1>2, <3>3 DEF TypeOK
      <4> QED
        BY <3>1, <3>2, <4>1, <4>2
    <3>4. CASE s # r
      BY <1>2, <3>1, <3>2, <3>4 DEF TypeOK
    <3> QED
      BY <3>3, <3>4
  <2> QED
    BY <2>1, <2>2 DEF FrontierOK
<1>15. RetriesOK'
  BY DEF RetriesOK, Overtaken, queueVars
<1> QED
  BY <1>10, <1>11, <1>12, <1>13, <1>14, <1>15

\* Every look at the queue preserves the invariant.
LEMMA LookActions ==
  ASSUME WorkersAssumption, WorkersInv,
         Start \/ WatchEvent \/ WatchCompacted \/ JoinNext \/ Reregister
  PROVE  WorkersInv'
<1> USE DEF WorkersInv
<1>1. Len(images) \in Nat \ {0} /\ seen \in 1..Len(images)
  BY QueueType DEF TypeOK
<1>2. /\ exited \in 0..MaxExited /\ token \in BOOLEAN /\ live \in BOOLEAN
      /\ old \in SUBSET Messages /\ drains \in 0..MaxDrains
  BY DEF TypeOK
<1>3. CASE Start \/ WatchEvent \/ WatchCompacted
  <2>1. PICK r \in seen..Len(images) : LookAt(r)
    BY SMT, <1>1, <1>3 DEF Start, WatchEvent, WatchCompacted
  <2>2. loop.pc # "observe" /\ UNCHANGED <<exited, drains>>
    BY <1>3 DEF Start, WatchEvent, WatchCompacted
  <2> QED
    BY <1>2, <2>1, <2>2, LookStep DEF LookAt, sessionVars
<1>4. CASE JoinNext
  <2>1. LookAt(seen) /\ seen \in seen..Len(images) /\ loop.pc # "observe"
    BY SMT, <1>1, <1>4 DEF JoinNext
  <2>2. exited' \in 0..MaxExited /\ drains' = drains
    BY SMTT(30), <1>2, <1>4 DEF JoinNext, WorkersAssumption
  <2> QED
    BY <1>2, <2>1, <2>2, LookStep DEF LookAt, sessionVars
<1>5. CASE Reregister
  <2>1. /\ Len(images) \in seen..Len(images) /\ loop.pc # "observe" /\ seen' = Len(images)
        /\ ProcessMessages(images[Len(images)], Len(images))
    BY SMT, <1>1, <1>5 DEF Reregister, Drained, Queue
  <2> QED
    BY <1>2, <1>5, <2>1, LookStep DEF Reregister
<1> QED
  BY <1>3, <1>4, <1>5

\* A task that has not started.
LEMMA NoTaskType ==
  ASSUME WorkersAssumption
  PROVE  NoTask \in TaskStates /\ NoTask.pc = "none"
BY SMT DEF NoTask, TaskStates, WorkersAssumption

\* The start of the tasks preserves the invariant.
LEMMA SpawnStep ==
  ASSUME WorkersAssumption, WorkersInv, ObserveAndSpawn
  PROVE  WorkersInv'
<1> USE DEF WorkersInv
<1>0. PICK spawned : spawned = [NoTask EXCEPT !.pc = "claim", !.fence = loop.rev]
  OBVIOUS
<1>1. /\ Len(images) \in Nat \ {0} /\ seen \in 1..Len(images) /\ seen \in Revisions
  BY SMT, QueueType DEF TypeOK, Revisions, WorkersAssumption
<1>2. /\ loop.pc = "observe" /\ loop.rev = seen
      /\ loop.new \subseteq loop.ids /\ loop.ids \subseteq images[seen]
      /\ loop.ids \in SUBSET Messages /\ loop.new \in SUBSET Messages
      /\ \A m \in loop.new : task[m].pc = "none" /\ inFlight[PartOf[m]] = m
  BY SMT DEF ObserveAndSpawn, LoopOK, TypeOK
<1>3. /\ revisions' = [revisions EXCEPT ![seen] = @ \cup loop.ids]
      /\ loop' = Selecting
      /\ task' = [m \in Messages |-> IF m \in loop.new THEN spawned ELSE task[m]]
  BY <1>0, <1>2 DEF ObserveAndSpawn, Observe
<1>4. UNCHANGED <<images, fresh, seen, inFlight, completed, frontier, owed, done, exited, token,
                  live, old, processed, drains>>
  BY DEF ObserveAndSpawn, queueVars, sessionVars
<1>5. /\ spawned \in TaskStates /\ spawned.pc = "claim" /\ spawned.fence = seen
      /\ spawned.tries = 0
  <2>1. NoTask \in TaskStates /\ NoTask.tries = 0 /\ loop.rev \in Revisions
    BY <1>1, <1>2, NoTaskType DEF NoTask
  <2> QED
    BY <1>0, <1>2, <2>1 DEF TaskStates
<1>6. TypeOK'
  <2>1. task' \in [Messages -> TaskStates]
    BY <1>3, <1>5 DEF TypeOK
  <2>2. revisions' \in [Revisions -> SUBSET Messages]
    BY <1>1, <1>2, <1>3 DEF TypeOK
  <2>3. loop' \in LoopStates
    BY <1>3 DEF Selecting, LoopStates
  <2> QED
    BY <1>4, <2>1, <2>2, <2>3 DEF TypeOK
<1>7. RoomOK' /\ ImagesOK'
  BY <1>4 DEF RoomOK, ImagesOK, Queue
<1>8. LoopOK'
  BY <1>3 DEF LoopOK, Selecting
<1>9. KeysOK'
  BY <1>2, <1>3, <1>4 DEF KeysOK
<1>10. FrontierOK'
  <2>1. ASSUME NEW s \in Revisions
        PROVE  /\ revisions'[s] # {} => frontier <= s /\ s <= seen
               /\ owed[s] \subseteq revisions'[s] \cup done
    <3>1. CASE s = seen
      BY SMTT(30), <1>1, <1>2, <1>3, <3>1 DEF FrontierOK, Unentered, TypeOK, Revisions
    <3>2. CASE s # seen
      BY <1>1, <1>2, <1>3, <3>2 DEF FrontierOK, Unentered, TypeOK
    <3> QED
      BY <3>1, <3>2
  <2> QED
    BY <1>4, <2>1 DEF FrontierOK
<1>11. RetriesOK'
  <2>1. ASSUME NEW m \in loop.new
        PROVE  Overtaken(m)' /\ task'[m].pc = "claim" /\ task'[m].tries = 0
    <3>1. task'[m] = spawned
      BY <1>2, <1>3
    <3>2. m \in images[seen]
      BY <1>2
    <3> QED
      BY SMTT(30), <1>1, <1>4, <1>5, <3>1, <3>2 DEF Overtaken
  <2>2. ASSUME NEW m \in Messages, m \notin loop.new
        PROVE  task'[m] = task[m] /\ (Overtaken(m) => Overtaken(m)')
    BY <1>3, <1>4, <2>2 DEF Overtaken
  <2> QED
    BY <2>1, <2>2 DEF RetriesOK
<1> QED
  BY <1>6, <1>7, <1>8, <1>9, <1>10, <1>11

\* A step of the loop that takes nothing, with which waiting tasks may go on or
\* all tasks may end, preserves the invariant.
LEMMA LoopStep ==
  ASSUME WorkersAssumption, WorkersInv,
         loop' = loop \/ (loop.pc # "observe" /\ loop'.pc # "observe"),
         loop' \in LoopStates,
         \/ UNCHANGED task
         \/ loop.pc # "observe" /\ task' = [m \in Messages |-> NoTask]
         \/ /\ loop.pc # "observe"
            /\ task' = [m \in Messages |-> IF task[m].pc = "wait" THEN [task[m] EXCEPT !.pc = "txn"]
                                           ELSE task[m]],
         UNCHANGED <<queueVars, seen, inFlight, frontierVars, old, processed>>,
         exited' \in 0..MaxExited, token' \in BOOLEAN, live' \in BOOLEAN, drains' \in 0..MaxDrains
  PROVE  WorkersInv'
<1> USE DEF WorkersInv
<1>1. UNCHANGED <<images, fresh, seen, inFlight, revisions, completed, frontier, owed, done, old,
                  processed>>
  BY DEF queueVars, frontierVars
<1>2. \A m \in Messages :
        \/ task'[m] = task[m]
        \/ task'[m] = NoTask
        \/ task[m].pc = "wait" /\ task'[m] = [task[m] EXCEPT !.pc = "txn"]
  OBVIOUS
<1>3. task' \in [Messages -> TaskStates] /\ task \in [Messages -> TaskStates]
  <2>1. task \in [Messages -> TaskStates]
    BY DEF TypeOK
  <2>2. \A m \in Messages : [task[m] EXCEPT !.pc = "txn"] \in TaskStates
    BY SMT, <2>1 DEF TaskStates
  <2> QED
    BY <2>1, <2>2, NoTaskType
<1>4. TypeOK'
  BY <1>1, <1>3 DEF TypeOK
<1>5. RoomOK' /\ ImagesOK'
  BY <1>1 DEF RoomOK, ImagesOK, Queue
<1>6. LoopOK'
  BY <1>1 DEF LoopOK
<1>7. KeysOK'
  BY <1>1, <1>2, NoTaskType DEF KeysOK
<1>8. FrontierOK'
  BY <1>1 DEF FrontierOK, Unentered
<1>9. RetriesOK'
  <2> SUFFICES ASSUME NEW m \in Messages
               PROVE  RetriesOK!(m)'
    BY DEF RetriesOK
  <2>1. CASE task'[m] = task[m]
    BY <1>1, <2>1 DEF RetriesOK, Overtaken
  <2>2. CASE task'[m] = NoTask
    BY <2>2, NoTaskType
  <2>3. CASE task[m].pc = "wait" /\ task'[m] = [task[m] EXCEPT !.pc = "txn"]
    <3>1. task'[m].pc = "txn" /\ task'[m].tries = 0 /\ task'[m].fence = task[m].fence
      BY <1>3, <2>3 DEF RetriesOK, TaskStates
    <3>2. Overtaken(m)'
      BY <1>1, <2>3, <3>1 DEF RetriesOK, Overtaken
    <3> QED
      BY SMT, <3>1, <3>2 DEF WorkersAssumption
  <2> QED
    BY <1>2, <2>1, <2>2, <2>3
<1> QED
  BY <1>4, <1>5, <1>6, <1>7, <1>8, <1>9

\* Every other step of the loop preserves the invariant.
LEMMA LoopActions ==
  ASSUME WorkersAssumption, WorkersInv,
         \/ LoseSession \/ (\E shutdown \in BOOLEAN : Cancel(shutdown))
         \/ NotifyWaiters \/ DrainJoin \/ DrainWithoutLease \/ StopAfterDrain
         \/ \E m \in Messages : JoinError(m)
  PROVE  WorkersInv'
<1>1. /\ loop \in LoopStates /\ exited \in 0..MaxExited /\ token \in BOOLEAN /\ live \in BOOLEAN
      /\ drains \in 0..MaxDrains
  BY DEF WorkersInv, TypeOK
<1>2. ASSUME NEW pc \in {"notify", "stopped", "failed"}, NEW b \in BOOLEAN
      PROVE  /\ [Selecting EXCEPT !.pc = pc, !.shutdown = b] \in LoopStates
             /\ [Selecting EXCEPT !.pc = pc, !.shutdown = b].pc = pc
             /\ [Selecting EXCEPT !.pc = pc] \in LoopStates
             /\ [Selecting EXCEPT !.pc = pc].pc = pc
  BY DEF Selecting, LoopStates
<1>3. CASE LoseSession
  BY <1>1, <1>3, LoopStep DEF LoseSession
<1>4. ASSUME NEW shutdown \in BOOLEAN, Cancel(shutdown)
      PROVE  WorkersInv'
  <2>1. drains' \in 0..MaxDrains
    <3>1. drains < MaxDrains /\ drains' = drains + 1
      BY <1>4 DEF Cancel
    <3> QED
      BY SMTT(30), <1>1, <3>1 DEF WorkersAssumption
  <2>2. loop' \in LoopStates /\ loop'.pc # "observe" /\ loop.pc # "observe"
    <3>1. loop.pc = "select" /\ loop' = [Selecting EXCEPT !.pc = "notify", !.shutdown = shutdown]
      BY <1>4 DEF Cancel
    <3> QED
      BY <3>1 DEF Selecting, LoopStates
  <2> QED
    BY <1>1, <1>4, <2>1, <2>2, LoopStep DEF Cancel, sessionVars
<1>5. CASE NotifyWaiters
  <2>1. loop.pc = "notify" /\ loop' = [loop EXCEPT !.pc = "drain"]
    BY <1>5 DEF NotifyWaiters
  <2>2. loop' \in LoopStates /\ loop'.pc # "observe" /\ loop.pc # "observe"
    BY <1>1, <2>1 DEF LoopStates
  <2> QED
    BY <1>1, <1>5, <2>2, LoopStep DEF NotifyWaiters, sessionVars
<1>6. CASE DrainJoin
  <2>1. exited' \in 0..MaxExited
    BY SMT, <1>1, <1>6 DEF DrainJoin, WorkersAssumption
  <2> QED
    BY <1>1, <1>6, <2>1, LoopStep DEF DrainJoin, sessionVars
<1>7. CASE DrainWithoutLease
  <2>1. loop' \in LoopStates /\ loop'.pc # "observe" /\ loop.pc # "observe"
    BY <1>2, <1>7 DEF DrainWithoutLease
  <2> QED
    BY <1>1, <1>7, <2>1, LoopStep DEF DrainWithoutLease, sessionVars
<1>8. CASE StopAfterDrain
  <2>1. loop' \in LoopStates /\ loop'.pc # "observe" /\ loop.pc # "observe"
    BY <1>2, <1>8 DEF StopAfterDrain, Drained
  <2> QED
    BY <1>1, <1>8, <2>1, LoopStep DEF StopAfterDrain, sessionVars
<1>9. ASSUME NEW m \in Messages, JoinError(m)
      PROVE  WorkersInv'
  <2>1. loop' \in LoopStates /\ loop'.pc # "observe" /\ loop.pc # "observe"
    BY <1>2, <1>9 DEF JoinError
  <2> QED
    BY <1>1, <1>9, <2>1, LoopStep DEF JoinError, sessionVars
<1> QED
  BY <1>3, <1>4, <1>5, <1>6, <1>7, <1>8, <1>9

-----------------------------------------------------------------------------
(* The tasks.                                                              *)

\* What a task may become without losing track of its retries.
Fits(m, t) ==
  /\ t \in TaskStates /\ t.pc # "none"
  /\ t.pc \in {"claim", "check", "subscribe", "wait"} => t.tries = 0
  /\ t.pc \in {"txn", "cleanup"} => t.tries < MaxRetries
  /\ t.pc = "error" => t.tries = MaxRetries
  /\ t.pc \in {"claim", "check", "subscribe", "wait", "txn", "cleanup", "error"} =>
       /\ t.fence - t.tries >= 1 /\ t.fence <= Len(images)
       /\ \A s \in t.fence - t.tries .. t.fence : m \in images[s]

\* A step of a task that leaves the frontier alone preserves the invariant.
LEMMA TaskMoves ==
  ASSUME WorkersAssumption, WorkersInv, NEW m \in Messages, NEW t, Fits(m, t),
         task[m].pc # "none", task' = [task EXCEPT ![m] = t],
         UNCHANGED <<queueVars, seen, loop, inFlight, frontierVars, exited, token, sessionVars, drains>>,
         processed' \in {0} \cup Revisions
  PROVE  WorkersInv'
<1> USE DEF WorkersInv
<1>1. UNCHANGED <<images, fresh, seen, loop, inFlight, revisions, completed, frontier, owed, done,
                  exited, token, live, old, drains>>
  BY DEF queueVars, frontierVars, sessionVars
<1>2. task \in [Messages -> TaskStates]
  BY DEF TypeOK
<1>3. /\ task'[m] = t /\ task' \in [Messages -> TaskStates]
      /\ \A n \in Messages : n # m => task'[n] = task[n]
  BY <1>2 DEF Fits
<1>4. TypeOK'
  BY <1>1, <1>3 DEF TypeOK
<1>5. RoomOK' /\ ImagesOK'
  BY <1>1 DEF RoomOK, ImagesOK, Queue
<1>6. LoopOK'
  <2>1. loop.pc = "observe" => m \notin loop.new /\ loop.new \subseteq Messages
    BY SMTT(30) DEF LoopOK, TypeOK
  <2> QED
    BY <1>1, <1>3, <2>1 DEF LoopOK
<1>7. KeysOK'
  BY <1>1, <1>3 DEF KeysOK
<1>8. FrontierOK'
  BY <1>1 DEF FrontierOK, Unentered
<1>9. RetriesOK'
  <2>1. ASSUME NEW n \in Messages, n # m
        PROVE  RetriesOK!(n)'
    BY <1>1, <1>3, <2>1 DEF RetriesOK, Overtaken
  <2>2. RetriesOK!(m)'
    BY <1>1, <1>3 DEF Fits, Overtaken
  <2> QED
    BY <2>1, <2>2 DEF RetriesOK
<1> QED
  BY <1>4, <1>5, <1>6, <1>7, <1>8, <1>9

\* A task at rest in one of its states fits it.
LEMMA TaskFits ==
  ASSUME WorkersInv, NEW m \in Messages, task[m].pc # "none"
  PROVE  Fits(m, task[m])
BY DEF WorkersInv, TypeOK, TaskStates, RetriesOK, Overtaken, Fits

\* A task that goes on with its fence and its retries.
LEMMA StepFits ==
  ASSUME WorkersAssumption, WorkersInv, NEW m \in Messages, task[m].pc # "none", NEW pc, Step(m, pc),
         \/ pc \in {"complete", "advance", "release"}
         \/ task[m].pc = "claim" /\ pc = "cleanup"
         \/ task[m].pc \in {"check", "subscribe"} /\ pc \in {"subscribe", "wait", "txn"}
  PROVE  WorkersInv'
<1>1. PICK t : t = [task[m] EXCEPT !.pc = pc]
  OBVIOUS
<1>2. /\ task \in [Messages -> TaskStates] /\ task[m] \in TaskStates
      /\ processed \in {0} \cup Revisions /\ MaxRetries \in Nat \ {0}
  BY DEF WorkersInv, TypeOK, TaskStates, WorkersAssumption
<1>3. t \in TaskStates /\ t.pc = pc /\ t.fence = task[m].fence /\ t.tries = task[m].tries
  BY <1>1, <1>2 DEF TaskStates
<1>4. Fits(m, t)
  BY SMT, <1>2, <1>3, TaskFits DEF Fits
<1>5. task' = [task EXCEPT ![m] = t]
  BY <1>1, <1>2 DEF Step
<1> QED
  BY <1>2, <1>4, <1>5, TaskMoves DEF Step

\* The claim of a message preserves the invariant.
LEMMA ClaimStep ==
  ASSUME WorkersAssumption, WorkersInv, NEW m \in Messages, Claim(m)
  PROVE  WorkersInv'
<1>1. task[m].pc = "claim"
  BY DEF Claim
<1>2. CASE Consumed(m) \/ Step(m, "cleanup")
  BY <1>1, <1>2, StepFits DEF Consumed
<1>3. CASE /\ m \in Queue
           /\ task' = [task EXCEPT ![m] = [@ EXCEPT !.fence = Len(images),
                        !.pc = IF m \in Cooperative THEN "check" ELSE "txn"]]
           /\ UNCHANGED <<queueVars, seen, loop, inFlight, frontierVars, exited, token, sessionVars,
                          processed, drains>>
  <2>1. PICK t : t = [task[m] EXCEPT !.fence = Len(images),
                        !.pc = IF m \in Cooperative THEN "check" ELSE "txn"]
    OBVIOUS
  <2>2. /\ task \in [Messages -> TaskStates] /\ task[m] \in TaskStates
        /\ processed \in {0} \cup Revisions /\ MaxRetries \in Nat \ {0}
        /\ Len(images) \in Nat \ {0} /\ Len(images) \in Revisions /\ m \in images[Len(images)]
    BY <1>3, QueueType DEF WorkersInv, TypeOK, TaskStates, WorkersAssumption, Queue
  <2>3. task[m].tries = 0
    BY <1>1 DEF WorkersInv, RetriesOK
  <2>4. t \in TaskStates /\ t.pc \in {"check", "txn"} /\ t.fence = Len(images) /\ t.tries = 0
    BY <2>1, <2>2, <2>3 DEF TaskStates
  <2>5. Fits(m, t)
    BY SMT, <2>2, <2>4 DEF Fits
  <2>6. task' = [task EXCEPT ![m] = t]
    BY <1>3, <2>1, <2>2
  <2> QED
    BY <1>1, <1>3, <2>2, <2>5, <2>6, TaskMoves
<1> QED
  BY <1>2, <1>3 DEF Claim

\* An attempt to remove a message preserves the invariant.
LEMMA RemoveStep ==
  ASSUME WorkersAssumption, WorkersInv, NEW m \in Messages, RemoveAtFence(m),
         task[m].pc \in {"txn", "cleanup"}
  PROVE  WorkersInv'
<1>1. /\ task \in [Messages -> TaskStates] /\ task[m] \in TaskStates
      /\ processed \in {0} \cup Revisions /\ MaxRetries \in Nat \ {0}
      /\ Len(images) \in Nat \ {0} /\ Len(images) \in Revisions /\ seen \in 1..Len(images)
      /\ images \in [1..Len(images) -> SUBSET Messages]
  BY QueueType DEF WorkersInv, TypeOK, TaskStates, WorkersAssumption
<1>2. CASE Consumed(m)
  BY <1>2, StepFits DEF Consumed
<1>3. CASE /\ m \in Queue /\ Len(images) = task[m].fence
           /\ Rewrite(Queue \ {m})
           /\ task' = [task EXCEPT ![m].pc = "complete"]
           /\ UNCHANGED <<fresh, seen, loop, inFlight, frontierVars, exited, token, sessionVars,
                          processed, drains>>
  <2>1. PICK t : t = [task[m] EXCEPT !.pc = "complete"]
    OBVIOUS
  <2>2. t \in TaskStates /\ t.pc = "complete"
    BY <1>1, <2>1 DEF TaskStates
  <2>3. /\ task' \in [Messages -> TaskStates] /\ task'[m] = t
        /\ \A n \in Messages : n # m => task'[n] = task[n]
    BY <1>1, <1>3, <2>1, <2>2
  <2>4. /\ images' \in Seq(SUBSET Messages) /\ Len(images') = Len(images) + 1
        /\ Len(images') \in Revisions
        /\ \A s \in 1..Len(images) : images'[s] = images[s]
        /\ RoomOK' /\ ImagesOK'
    BY <1>3, QueueType, RemovalFits, RewriteStep DEF WorkersInv
  <2>5. TypeOK'
    BY SMTT(30), <1>1, <1>3, <2>3, <2>4 DEF WorkersInv, TypeOK, TaskStates, frontierVars, sessionVars
  <2>6. LoopOK'
    <3>1. loop.pc = "observe" => m \notin loop.new /\ loop.new \subseteq Messages
      BY SMT DEF WorkersInv, LoopOK, TypeOK
    <3> QED
      BY <1>1, <1>3, <2>3, <2>4, <3>1 DEF WorkersInv, LoopOK
  <2>7. KeysOK'
    BY <1>3, <2>3 DEF WorkersInv, KeysOK
  <2>8. FrontierOK'
    BY <1>3 DEF WorkersInv, FrontierOK, Unentered, frontierVars
  <2>9. RetriesOK'
    <3>1. \A n \in Messages : n # m /\ Overtaken(n) => Overtaken(n)'
      BY SMTT(30), <1>1, <2>3, <2>4, OvertakenLater DEF WorkersInv
    <3> QED
      BY <2>2, <2>3, <3>1 DEF WorkersInv, RetriesOK
  <2> QED
    BY <2>4, <2>5, <2>6, <2>7, <2>8, <2>9 DEF WorkersInv
<1>4. CASE /\ m \in Queue /\ Len(images) # task[m].fence
           /\ task' = [task EXCEPT ![m] = [@ EXCEPT
                         !.pc = IF task[m].tries + 1 = MaxRetries THEN "error" ELSE task[m].pc,
                         !.tries = task[m].tries + 1, !.fence = Len(images)]]
           /\ UNCHANGED <<queueVars, seen, loop, inFlight, frontierVars, exited, token, sessionVars,
                          processed, drains>>
  <2>0. PICK pc, tries : /\ pc = IF task[m].tries + 1 = MaxRetries THEN "error" ELSE task[m].pc
                         /\ tries = task[m].tries + 1
    OBVIOUS
  <2>1. PICK t : t = [task[m] EXCEPT !.pc = pc, !.tries = tries, !.fence = Len(images)]
    OBVIOUS
  <2>2. task[m].tries \in 0..MaxRetries /\ task[m].tries < MaxRetries /\ Overtaken(m)
    BY <1>1 DEF WorkersInv, RetriesOK, TaskStates
  <2>3. /\ t \in TaskStates /\ t.tries = task[m].tries + 1 /\ t.fence = Len(images)
        /\ t.pc = IF task[m].tries + 1 = MaxRetries THEN "error" ELSE task[m].pc
    <3>1. task[m].pc \in {"txn", "cleanup"} /\ tries \in 0..MaxRetries
      BY SMTT(30), <1>1, <2>0, <2>2
    <3>2. PICK u : u = [task[m] EXCEPT !.pc = pc, !.tries = tries]
      OBVIOUS
    <3>3. u \in TaskStates /\ u.pc = pc /\ u.tries = tries
      BY <1>1, <2>0, <3>1, <3>2 DEF TaskStates
    <3>4. t = [u EXCEPT !.fence = Len(images)]
      BY <2>1, <3>2
    <3> QED
      BY <1>1, <2>0, <3>3, <3>4 DEF TaskStates
  <2>4. \A s \in (task[m].fence - task[m].tries) .. Len(images) : m \in images[s]
    <3>1. /\ task[m].fence - task[m].tries \in 1..Len(images)
          /\ m \in images[task[m].fence - task[m].tries] /\ m \in images[Len(images)]
      BY SMTT(30), <1>1, <1>4, <2>2 DEF Overtaken, Queue, TaskStates, Revisions, WorkersAssumption
    <3> QED
      BY SMT, <1>1, <3>1 DEF WorkersInv, ImagesOK
  <2>5. Fits(m, t)
    <3>1. task[m].fence < Len(images) /\ task[m].fence \in Int
      BY SMT, <1>1, <1>4, <2>2 DEF Overtaken, TaskStates, Revisions
    <3> QED
      BY SMTT(30), <1>1, <2>2, <2>3, <2>4, <3>1 DEF Fits, Overtaken
  <2>6. task' = [task EXCEPT ![m] = t]
    BY <1>1, <1>4, <2>0, <2>1
  <2> QED
    BY <1>1, <1>4, <2>5, <2>6, TaskMoves
<1> QED
  BY <1>2, <1>3, <1>4 DEF RemoveAtFence

\* What a completion pops: revisions whose messages are all completed, with all
\* that was observed before them.
LEMMA PoppedFacts ==
  ASSUME WorkersAssumption, NEW c, NEW last, Popped(c) # {},
         last = CHOOSE r \in Popped(c) : \A s \in Popped(c) : s <= r
  PROVE  /\ last \in Revisions /\ revisions[last] # {}
         /\ \A r \in Revisions : r <= last => revisions[r] \subseteq c
         /\ \A r \in Revisions : r <= last /\ revisions[r] # {} => r \in Popped(c)
<1>1. Popped(c) \in SUBSET (1..MaxRev)
  BY DEF Popped, Revisions
<1>2. \E r \in Popped(c) : \A s \in Popped(c) : s <= r
  BY <1>1, LastExists DEF WorkersAssumption
<1>3. last \in Popped(c)
  BY <1>2
<1>4. /\ last \in Revisions /\ revisions[last] # {}
      /\ \A r \in Revisions : r <= last => revisions[r] \subseteq c
  BY <1>3 DEF Popped
<1>5. ASSUME NEW r \in Revisions, r <= last, revisions[r] # {}
      PROVE  r \in Popped(c)
  <2>1. \A s \in Revisions : s <= r => s <= last
    BY SMT, <1>4, <1>5 DEF Revisions
  <2> QED
    BY <1>4, <1>5, <2>1 DEF Popped
<1> QED
  BY <1>4, <1>5

\* A completion moves the frontier forward or not at all.
LEMMA CompletionStep ==
  ASSUME WorkersAssumption, WorkersInv, NEW m \in Messages, CompleteFrontier(m)
  PROVE  /\ WorkersInv'
         /\ frontier' # frontier =>
              /\ frontier' > frontier
              /\ \A r \in Revisions : r <= frontier' => owed[r] \ Unentered(r) \subseteq done'
<1> DEFINE c == completed \cup {m}
           popped == Popped(c)
           left == [r \in Revisions |-> IF r \in popped THEN {} ELSE revisions[r]]
<1>1. PICK last : last = IF popped = {} THEN 0 ELSE CHOOSE r \in popped : \A s \in popped : s <= r
  BY SMT
<1>2. PICK t : t = [task[m] EXCEPT !.report = last, !.pc = IF last = 0 THEN "release" ELSE "advance"]
  OBVIOUS
<1>3. /\ task[m].pc = "complete" /\ revisions' = left /\ done' = done \cup {m}
      /\ completed' \subseteq c
      /\ frontier' = IF last = 0 THEN frontier ELSE last
      /\ task' = [task EXCEPT ![m] = t]
      /\ UNCHANGED <<images, fresh, seen, loop, inFlight, owed, exited, token, live, old, processed,
                     drains>>
  <2>1. task' = [task EXCEPT ![m] = t]
    BY SMT, <1>1, <1>2 DEF CompleteFrontier
  <2>2. task[m].pc = "complete" /\ revisions' = left /\ done' = done \cup {m}
    BY DEF CompleteFrontier
  <2>3. completed' \subseteq c
    BY DEF CompleteFrontier
  <2>4. frontier' = IF last = 0 THEN frontier ELSE last
    BY SMT, <1>1 DEF CompleteFrontier
  <2>5. UNCHANGED <<queueVars, seen, loop, inFlight, owed, exited, token, sessionVars, processed, drains>>
    BY DEF CompleteFrontier
  <2> QED
    BY <2>1, <2>2, <2>3, <2>4, <2>5 DEF queueVars, sessionVars
<1>4. /\ task \in [Messages -> TaskStates] /\ task[m] \in TaskStates
      /\ revisions \in [Revisions -> SUBSET Messages] /\ completed \subseteq Messages
      /\ frontier \in {0} \cup Revisions /\ seen \in 1..Len(images) /\ Len(images) \in Revisions
      /\ Revisions \subseteq Nat \ {0} /\ done \subseteq Messages
  BY SMTT(30) DEF WorkersInv, TypeOK, TaskStates, Revisions, WorkersAssumption
<1>5. /\ popped = {} => last = 0
      /\ popped # {} => /\ last \in Revisions /\ revisions[last] # {}
                        /\ \A r \in Revisions : r <= last => revisions[r] \subseteq c
                        /\ \A r \in Revisions : r <= last /\ revisions[r] # {} => r \in popped
  BY <1>1, PoppedFacts
<1>6. c \subseteq done \cup {m} /\ c \subseteq Messages
  BY <1>4 DEF WorkersInv, FrontierOK
<1>7. /\ last \in {0} \cup Revisions
      /\ last # 0 => frontier <= last /\ last <= seen
  BY <1>4, <1>5 DEF WorkersInv, FrontierOK
<1>8. t \in TaskStates /\ t.pc \in {"release", "advance"}
  BY <1>2, <1>4, <1>7 DEF TaskStates
<1>9. /\ task' \in [Messages -> TaskStates] /\ task'[m] = t
      /\ \A n \in Messages : n # m => task'[n] = task[n]
  BY <1>3, <1>4, <1>8
<1>10. TypeOK'
  <2>1. revisions' \in [Revisions -> SUBSET Messages] /\ completed' \subseteq Messages
    BY <1>3, <1>4, <1>6
  <2>2. frontier' \in {0} \cup Revisions /\ done' \subseteq Messages
    BY <1>3, <1>4, <1>7
  <2> QED
    BY <1>3, <1>9, <2>1, <2>2 DEF WorkersInv, TypeOK, TaskStates
<1>11. RoomOK' /\ ImagesOK'
  BY <1>3 DEF WorkersInv, RoomOK, ImagesOK, Queue
<1>12. LoopOK'
  <2>1. loop.pc = "observe" => m \notin loop.new /\ loop.new \subseteq Messages
    BY SMTT(30), <1>3 DEF WorkersInv, LoopOK, TypeOK
  <2> QED
    BY <1>3, <1>9, <2>1 DEF WorkersInv, LoopOK
<1>13. KeysOK'
  BY <1>3, <1>9 DEF WorkersInv, KeysOK
<1>14. RetriesOK'
  BY <1>3, <1>8, <1>9 DEF WorkersInv, RetriesOK, Overtaken
<1>15. FrontierOK'
  <2>1. frontier' <= seen' /\ completed' \subseteq done'
    BY <1>3, <1>4, <1>6, <1>7 DEF WorkersInv, FrontierOK
  <2>2. ASSUME NEW r \in Revisions, revisions'[r] # {}
        PROVE  frontier' <= r /\ r <= seen'
    <3>1. r \notin popped /\ revisions[r] # {}
      BY <1>3, <2>2
    <3>2. frontier <= r /\ r <= seen
      BY <3>1 DEF WorkersInv, FrontierOK
    <3>3. last # 0 => last <= r
      <4>1. r \in Nat /\ last \in Nat
        BY SMT, <1>4, <1>7
      <4>2. last # 0 => ~(r <= last)
        BY <1>5, <3>1
      <4> QED
        BY SMT, <4>1, <4>2
    <3> QED
      BY <1>3, <3>2, <3>3
  <2>3. ASSUME NEW r \in Revisions
        PROVE  owed'[r] \subseteq revisions'[r] \cup done' \cup Unentered(r)'
    <3>1. owed[r] \subseteq revisions[r] \cup done \cup Unentered(r)
      BY DEF WorkersInv, FrontierOK
    <3>2. r \in popped => revisions[r] \subseteq done'
      BY SMTT(30), <1>3, <1>4, <1>6 DEF Popped
    <3>3. revisions'[r] = IF r \in popped THEN {} ELSE revisions[r]
      BY <1>3
    <3>4. Unentered(r)' = Unentered(r) /\ owed' = owed /\ done \subseteq done'
      BY <1>3 DEF Unentered
    <3> QED
      BY <3>1, <3>2, <3>3, <3>4
  <2> QED
    BY <2>1, <2>2, <2>3 DEF FrontierOK
<1>16. ASSUME frontier' # frontier
       PROVE  /\ frontier' > frontier
              /\ \A r \in Revisions : r <= frontier' => owed[r] \ Unentered(r) \subseteq done'
  <2>1. last # 0 /\ frontier' = last /\ popped # {}
    BY <1>3, <1>5, <1>16
  <2>2. frontier' > frontier
    BY SMT, <1>4, <1>7, <1>16, <2>1
  <2>3. ASSUME NEW r \in Revisions, r <= frontier'
        PROVE  owed[r] \ Unentered(r) \subseteq done'
    BY <1>3, <1>5, <1>6, <2>1, <2>3 DEF WorkersInv, FrontierOK
  <2> QED
    BY <2>2, <2>3
<1> QED
  BY <1>10, <1>11, <1>12, <1>13, <1>14, <1>15, <1>16 DEF WorkersInv

\* The report of a revision preserves the invariant.
LEMMA AdvanceStep ==
  ASSUME WorkersAssumption, WorkersInv, NEW m \in Messages, AdvanceRevision(m)
  PROVE  WorkersInv'
<1>1. PICK t : t = [task[m] EXCEPT !.pc = "release"]
  OBVIOUS
<1>2. /\ task \in [Messages -> TaskStates] /\ task[m] \in TaskStates
      /\ processed \in {0} \cup Revisions
  BY DEF WorkersInv, TypeOK, TaskStates
<1>3. Fits(m, t)
  BY <1>1, <1>2 DEF TaskStates, Fits
<1>4. task' = [task EXCEPT ![m] = t] /\ processed' \in {0} \cup Revisions
  BY <1>1, <1>2 DEF AdvanceRevision, TaskStates
<1> QED
  BY <1>3, <1>4, TaskMoves DEF AdvanceRevision

\* The end of a task releases a key that no other task holds.
LEMMA ReleaseStep ==
  ASSUME WorkersAssumption, WorkersInv, NEW m \in Messages, Release(m)
  PROVE  WorkersInv'
<1> USE DEF WorkersInv
<1>1. /\ task[m].pc = "release" /\ task' = [task EXCEPT ![m] = NoTask]
      /\ inFlight' = [inFlight EXCEPT ![PartOf[m]] = IF @ = m THEN None ELSE @]
      /\ UNCHANGED <<images, fresh, seen, loop, revisions, completed, frontier, owed, done, token,
                     live, old, processed, drains>>
  BY DEF Release, queueVars, frontierVars, sessionVars
<1>2. /\ task \in [Messages -> TaskStates] /\ inFlight \in [Parts -> Messages \cup {None}]
      /\ PartOf \in [Messages -> Parts] /\ None \notin Messages
  BY DEF TypeOK, TaskStates, WorkersAssumption
<1>3. /\ task' \in [Messages -> TaskStates] /\ task'[m].pc = "none"
      /\ \A n \in Messages : n # m => task'[n] = task[n]
  BY <1>1, <1>2, NoTaskType
<1>4. /\ inFlight' \in [Parts -> Messages \cup {None}]
      /\ \A p \in Parts : inFlight[p] # m => inFlight'[p] = inFlight[p]
  BY <1>1, <1>2
<1>5. exited' \in 0..MaxExited
  <2>1. exited \in 0..MaxExited /\ exited < MaxExited /\ exited' = exited + 1
    BY DEF TypeOK, Release
  <2> QED
    BY SMTT(30), <2>1 DEF WorkersAssumption
<1>6. TypeOK'
  BY <1>1, <1>3, <1>4, <1>5 DEF TypeOK
<1>7. RoomOK' /\ ImagesOK'
  BY <1>1 DEF RoomOK, ImagesOK, Queue
<1>8. LoopOK'
  <2>1. loop.pc = "observe" => m \notin loop.new /\ loop.new \subseteq Messages
    BY SMTT(30), <1>1 DEF LoopOK, TypeOK
  <2> QED
    BY SMTT(30), <1>1, <1>2, <1>3, <1>4, <2>1 DEF LoopOK
<1>9. KeysOK'
  BY <1>2, <1>3, <1>4 DEF KeysOK
<1>10. FrontierOK'
  BY <1>1 DEF FrontierOK, Unentered
<1>11. RetriesOK'
  BY <1>1, <1>3 DEF RetriesOK, Overtaken
<1> QED
  BY <1>6, <1>7, <1>8, <1>9, <1>10, <1>11

\* Every step of a task preserves the invariant.
LEMMA TaskActions ==
  ASSUME WorkersAssumption, WorkersInv, NEW m \in Messages, TaskStep(m)
  PROVE  WorkersInv'
<1>1. CASE Cleanup(m)
  BY <1>1, RemoveStep DEF Cleanup
<1>3. CASE Complete(m) /\ RemoveAtFence(m)
  BY <1>3, RemoveStep DEF Complete
<1>4. CASE Complete(m) /\ Step(m, "complete")
  <2>1. task[m].pc # "none"
    BY <1>4 DEF Complete
  <2> QED
    BY <1>4, <2>1, StepFits
<1>5. CASE Complete(m)
  BY <1>3, <1>4, <1>5 DEF Complete
<1>2. CASE CheckToken(m) \/ Subscribe(m)
  BY <1>2, StepFits DEF CheckToken, Subscribe
<1> QED
  BY <1>1, <1>2, <1>5, ClaimStep, CompletionStep, AdvanceStep, ReleaseStep DEF TaskStep

-----------------------------------------------------------------------------
(* The theorems.                                                           *)

\* A process starts in a state that satisfies the invariant.
LEMMA WorkersInit ==
  ASSUME WorkersAssumption, Init
  PROVE  WorkersInv
<1>1. PICK b \in Backlogs : images = <<b.queue>> /\ fresh = Messages \ b.queue /\ old = b.old
  BY DEF Init
<1>2. b.queue \in SUBSET Messages /\ b.old \in SUBSET Messages /\ Cardinality(b.queue) < MaxRev
  BY DEF WorkersAssumption
<1>3. Cardinality(b.queue) \in Nat
  BY <1>2, FS_Subset, FS_CardinalityType DEF WorkersAssumption
<1>4. /\ images \in Seq(SUBSET Messages) /\ Len(images) = 1 /\ Len(images) \in Revisions
      /\ images[1] = b.queue /\ 1..Len(images) = {1}
  BY SMT, <1>1, <1>2, <1>3 DEF Revisions, WorkersAssumption
<1>5. PICK l : l = [Selecting EXCEPT !.pc = "start"]
  OBVIOUS
<1>6. /\ l \in LoopStates
      /\ l.pc = "start" /\ loop = l
  BY <1>5 DEF Init, Selecting, LoopStates
<1>7. TypeOK
  <2>1. /\ seen \in 1..Len(images) /\ exited \in 0..MaxExited /\ drains \in 0..MaxDrains
        /\ fresh \subseteq Messages /\ old \subseteq Messages
    BY SMT, <1>1, <1>2, <1>4 DEF Init, WorkersAssumption
  <2>2. task \in [Messages -> TaskStates]
    BY NoTaskType DEF Init
  <2>3. inFlight \in [Parts -> Messages \cup {None}]
    BY DEF Init
  <2> QED
    BY <1>4, <1>6, <2>1, <2>2, <2>3 DEF Init, TypeOK, TaskStates
<1>8. RoomOK /\ ImagesOK
  BY SMT, <1>1, <1>2, <1>3, <1>4 DEF RoomOK, ImagesOK, Queue, WorkersAssumption
<1>9. LoopOK /\ KeysOK /\ FrontierOK /\ RetriesOK
  BY SMT, <1>6, NoTaskType DEF Init, LoopOK, KeysOK, FrontierOK, RetriesOK, Unentered
<1> QED
  BY <1>7, <1>8, <1>9 DEF WorkersInv

\* Every step preserves the invariant.
LEMMA WorkersStep ==
  ASSUME WorkersAssumption, WorkersInv, [Next]_vars
  PROVE  WorkersInv'
<1>1. CASE Next
  <2>1. CASE \/ RemovePendingTransitionsForResource
             \/ \E m \in Messages : Enqueue(m) \/ InjectPendingTransition(m) \/ Withdraw(m)
    BY <2>1, QueueActions
  <2>2. CASE Start \/ WatchEvent \/ WatchCompacted \/ JoinNext \/ Reregister
    BY <2>2, LookActions
  <2>3. CASE \/ LoseSession \/ (\E shutdown \in BOOLEAN : Cancel(shutdown))
             \/ NotifyWaiters \/ DrainJoin \/ DrainWithoutLease \/ StopAfterDrain
             \/ \E m \in Messages : JoinError(m)
    BY <2>3, LoopActions
  <2>4. CASE ObserveAndSpawn \/ \E m \in Messages : TaskStep(m)
    BY <2>4, SpawnStep, TaskActions
  <2> QED
    BY <1>1, <2>1, <2>2, <2>3, <2>4 DEF Next
<1>2. CASE UNCHANGED vars
  <2>1. UNCHANGED <<images, fresh, seen, loop, inFlight, revisions, completed, frontier, owed, done,
                    task, exited, token, live, old, processed, drains>>
    BY <1>2 DEF vars, queueVars, frontierVars, sessionVars
  <2> QED
    BY <2>1 DEF WorkersInv, TypeOK, RoomOK, ImagesOK, LoopOK, KeysOK, FrontierOK, RetriesOK, Queue,
                Overtaken, Unentered
<1> QED
  BY <1>1, <1>2

\* A participant session keeps its invariant: keys, frontier, images and retries
\* agree at every moment (participant.rs).
THEOREM WorkersInvariant ==
  ASSUME WorkersAssumption
  PROVE  Spec => []WorkersInv
<1>1. Init => WorkersInv
  BY WorkersInit
<1>2. WorkersInv /\ [Next]_vars => WorkersInv'
  BY WorkersStep
<1> QED
  BY <1>1, <1>2, PTL DEF Spec

\* No two tasks work on a partition (the execution keys of process_messages).
THEOREM WorkersOneTask ==
  ASSUME WorkersAssumption
  PROVE  Spec => []OneTaskPerPartition
<1>1. WorkersInv => OneTaskPerPartition
  BY DEF WorkersInv, KeysOK, OneTaskPerPartition
<1> QED
  BY <1>1, WorkersInvariant, PTL

\* A task gives up only after its queue was rewritten as often as it may retry,
\* with its message in it (MAX_COMPLETION_FENCE_RETRIES).
THEOREM WorkersGiveUp ==
  ASSUME WorkersAssumption
  PROVE  Spec => []GivesUpOnlyUnderContention
<1>1. WorkersInv => GivesUpOnlyUnderContention
  <2> SUFFICES ASSUME WorkersInv, NEW m \in Messages, task[m].pc = "error"
               PROVE  \E r \in 1..Len(images) - MaxRetries :
                        \A s \in r .. r + MaxRetries : m \in images[s]
    BY DEF GivesUpOnlyUnderContention
  <2>1. task[m].tries = MaxRetries /\ Overtaken(m) /\ task[m].fence \in Nat
    BY SMTT(30) DEF WorkersInv, RetriesOK, TypeOK, TaskStates, Revisions
  <2>2. Len(images) \in Nat /\ MaxRetries \in Nat
    BY QueueType DEF WorkersInv, WorkersAssumption
  <2>3. task[m].fence - MaxRetries \in 1..Len(images) - MaxRetries
    BY SMTT(30), <2>1, <2>2 DEF Overtaken
  <2> WITNESS task[m].fence - MaxRetries \in 1..Len(images) - MaxRetries
  <2> QED
    BY SMTT(30), <2>1, <2>2 DEF Overtaken
<1> QED
  BY <1>1, WorkersInvariant, PTL

\* The completion frontier moves forward only, over revisions whose messages are
\* dealt with (CompletionState).
THEOREM WorkersFrontier ==
  ASSUME WorkersAssumption
  PROVE  Spec => FrontierCoversWork
<1>1. WorkersInv /\ [Next]_vars =>
        [frontier' # frontier =>
           /\ frontier' > frontier
           /\ \A r \in Revisions : r <= frontier' => owed[r] \ Unentered(r) \subseteq done']_vars
  <2> SUFFICES ASSUME WorkersInv, Next, frontier' # frontier
               PROVE  \E m \in Messages : CompleteFrontier(m)
    BY CompletionStep
  <2> QED
    BY DEF Next, Enqueue, InjectPendingTransition, AppendMessage, Withdraw, frontierVars,
           RemovePendingTransitionsForResource, ObserveAndSpawn, Start, WatchEvent, WatchCompacted,
           JoinNext, LookAt, JoinError, LoseSession, Cancel, NotifyWaiters, DrainJoin,
           DrainWithoutLease, StopAfterDrain, Reregister, TaskStep, Claim, Cleanup, CheckToken,
           Subscribe, Complete, AdvanceRevision, Release, RemoveAtFence, Consumed, Step
<1> QED
  BY <1>1, WorkersInvariant, PTL DEF Spec, FrontierCoversWork

=============================================================================
