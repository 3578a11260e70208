-------------------------------- MODULE Watch --------------------------------
(***************************************************************************)
(* A resumable watch (coordination/etcd/watch.rs): etcd's event history,   *)
(* the stream that carries it, the cursor that makes a resumed stream      *)
(* continue where the last one stopped, and the consumer that reads        *)
(* snapshots and events.  A subscription watches one metadata key, as the  *)
(* participant does, or the whole namespace, as the controller and the     *)
(* observers do.                                                           *)
(***************************************************************************)
EXTENDS Integers, Sequences, SequencesExt

CONSTANTS
  Keys,       \* the keys of the namespace
  Key,        \* the key that a subscription to one key watches
  MaxRev,     \* bound on the revisions of the store
  MaxFaults   \* bound on the broken streams

WatchAssumption ==
  Key \in Keys /\ MaxRev \in Nat /\ MaxFaults \in Nat

VARIABLES
  log,        \* etcd: every event, in order; a transaction's share a revision
  rev,        \* etcd: the revision of the store
  compacted,  \* etcd: the history before this revision is gone
  prefix,     \* the subscription is to the namespace, not to one key
  stream,     \* what the open watch may send, and the place it has reached
  cursor,     \* WatchCursor
  pending,    \* pending_events
  base,       \* the revision of the snapshot the consumer last read
  delivered,  \* the events it has been given since
  faults

etcdVars == <<log, rev, compacted>>
subVars == <<stream, cursor, pending, base, delivered>>
vars == <<prefix, etcdVars, subVars, faults>>

Events == [rev : 1..MaxRev, key : Keys]

TypeOK ==
  /\ log \in Seq(Events) /\ rev \in 0..MaxRev /\ compacted \in 0..rev
  /\ prefix \in BOOLEAN
  /\ stream \in [open : BOOLEAN, keys : SUBSET Keys, pos : Nat]
  /\ cursor \in [start : Nat, last : 0..MaxRev, done : SUBSET Keys]
  /\ pending \in Seq(Events) /\ delivered \in Seq(Events)
  /\ base \in 0..rev /\ faults \in 0..MaxFaults

Watched == IF prefix THEN Keys ELSE {Key}

-----------------------------------------------------------------------------
(* The cursor.                                                             *)

NewCursor(start) == [start |-> start, last |-> 0, done |-> {}]

\* Mutant: an event of the last revision is never news.
AcceptsLater(c, e) == e.rev >= c.start /\ e.rev > c.last

Accepts(c, e) ==
  /\ e.rev >= c.start /\ e.rev >= c.last
  /\ ~(e.rev = c.last /\ e.key \in c.done)

Advance(c, e) ==
  [c EXCEPT !.last = e.rev, !.done = (IF e.rev = c.last THEN c.done ELSE {}) \cup {e.key}]

ResumeRevision(c) == IF c.last = 0 THEN c.start ELSE c.last

-----------------------------------------------------------------------------
(* Streams: etcd sends the events of the watched keys from a revision on.  *)

Open(keys, start) ==
  [open |-> TRUE, keys |-> keys, pos |-> 1 + Len(SelectSeq(log, LAMBDA e : e.rev < start))]

Closed == [open |-> FALSE, keys |-> {}, pos |-> 1]

\* open_watch watches the one key metadata/<self.key>; the key of a namespace
\* subscription is the empty string, which is the key of nothing.
OpenWatch(start) == Open(IF prefix THEN {} ELSE {Key}, start)

OpenNamespaceWatch(start) == Open(Keys, start)

Behind == stream.open /\ stream.pos <= Len(log)

\* The next event of the stream is no longer in the history.
Compacted == Behind /\ log[stream.pos].rev < compacted

\* Mutant: the watch leaves out the revision after the snapshot.
SnapshotThenGap ==
  /\ base' = rev /\ delivered' = <<>> /\ pending' = <<>>
  /\ cursor' = NewCursor(rev + 2)
  /\ stream' = IF prefix THEN OpenNamespaceWatch(rev + 2) ELSE OpenWatch(rev + 2)

\* Mutant: the snapshot takes the revision of the watch that follows it.
SnapshotAhead ==
  /\ base' = rev + 1 /\ delivered' = <<>> /\ pending' = <<>>
  /\ cursor' = NewCursor(rev + 1)
  /\ stream' = IF prefix THEN OpenNamespaceWatch(rev + 1) ELSE OpenWatch(rev + 1)

\* A snapshot, and a watch of what follows it.
SnapshotAndWatch ==
  /\ base' = rev /\ delivered' = <<>> /\ pending' = <<>>
  /\ cursor' = NewCursor(rev + 1)
  /\ stream' = IF prefix THEN OpenNamespaceWatch(rev + 1) ELSE OpenWatch(rev + 1)

Init ==
  /\ prefix \in BOOLEAN
  /\ log = <<>> /\ rev = 0 /\ compacted = 0
  /\ stream = [open |-> TRUE, keys |-> Watched, pos |-> 1]
  /\ cursor = NewCursor(1) /\ pending = <<>> /\ base = 0 /\ delivered = <<>>
  /\ faults = 0

-----------------------------------------------------------------------------
(* etcd.                                                                   *)

\* A transaction writes some keys, each once, at one revision.
Write(ks) ==
  /\ rev < MaxRev
  /\ rev' = rev + 1
  /\ log' = log \o [i \in 1..Len(ks) |-> [rev |-> rev + 1, key |-> ks[i]]]
  /\ UNCHANGED <<prefix, compacted, subVars, faults>>

Compact(r) ==
  /\ r \in compacted + 1..rev
  /\ compacted' = r
  /\ UNCHANGED <<prefix, log, rev, subVars, faults>>

Disconnect ==
  /\ stream.open /\ faults < MaxFaults
  /\ stream' = Closed
  /\ faults' = faults + 1
  /\ UNCHANGED <<prefix, etcdVars, cursor, pending, base, delivered>>

-----------------------------------------------------------------------------
(* next.                                                                   *)

\* An event that was received is returned before the stream is read again.
Pop ==
  /\ pending # <<>>
  /\ delivered' = Append(delivered, Head(pending))
  /\ pending' = Tail(pending)
  /\ UNCHANGED <<prefix, etcdVars, stream, cursor, base, faults>>

\* A response carries some of the events that are due; it may end inside a
\* revision.
Receive ==
  /\ pending = <<>> /\ Behind /\ ~Compacted
  /\ \E n \in stream.pos..Len(log) :
       LET response == SelectSeq(SubSeq(log, stream.pos, n), LAMBDA e : e.key \in stream.keys)
           accept(s, e) == IF Accepts(s.cursor, e)
                             THEN [cursor |-> Advance(s.cursor, e), queue |-> Append(s.queue, e)]
                             ELSE s
           after == FoldLeft(accept, [cursor |-> cursor, queue |-> pending], response)
       IN /\ cursor' = after.cursor
          /\ pending' = after.queue
          /\ stream' = [stream EXCEPT !.pos = n + 1]
  /\ UNCHANGED <<prefix, etcdVars, base, delivered, faults>>

\* The caller resumes a subscription whose stream has broken.
Resume ==
  /\ ~stream.open
  /\ stream' = OpenWatch(ResumeRevision(cursor))
  /\ UNCHANGED <<prefix, etcdVars, cursor, pending, base, delivered, faults>>

\* The stream reports a compaction: the caller starts over from a snapshot,
\* with a new subscription or with recover_compaction.
RecoverCompaction ==
  /\ pending = <<>> /\ Compacted
  /\ SnapshotAndWatch
  /\ UNCHANGED <<prefix, etcdVars, faults>>

Transactions == {ks \in SeqOf(Keys, 2) : ks # <<>> /\ IsInjective(ks)}

Next ==
  \/ \E ks \in Transactions : Write(ks)
  \/ \E r \in 1..MaxRev : Compact(r)
  \/ Disconnect \/ Pop \/ Receive \/ Resume \/ RecoverCompaction

Spec == Init /\ [][Next]_vars

\* etcd answers, and the consumer keeps calling next.
FairSpec ==
  Spec /\ WF_vars(Pop) /\ WF_vars(Receive) /\ WF_vars(Resume) /\ WF_vars(RecoverCompaction)

-----------------------------------------------------------------------------
(* Properties.                                                             *)

\* The consumer gets every event of the watched keys after its snapshot, once,
\* in order, up to the place the cursor has reached, however often the stream
\* breaks or repeats itself (WatchCursor::accept, resume).
ExactlyOnceInOrder ==
  delivered \o pending =
    SelectSeq(log, LAMBDA e :
      /\ e.rev > base /\ e.key \in Watched
      /\ e.rev < cursor.last \/ (e.rev = cursor.last /\ e.key \in cursor.done))

\* What is written reaches the consumer, as an event or in a snapshot.
Arrives(r) ==
  \/ base >= r
  \/ \A i \in DOMAIN log : log[i].rev = r /\ log[i].key \in Watched => log[i] \in ToSet(delivered)

\* A resumed or recovered subscription to one key, such as the participant's,
\* goes on: it misses nothing (resume, recover_compaction).
KeyEventsArrive == \A r \in 1..MaxRev : ~prefix /\ rev >= r ~> Arrives(r)

\* "Resume from the last processed event": so does a subscription to the
\* namespace, such as the controller's and the observers' (resume).
NamespaceEventsArrive == \A r \in 1..MaxRev : prefix /\ rev >= r ~> Arrives(r)

==============================================================================
