--------------------------- MODULE ReplicatedData ---------------------------
(***************************************************************************)
(* The data plane of the example applications (examples/02-distributed-    *)
(* cache; 05-object-store and 08-multi-zone-db differ in names and in what *)
(* they keep of an OFFLINE role): the handler that follows the control     *)
(* plane's transitions and hydrates a replica from its peers, and the TCP  *)
(* requests PUT, REPLICATE and DUMP.                                       *)
(*                                                                         *)
(* One key per partition.  A node has one mutex over the roles of all its  *)
(* partitions; PUT holds it to its end, every other use is one step.       *)
(* REPLICATE and DUMP look up the role and then the shard under two locks; *)
(* the model does both at once.  A request whose answer does not come in   *)
(* time is given up by its sender and still served later.                  *)
(*                                                                         *)
(* The control plane is external.  A participant has a session, which can  *)
(* end under a running process: nobody tells the handler, so that it keeps *)
(* its roles, and after a new registration its replicas count as OFFLINE.  *)
(* The controller sends one transition of a replica at a time and lets a   *)
(* replica become LEADER only while no other one with a session reports    *)
(* LEADER or is on its way there.                                          *)
(***************************************************************************)
EXTENDS Integers, Sequences, FiniteSets

CONSTANTS
  Nodes, Partitions,
  MaxPuts,      \* bound: PUT requests of clients
  MaxTimeouts,  \* bound: requests given up by their sender
  MaxFailures   \* bound: processes killed and sessions of running processes lost

VARIABLES
  up,        \* the process runs
  session,   \* live session of the node: "ours" of the running process, "old" of a
             \* killed one whose lease has not ended, or "none"
  role,      \* CacheState.roles
  data,      \* CacheState.shards: the value of the key, 0 when there is none
  put,       \* the PUT in progress at a node, which holds the role mutex
  handler,   \* the transition in progress of a replica
  reported,  \* CurrentState of a replica under the node's last session
  late,      \* REPLICATE requests given up by their sender, not yet served
  used       \* PUT requests, timeouts and failures so far

vars == <<up, session, role, data, put, handler, reported, late, used>>

Idle == [todo |-> {}, busy |-> FALSE]
Active == {"LEADER", "STANDBY"}

PutStates ==
  {Idle} \union [busy : {TRUE}, partition : Partitions, value : Nat, todo : SUBSET Nodes, replicas : Nat]

HandlerStates ==
  {Idle} \union [busy : {TRUE}, target : Active \union {"OFFLINE"}, pc : {"hydrate", "insert", "role"},
                 todo : SUBSET Nodes, snapshot : Nat]

\* Nodes and replicas by their types.
TypeOK ==
  /\ up \in [Nodes -> BOOLEAN] /\ session \in [Nodes -> {"ours", "old", "none"}]
  /\ role \in [Nodes -> [Partitions -> Active \union {"OFFLINE"}]]
  /\ data \in [Nodes -> [Partitions -> Nat]]
  /\ put \in [Nodes -> PutStates]
  /\ handler \in [Nodes -> [Partitions -> HandlerStates]]
  /\ reported \in [Nodes -> [Partitions -> Active \union {"OFFLINE", "ERROR"}]]
  /\ late \subseteq Nodes \X Partitions \X Nat
  /\ used \in [puts : Nat, timeouts : Nat, failures : Nat]

Unlocked(n) == ~put[n].busy
Peers(n) == Nodes \ {n}

\* put_local and partition_snapshot.
PutLocal(n, p, value) == [data EXCEPT ![n][p] = value]
PartitionSnapshot(n, p) == data[n][p]

------------------------------------------------------------------------------
(* Requests.                                                                *)

\* PUT: only the leader accepts it, and it keeps the role mutex.
Put(n, p) ==
  /\ up[n] /\ Unlocked(n) /\ used.puts < MaxPuts
  /\ role[n][p] = "LEADER"
  /\ put' = [put EXCEPT ![n] = [busy |-> TRUE, partition |-> p, value |-> used.puts + 1,
                                todo |-> Peers(n), replicas |-> 0]]
  /\ used' = [used EXCEPT !.puts = @ + 1]
  /\ UNCHANGED <<up, session, role, data, handler, reported, late>>

\* REPLICATE at a peer: stored only where the partition has an active role.
Replicate(n, q) ==
  /\ up[n] /\ put[n].busy /\ q \in put[n].todo
  /\ LET p == put[n].partition
         stored == up[q] /\ role[q][p] \in Active
     IN  /\ up[q] => Unlocked(q)
         /\ put' = [put EXCEPT ![n] = [put[n] EXCEPT !.todo = put[n].todo \ {q},
                                            !.replicas = put[n].replicas + IF stored THEN 1 ELSE 0]]
         /\ data' = IF stored THEN PutLocal(q, p, put[n].value) ELSE data
  /\ UNCHANGED <<up, session, role, handler, reported, late, used>>

\* The read timeout of send.
GiveUp(n, q) ==
  /\ up[n] /\ put[n].busy /\ q \in put[n].todo /\ up[q] /\ used.timeouts < MaxTimeouts
  /\ put' = [put EXCEPT ![n].todo = @ \ {q}]
  /\ late' = late \union {<<q, put[n].partition, put[n].value>>}
  /\ used' = [used EXCEPT !.timeouts = @ + 1]
  /\ UNCHANGED <<up, session, role, data, handler, reported>>

ServeLate(request) ==
  LET q == request[1]
      p == request[2]
  IN  /\ request \in late /\ late' = late \ {request}
      /\ up[q] => Unlocked(q)
      /\ data' = IF up[q] /\ role[q][p] \in Active
                 THEN PutLocal(q, p, request[3]) ELSE data
      /\ UNCHANGED <<up, session, role, put, handler, reported, used>>

\* The end of PUT: without a replica the value is not stored.
Commit(n) ==
  /\ up[n] /\ put[n].busy /\ put[n].todo = {}
  /\ data' = IF put[n].replicas = 0 THEN data
             ELSE PutLocal(n, put[n].partition, put[n].value)
  /\ put' = [put EXCEPT ![n] = Idle]
  /\ UNCHANGED <<up, session, role, handler, reported, late, used>>

------------------------------------------------------------------------------
(* Transitions.                                                             *)

Hops == {<<"OFFLINE", "STANDBY">>, <<"STANDBY", "LEADER">>, <<"LEADER", "STANDBY">>,
         <<"STANDBY", "OFFLINE">>}

\* transition: only a replica that becomes STANDBY is hydrated first; the built-in state
\* model has no way from OFFLINE to LEADER at once.
FirstStep(target) == IF target = "STANDBY" THEN "hydrate" ELSE "role"

\* What the control plane takes for the leader, or for one to be.
Leading(n, p) ==
  /\ session[n] # "none"
  /\ reported[n][p] = "LEADER" \/ (handler[n][p].busy /\ handler[n][p].target = "LEADER")

\* The controller sends a transition; no other replica is or becomes leader beside
\* a new one, as far as it knows.
Send(n, p, target) ==
  /\ up[n] /\ session[n] = "ours" /\ ~handler[n][p].busy /\ <<reported[n][p], target>> \in Hops
  /\ target = "LEADER" => \A q \in Peers(n) : ~Leading(q, p)
  /\ handler' = [handler EXCEPT ![n][p] =
       [busy |-> TRUE, target |-> target, pc |-> FirstStep(target),
        todo |-> Peers(n), snapshot |-> 0]]
  /\ UNCHANGED <<up, session, role, data, put, reported, late, used>>

\* The result of a handler is written only under the session it ran for.
Report(n, p, state) ==
  reported' = IF session[n] = "ours" THEN [reported EXCEPT ![n][p] = state] ELSE reported

\* The handler returns an error: the role stays.
Fail(n, p) == handler' = [handler EXCEPT ![n][p] = Idle] /\ Report(n, p, "ERROR")

\* hydrate_partition: the DUMP of the next peer, in a fixed order.  A peer that is
\* killed while it answers sends an invalid snapshot.
AskPeer(n, p) ==
  LET h == handler[n][p] IN
  /\ up[n] /\ h.busy /\ h.pc = "hydrate" /\ h.todo # {}
  /\ LET q == CHOOSE peer \in h.todo : TRUE IN
     \/ /\ up[q] /\ Unlocked(q) /\ role[q][p] \in Active
        /\ handler' = [handler EXCEPT ![n][p] =
             [h EXCEPT !.pc = "insert", !.snapshot = PartitionSnapshot(q, p)]]
        /\ UNCHANGED <<reported, used>>
     \/ /\ ~up[q] \/ (Unlocked(q) /\ role[q][p] \notin Active)
        /\ handler' = [handler EXCEPT ![n][p].todo = @ \ {q}]
        /\ UNCHANGED <<reported, used>>
     \/ ~up[q] /\ Fail(n, p) /\ UNCHANGED used
     \/ /\ up[q] /\ used.timeouts < MaxTimeouts
        /\ handler' = [handler EXCEPT ![n][p].todo = @ \ {q}]
        /\ used' = [used EXCEPT !.timeouts = @ + 1]
        /\ UNCHANGED reported
  /\ UNCHANGED <<up, session, role, data, put, late>>

\* The snapshot replaces the local copy; no role mutex is involved.
InsertSnapshot(n, p) ==
  /\ up[n] /\ handler[n][p].busy /\ handler[n][p].pc = "insert"
  /\ data' = [data EXCEPT ![n][p] = handler[n][p].snapshot]
  /\ handler' = [handler EXCEPT ![n][p].pc = "role"]
  /\ UNCHANGED <<up, session, role, put, reported, late, used>>

\* No active peer: only OFFLINE -> STANDBY goes on, with what is there.
NoSnapshot(n, p) ==
  /\ up[n] /\ handler[n][p].busy /\ handler[n][p].pc = "hydrate" /\ handler[n][p].todo = {}
  /\ IF reported[n][p] = "OFFLINE"
     THEN handler' = [handler EXCEPT ![n][p].pc = "role"] /\ UNCHANGED reported
     ELSE Fail(n, p)
  /\ UNCHANGED <<up, session, role, data, put, late, used>>

\* A mutant of SetRole: the role changes under a PUT in progress.
SetRoleUnderPut(n, p) ==
  /\ up[n] /\ handler[n][p].busy /\ handler[n][p].pc = "role"
  /\ role' = [role EXCEPT ![n][p] = handler[n][p].target]
  /\ Report(n, p, handler[n][p].target)
  /\ handler' = [handler EXCEPT ![n][p] = Idle]
  /\ UNCHANGED <<up, session, data, put, late, used>>

\* The role is published under the role mutex, and the transition is reported.
SetRole(n, p) ==
  /\ up[n] /\ handler[n][p].busy /\ handler[n][p].pc = "role" /\ Unlocked(n)
  /\ role' = [role EXCEPT ![n][p] = handler[n][p].target]
  /\ Report(n, p, handler[n][p].target)
  /\ handler' = [handler EXCEPT ![n][p] = Idle]
  /\ UNCHANGED <<up, session, data, put, late, used>>

\* SIGKILL: the session stays until its lease ends.
Crash(n) ==
  /\ up[n] /\ used.failures < MaxFailures
  /\ up' = [up EXCEPT ![n] = FALSE]
  /\ session' = [session EXCEPT ![n] = IF @ = "ours" THEN "old" ELSE @]
  /\ role' = [role EXCEPT ![n] = [p \in Partitions |-> "OFFLINE"]]
  /\ data' = [data EXCEPT ![n] = [p \in Partitions |-> 0]]
  /\ put' = [put EXCEPT ![n] = Idle]
  /\ handler' = [handler EXCEPT ![n] = [p \in Partitions |-> Idle]]
  /\ used' = [used EXCEPT !.failures = @ + 1]
  /\ UNCHANGED <<reported, late>>

\* A fresh process, which registers later.
Restart(n) ==
  /\ ~up[n] /\ up' = [up EXCEPT ![n] = TRUE]
  /\ UNCHANGED <<session, role, data, put, handler, reported, late, used>>

\* The lease of a killed process ends, or the one of a process that could not keep it
\* alive; that process goes on serving requests, and so does a handler in progress.
LeaseEnds(n) ==
  /\ \/ session[n] = "old" /\ UNCHANGED used
     \/ /\ session[n] = "ours" /\ used.failures < MaxFailures
        /\ used' = [used EXCEPT !.failures = @ + 1]
  /\ session' = [session EXCEPT ![n] = "none"]
  /\ UNCHANGED <<up, role, data, put, handler, reported, late>>

\* register, of a fresh process or, once its handlers have ended, of one that lost its
\* session: the replicas begin as OFFLINE and the handler is not called.
RegisterNode(n) ==
  /\ up[n] /\ session[n] = "none" /\ \A p \in Partitions : ~handler[n][p].busy
  /\ session' = [session EXCEPT ![n] = "ours"]
  /\ reported' = [reported EXCEPT ![n] = [p \in Partitions |-> "OFFLINE"]]
  /\ UNCHANGED <<up, role, data, put, handler, late, used>>

Init ==
  /\ up = [n \in Nodes |-> TRUE] /\ session = [n \in Nodes |-> "ours"]
  /\ role = [n \in Nodes |-> [p \in Partitions |-> "OFFLINE"]]
  /\ data = [n \in Nodes |-> [p \in Partitions |-> 0]]
  /\ put = [n \in Nodes |-> Idle]
  /\ handler = [n \in Nodes |-> [p \in Partitions |-> Idle]]
  /\ reported = role
  /\ late = {} /\ used = [puts |-> 0, timeouts |-> 0, failures |-> 0]

Next ==
  \/ \E n \in Nodes, p \in Partitions :
       \/ Put(n, p) \/ AskPeer(n, p) \/ InsertSnapshot(n, p) \/ NoSnapshot(n, p) \/ SetRole(n, p)
       \/ \E target \in Active \union {"OFFLINE"} : Send(n, p, target)
  \/ \E n \in Nodes : Commit(n) \/ Crash(n) \/ Restart(n) \/ LeaseEnds(n) \/ RegisterNode(n)
  \/ \E n \in Nodes : \E q \in Peers(n) : Replicate(n, q) \/ GiveUp(n, q)
  \/ \E request \in late : ServeLate(request)

Spec == Init /\ [][Next]_vars

------------------------------------------------------------------------------
\* The control plane does not count on the node's role: it has lost its session, or
\* kept the role beyond one, or the handler failed.
Stale(n, p) == session[n] # "ours" \/ reported[n][p] \in {"OFFLINE", "ERROR"}

\* "Hold the role lock through the write so a demotion either wins before this request
\* or is published after its side effects" (PUT): a node is a leader as long as its PUT
\* goes on, and no other node carries out a PUT of the same partition meanwhile.  The
\* second part has exceptions, at which a node goes on as a leader beside the one the
\* control plane has chosen: its session ended (the handler is not told, not even by a
\* new registration), or its demotion failed (the handler returns its error before it
\* changes the role).
WritesAreSerialized ==
  \A n \in Nodes : put[n].busy =>
    LET p == put[n].partition IN
    /\ role[n][p] = "LEADER"
    /\ \A q \in Peers(n) : (put[q].busy /\ put[q].partition = p) => Stale(n, p) \/ Stale(q, p)

=============================================================================
