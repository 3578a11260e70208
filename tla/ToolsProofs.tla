---------------------------- MODULE ToolsProofs ----------------------------
(***************************************************************************)
(* Proofs about the programs around the library: the writes of the example *)
(* applications, for any nodes, partitions and bounds; and the traces of   *)
(* the chaos driver, for any processes, any number of proxies and any      *)
(* length of a trace.                                                      *)
(***************************************************************************)
EXTENDS ReplicatedData, Chaos, TLAPS

\* A leaf goes to Zenon; one that needs arithmetic, or the theory of functions
\* and records, cites SMT.
USE ZenonT(60)
-----------------------------------------------------------------------------
(***************************************************************************)
(* The writes of the example applications: a partition is written by one   *)
(* leader at a time.                                                       *)
(***************************************************************************)
\* A PUT runs at a node that has the leader role.  The control plane knows of the role, or
\* the node has kept it beyond its session or failed to give it up.  The control plane lets
\* one replica of a partition lead.
DataInv ==
  /\ TypeOK
  /\ \A n \in Nodes : put[n].busy => up[n] /\ role[n][put[n].partition] = "LEADER"
  /\ \A n \in Nodes, p \in Partitions :
       /\ up[n] /\ role[n][p] = "LEADER" => Stale(n, p) \/ reported[n][p] = "LEADER"
       /\ ~up[n] => role[n][p] = "OFFLINE" /\ ~handler[n][p].busy
       /\ \A q \in Nodes : Leading(n, p) /\ Leading(q, p) => n = q

LEMMA IdleStates == Idle \in PutStates /\ Idle \in HandlerStates /\ ~Idle.busy
  BY DEF Idle, PutStates, HandlerStates

LEMMA DataInit == Init => DataInv
<1> SUFFICES ASSUME Init PROVE DataInv
  OBVIOUS
<1>1. TypeOK
  BY IdleStates DEF Init, TypeOK, Active
<1>2. \A n \in Nodes : ~put[n].busy /\ \A p \in Partitions :
        /\ ~handler[n][p].busy
        /\ role[n][p] = "OFFLINE" /\ reported[n][p] = "OFFLINE" /\ up[n]
  BY IdleStates DEF Init
<1>3. \A n \in Nodes, p \in Partitions : ~Leading(n, p)
  BY <1>2 DEF Leading
<1> QED
  BY <1>1, <1>2, <1>3 DEF DataInv

\* What is true of a PUT in progress.
LEMMA BusyPut ==
  ASSUME DataInv, NEW n \in Nodes, put[n].busy
  PROVE  put[n] \in [busy : {TRUE}, partition : Partitions, value : Nat, todo : SUBSET Nodes, replicas : Nat]
<1>1. put[n] \in PutStates
  BY SMT DEF DataInv, TypeOK
<1>2. put[n] # Idle
  BY IdleStates
<1> QED
  BY <1>1, <1>2 DEF PutStates

LEMMA BusyHandler ==
  ASSUME DataInv, NEW n \in Nodes, NEW p \in Partitions, handler[n][p].busy
  PROVE  handler[n][p] \in [busy : {TRUE}, target : Active \union {"OFFLINE"},
                            pc : {"hydrate", "insert", "role"}, todo : SUBSET Nodes, snapshot : Nat]
<1>1. handler[n][p] \in HandlerStates
  BY SMT DEF DataInv, TypeOK
<1>2. handler[n][p] # Idle
  BY IdleStates
<1> QED
  BY <1>1, <1>2 DEF HandlerStates

LEMMA WrittenType ==
  ASSUME TypeOK, NEW n \in Nodes, NEW p \in Partitions, NEW value \in Nat
  PROVE  PutLocal(n, p, value) \in [Nodes -> [Partitions -> Nat]]
  BY DEF TypeOK, PutLocal

\* The bounds are counted.
LEMMA Counted ==
  ASSUME DataInv,
         \/ used' = [used EXCEPT !.puts = used.puts + 1]
         \/ used' = [used EXCEPT !.timeouts = used.timeouts + 1]
         \/ used' = [used EXCEPT !.failures = used.failures + 1]
  PROVE  used' \in [puts : Nat, timeouts : Nat, failures : Nat]
<1>1. used \in [puts : Nat, timeouts : Nat, failures : Nat]
  BY DEF DataInv, TypeOK
<1>2. used.puts + 1 \in Nat /\ used.timeouts + 1 \in Nat /\ used.failures + 1 \in Nat
  BY SMT, <1>1
<1> QED
  BY <1>1, <1>2

\* The requests and the messages of a PUT change no role and no transition; a PUT stays
\* at the partition it began with.
LEMMA RequestStep ==
  ASSUME DataInv, TypeOK', UNCHANGED <<up, session, role, handler, reported>>,
         \A n \in Nodes : put'[n].busy => up[n] /\ role[n][put'[n].partition] = "LEADER"
  PROVE  DataInv'
<1>1. \A n \in Nodes, p \in Partitions : (Leading(n, p)' <=> Leading(n, p)) /\ (Stale(n, p)' <=> Stale(n, p))
  BY DEF Leading, Stale
<1> QED
  BY <1>1 DEF DataInv

LEMMA PutStep ==
  ASSUME DataInv, NEW n \in Nodes, NEW p \in Partitions, Put(n, p)
  PROVE  DataInv'
<1>1. PICK t : t = [busy |-> TRUE, partition |-> p, value |-> used.puts + 1,
                    todo |-> Peers(n), replicas |-> 0]
  OBVIOUS
<1>2. t \in PutStates /\ t.partition = p
  BY SMT, <1>1 DEF PutStates, Peers, DataInv, TypeOK
<1>3. put' = [put EXCEPT ![n] = t] /\ UNCHANGED <<up, session, role, data, handler, reported, late>>
  BY <1>1 DEF Put
<1>4. used' \in [puts : Nat, timeouts : Nat, failures : Nat]
  BY Counted DEF Put
<1>5. TypeOK'
  BY <1>2, <1>3, <1>4 DEF DataInv, TypeOK
<1>6. \A m \in Nodes : put'[m].busy => up[m] /\ role[m][put'[m].partition] = "LEADER"
  BY SMT, <1>2, <1>3 DEF Put, DataInv, TypeOK
<1> QED
  BY <1>3, <1>5, <1>6, RequestStep
LEMMA ReplicateStep ==
  ASSUME DataInv, NEW n \in Nodes, NEW q \in Peers(n), Replicate(n, q)
  PROVE  DataInv'
<1> DEFINE stored == up[q] /\ role[q][put[n].partition] \in Active
<1>1. put[n].busy /\ q \in Nodes
  BY DEF Replicate, Peers
<1>2. put[n] \in [busy : {TRUE}, partition : Partitions, value : Nat, todo : SUBSET Nodes, replicas : Nat]
  BY <1>1, BusyPut
<1>3. PICK k : k = put[n].replicas + IF stored THEN 1 ELSE 0
  OBVIOUS
<1>4. PICK d : d = put[n].todo \ {q}
  OBVIOUS
<1>5. PICK t : t = [put[n] EXCEPT !.todo = d, !.replicas = k]
  OBVIOUS
<1>6. k \in Nat /\ d \in SUBSET Nodes
  <2>1. put[n].replicas \in Nat /\ put[n].todo \in SUBSET Nodes
    BY <1>2
  <2>2. PICK e : e = IF stored THEN 1 ELSE 0
    OBVIOUS
  <2>3. e \in {0, 1}
    BY <2>2
  <2> QED
    BY SMT, <1>3, <1>4, <2>1, <2>2, <2>3
<1>7. /\ t \in [busy : {TRUE}, partition : Partitions, value : Nat, todo : SUBSET Nodes, replicas : Nat]
      /\ t.partition = put[n].partition
  BY <1>2, <1>5, <1>6
<1>8. put' = [put EXCEPT ![n] = t] /\ UNCHANGED <<up, session, role, handler, reported, late, used>>
  BY <1>3, <1>4, <1>5 DEF Replicate
<1>9. data' \in [Nodes -> [Partitions -> Nat]]
  <2>1. data' = data \/ data' = PutLocal(q, put[n].partition, put[n].value)
    BY DEF Replicate
  <2>2. PutLocal(q, put[n].partition, put[n].value) \in [Nodes -> [Partitions -> Nat]]
    BY <1>1, <1>2, WrittenType DEF DataInv
  <2> QED
    BY SMT, <2>1, <2>2 DEF DataInv, TypeOK
<1>10. TypeOK'
  BY <1>7, <1>8, <1>9 DEF DataInv, TypeOK, PutStates
<1>11. \A m \in Nodes : put'[m].busy => up[m] /\ role[m][put'[m].partition] = "LEADER"
  BY SMT, <1>1, <1>7, <1>8 DEF DataInv, TypeOK
<1> QED
  BY <1>8, <1>10, <1>11, RequestStep

LEMMA GiveUpStep ==
  ASSUME DataInv, NEW n \in Nodes, NEW q \in Peers(n), GiveUp(n, q)
  PROVE  DataInv'
<1>1. put[n].busy /\ q \in Nodes
  BY DEF GiveUp, Peers
<1>2. put[n] \in [busy : {TRUE}, partition : Partitions, value : Nat, todo : SUBSET Nodes, replicas : Nat]
  BY <1>1, BusyPut
<1>3. PICK t : t = [put[n] EXCEPT !.todo = put[n].todo \ {q}]
  OBVIOUS
<1>4. /\ t \in [busy : {TRUE}, partition : Partitions, value : Nat, todo : SUBSET Nodes, replicas : Nat]
      /\ t.partition = put[n].partition
  BY <1>2, <1>3
<1>5. put' = [put EXCEPT ![n] = t] /\ UNCHANGED <<up, session, role, data, handler, reported>>
  BY <1>3 DEF GiveUp, DataInv, TypeOK
<1>6. used' \in [puts : Nat, timeouts : Nat, failures : Nat]
  BY Counted DEF GiveUp
<1>7. late' \subseteq Nodes \X Partitions \X Nat
  BY SMT, <1>1, <1>2 DEF GiveUp, DataInv, TypeOK
<1>8. TypeOK'
  BY <1>4, <1>5, <1>6, <1>7 DEF DataInv, TypeOK, PutStates
<1>9. \A m \in Nodes : put'[m].busy => up[m] /\ role[m][put'[m].partition] = "LEADER"
  BY SMT, <1>1, <1>4, <1>5 DEF DataInv, TypeOK
<1> QED
  BY <1>5, <1>8, <1>9, RequestStep

LEMMA ServeLateStep ==
  ASSUME DataInv, NEW request \in late, ServeLate(request)
  PROVE  DataInv'
<1>1. request[1] \in Nodes /\ request[2] \in Partitions /\ request[3] \in Nat
  BY SMT DEF DataInv, TypeOK
<1>2. data' = data \/ data' = PutLocal(request[1], request[2], request[3])
  BY DEF ServeLate
<1>3. data' \in [Nodes -> [Partitions -> Nat]]
  <2>1. TypeOK /\ data \in [Nodes -> [Partitions -> Nat]]
    BY DEF DataInv, TypeOK
  <2> QED
    BY SMT, <1>1, <1>2, <2>1, WrittenType
<1>4. UNCHANGED <<up, session, role, put, handler, reported, used>> /\ late' \subseteq late
  BY DEF ServeLate
<1>5. TypeOK'
  BY <1>3, <1>4 DEF DataInv, TypeOK
<1> QED
  BY <1>4, <1>5, RequestStep DEF DataInv

LEMMA CommitStep ==
  ASSUME DataInv, NEW n \in Nodes, Commit(n)
  PROVE  DataInv'
<1>1. put[n].busy
  BY DEF Commit
<1>2. put[n] \in [busy : {TRUE}, partition : Partitions, value : Nat, todo : SUBSET Nodes, replicas : Nat]
  BY <1>1, BusyPut
<1>3. data' = data \/ data' = PutLocal(n, put[n].partition, put[n].value)
  BY DEF Commit
<1>4. data' \in [Nodes -> [Partitions -> Nat]]
  <2>1. TypeOK /\ data \in [Nodes -> [Partitions -> Nat]]
    BY DEF DataInv, TypeOK
  <2>2. put[n].partition \in Partitions /\ put[n].value \in Nat
    BY <1>2
  <2> QED
    BY SMT, <1>3, <2>1, <2>2, WrittenType
<1>5. put' = [put EXCEPT ![n] = Idle] /\ UNCHANGED <<up, session, role, handler, reported, late, used>>
  BY DEF Commit
<1>6. TypeOK'
  BY <1>4, <1>5, IdleStates DEF DataInv, TypeOK
<1>7. \A m \in Nodes : put'[m].busy => up[m] /\ role[m][put'[m].partition] = "LEADER"
  BY SMT, <1>5, IdleStates DEF DataInv, TypeOK
<1> QED
  BY <1>5, <1>6, <1>7, RequestStep

-----------------------------------------------------------------------------
(***************************************************************************)
(* Transitions.                                                            *)
(***************************************************************************)
\* A transition that goes on towards its target claims no more than before.
LEMMA TransitionStep ==
  ASSUME DataInv, TypeOK', NEW n \in Nodes, NEW p \in Partitions, NEW t \in HandlerStates,
         handler' = [handler EXCEPT ![n][p] = t], UNCHANGED <<up, session, role, put, reported>>,
         up[n], t.busy => handler[n][p].busy /\ t.target = handler[n][p].target
  PROVE  DataInv'
<1>1. handler \in [Nodes -> [Partitions -> HandlerStates]]
  BY DEF DataInv, TypeOK
<1>2. \A m \in Nodes, r \in Partitions : handler'[m][r] = IF m = n /\ r = p THEN t ELSE handler[m][r]
  BY <1>1
<1>3. \A m \in Nodes, r \in Partitions : Leading(m, r)' => Leading(m, r)
  BY SMT, <1>2 DEF Leading
<1>4. \A m \in Nodes, r \in Partitions : ~up[m] => ~handler'[m][r].busy
  BY SMTT(30), <1>2 DEF DataInv
<1>5. \A m \in Nodes, r \in Partitions : Stale(m, r)' <=> Stale(m, r)
  BY DEF Stale
<1> QED
  BY SMT, <1>3, <1>4, <1>5 DEF DataInv

\* The end of a transition, which reports what it came to.
LEMMA EndStep ==
  ASSUME DataInv, NEW n \in Nodes, NEW p \in Partitions, NEW state \in Active \union {"OFFLINE", "ERROR"},
         up[n], handler[n][p].busy, session' = session,
         handler' = [handler EXCEPT ![n][p] = Idle], Report(n, p, state),
         state = "LEADER" => handler[n][p].target = "LEADER"
  PROVE  /\ handler' \in [Nodes -> [Partitions -> HandlerStates]]
         /\ reported' \in [Nodes -> [Partitions -> Active \union {"OFFLINE", "ERROR"}]]
         /\ \A m \in Nodes, r \in Partitions :
              /\ reported'[m][r] = IF m = n /\ r = p /\ session[n] = "ours" THEN state ELSE reported[m][r]
              /\ ~up[m] => ~handler'[m][r].busy
              /\ Leading(m, r)' => Leading(m, r)
<1>1. /\ handler \in [Nodes -> [Partitions -> HandlerStates]]
      /\ reported \in [Nodes -> [Partitions -> Active \union {"OFFLINE", "ERROR"}]]
  BY DEF DataInv, TypeOK
<1>2. \A m \in Nodes, r \in Partitions : handler'[m][r] = IF m = n /\ r = p THEN Idle ELSE handler[m][r]
  BY <1>1
<1>3. /\ reported' \in [Nodes -> [Partitions -> Active \union {"OFFLINE", "ERROR"}]]
      /\ \A m \in Nodes, r \in Partitions :
           reported'[m][r] = IF m = n /\ r = p /\ session[n] = "ours" THEN state ELSE reported[m][r]
  <2>1. CASE session[n] = "ours"
    <3>1. reported' = [reported EXCEPT ![n][p] = state]
      BY <2>1 DEF Report
    <3> QED  BY <1>1, <2>1, <3>1
  <2>2. CASE session[n] # "ours"
    BY <1>1, <2>2 DEF Report
  <2> QED  BY <2>1, <2>2
<1>4. handler' \in [Nodes -> [Partitions -> HandlerStates]]
  BY <1>1, IdleStates
<1>5. ASSUME NEW m \in Nodes, NEW r \in Partitions
      PROVE  Leading(m, r)' => Leading(m, r)
  <2>1. CASE m = n /\ r = p
    BY SMT, <1>2, <1>3, <2>1, IdleStates DEF Leading
  <2>2. CASE ~(m = n /\ r = p)
    BY SMT, <1>2, <1>3, <2>2 DEF Leading
  <2> QED
    BY <2>1, <2>2
<1>6. \A m \in Nodes, r \in Partitions : ~up[m] => ~handler'[m][r].busy
  BY SMT, <1>2, IdleStates DEF DataInv
<1> QED
  BY SMT, <1>3, <1>4, <1>5, <1>6

\* A handler that fails leaves the role as it is.
LEMMA FailStep ==
  ASSUME DataInv, NEW n \in Nodes, NEW p \in Partitions, up[n], handler[n][p].busy, Fail(n, p),
         UNCHANGED <<up, session, role, data, put, late, used>>
  PROVE  DataInv'
<1>1. /\ handler' \in [Nodes -> [Partitions -> HandlerStates]]
      /\ reported' \in [Nodes -> [Partitions -> Active \union {"OFFLINE", "ERROR"}]]
      /\ \A m \in Nodes, r \in Partitions :
           /\ reported'[m][r] = IF m = n /\ r = p /\ session[n] = "ours" THEN "ERROR" ELSE reported[m][r]
           /\ ~up[m] => ~handler'[m][r].busy
           /\ Leading(m, r)' => Leading(m, r)
  BY EndStep DEF Fail
<1>2. TypeOK'
  BY <1>1 DEF DataInv, TypeOK
<1>3. ASSUME NEW m \in Nodes, NEW r \in Partitions, Stale(m, r) \/ reported[m][r] = "LEADER"
      PROVE  Stale(m, r)' \/ reported'[m][r] = "LEADER"
  <2>1. session' = session /\ reported'[m][r] \in {"ERROR", reported[m][r]}
    BY <1>1
  <2> QED
    BY SMT, <1>3, <2>1 DEF Stale
<1> QED
  BY SMT, <1>1, <1>2, <1>3 DEF DataInv

LEMMA AskPeerStep ==
  ASSUME DataInv, NEW n \in Nodes, NEW p \in Partitions, AskPeer(n, p)
  PROVE  DataInv'
<1> DEFINE h == handler[n][p]
           R == [busy : {TRUE}, target : Active \union {"OFFLINE"}, pc : {"hydrate", "insert", "role"},
                 todo : SUBSET Nodes, snapshot : Nat]
<1>1. up[n] /\ h.busy /\ UNCHANGED <<up, session, role, data, put, late>>
  BY DEF AskPeer
<1>2. h \in R
  BY <1>1, BusyHandler
<1>3. PICK q : q = CHOOSE peer \in h.todo : TRUE
  OBVIOUS
<1>4. h.todo # {} /\ q \in h.todo /\ q \in Nodes
  BY <1>2, <1>3 DEF AskPeer
<1>5. CASE /\ handler' = [handler EXCEPT ![n][p] =
                [h EXCEPT !.pc = "insert", !.snapshot = PartitionSnapshot(q, p)]]
           /\ UNCHANGED <<reported, used>>
  <2>1. PICK v : v = PartitionSnapshot(q, p)
    OBVIOUS
  <2>2. v \in Nat
    BY SMT, <1>4, <2>1 DEF PartitionSnapshot, DataInv, TypeOK
  <2>3. PICK t : t = [h EXCEPT !.pc = "insert", !.snapshot = v]
    OBVIOUS
  <2>4. t \in R /\ t.target = h.target
    BY <1>2, <2>2, <2>3
  <2>5. handler' = [handler EXCEPT ![n][p] = t] /\ t \in HandlerStates
    BY <1>5, <2>1, <2>3, <2>4 DEF HandlerStates
  <2>6. TypeOK'
    BY SMT, <1>1, <1>5, <2>5 DEF DataInv, TypeOK
  <2> QED
    BY <1>1, <1>5, <2>4, <2>5, <2>6, TransitionStep
<1>6. CASE /\ handler' = [handler EXCEPT ![n][p].todo = handler[n][p].todo \ {q}]
           /\ used' = used \/ used' = [used EXCEPT !.timeouts = used.timeouts + 1]
           /\ reported' = reported
  <2>1. PICK t : t = [h EXCEPT !.todo = h.todo \ {q}]
    OBVIOUS
  <2>2. t \in R /\ t.target = h.target
    BY <1>2, <2>1
  <2>3. handler' = [handler EXCEPT ![n][p] = t] /\ t \in HandlerStates
    <3>1. t \in HandlerStates
      BY <2>2 DEF HandlerStates
    <3>2. [handler EXCEPT ![n][p].todo = handler[n][p].todo \ {q}] = [handler EXCEPT ![n][p] = t]
      BY <2>1
    <3> QED  BY <1>6, <3>1, <3>2
  <2>4. used' \in [puts : Nat, timeouts : Nat, failures : Nat]
    BY <1>6, Counted DEF DataInv, TypeOK
  <2>5. TypeOK'
    <3>1. reported' = reported
      BY <1>6
    <3> QED  BY <1>1, <2>3, <2>4, <3>1 DEF DataInv, TypeOK
  <2> QED
    BY <1>1, <1>6, <2>2, <2>3, <2>5, TransitionStep
<1>7. CASE Fail(n, p) /\ used' = used
  BY <1>1, <1>7, FailStep
<1> QED
  BY <1>3, <1>5, <1>6, <1>7 DEF AskPeer

LEMMA InsertSnapshotStep ==
  ASSUME DataInv, NEW n \in Nodes, NEW p \in Partitions, InsertSnapshot(n, p)
  PROVE  DataInv'
<1> DEFINE h == handler[n][p]
           R == [busy : {TRUE}, target : Active \union {"OFFLINE"}, pc : {"hydrate", "insert", "role"},
                 todo : SUBSET Nodes, snapshot : Nat]
<1>1. up[n] /\ h.busy /\ UNCHANGED <<up, session, role, put, reported, late, used>>
  BY DEF InsertSnapshot
<1>2. h \in R
  BY <1>1, BusyHandler
<1>3. PICK t : t = [h EXCEPT !.pc = "role"]
  OBVIOUS
<1>4. t \in R /\ t.target = h.target
  BY <1>2, <1>3
<1>5. handler' = [handler EXCEPT ![n][p] = t] /\ t \in HandlerStates
  BY <1>3, <1>4 DEF InsertSnapshot, HandlerStates
<1>6. data' \in [Nodes -> [Partitions -> Nat]]
  <2>1. h.snapshot \in Nat /\ data' = [data EXCEPT ![n][p] = h.snapshot]
    BY <1>2 DEF InsertSnapshot
  <2>2. data \in [Nodes -> [Partitions -> Nat]]
    BY DEF DataInv, TypeOK
  <2> QED
    BY <2>1, <2>2
<1>7. TypeOK'
  BY <1>1, <1>5, <1>6 DEF DataInv, TypeOK
<1> QED
  BY <1>1, <1>4, <1>5, <1>7, TransitionStep

LEMMA NoSnapshotStep ==
  ASSUME DataInv, NEW n \in Nodes, NEW p \in Partitions, NoSnapshot(n, p)
  PROVE  DataInv'
<1>1. up[n] /\ handler[n][p].busy /\ UNCHANGED <<up, session, role, data, put, late, used>>
  BY DEF NoSnapshot
<1>2. CASE reported[n][p] = "OFFLINE"
  <2>1. PICK t : t = [handler[n][p] EXCEPT !.pc = "role"]
    OBVIOUS
  <2>2. t \in HandlerStates /\ t.target = handler[n][p].target
    <3>1. handler[n][p] \in [busy : {TRUE}, target : Active \union {"OFFLINE"},
                             pc : {"hydrate", "insert", "role"}, todo : SUBSET Nodes, snapshot : Nat]
      BY <1>1, BusyHandler
    <3> QED
      BY <2>1, <3>1 DEF HandlerStates
  <2>3. handler' = [handler EXCEPT ![n][p] = t] /\ reported' = reported
    BY <1>2, <2>1 DEF NoSnapshot
  <2>4. TypeOK'
    BY <1>1, <2>2, <2>3 DEF DataInv, TypeOK
  <2> QED
    BY <1>1, <2>2, <2>3, <2>4, TransitionStep
<1>3. CASE reported[n][p] # "OFFLINE"
  BY <1>1, <1>3, FailStep DEF NoSnapshot
<1> QED
  BY <1>2, <1>3

LEMMA SetRoleStep ==
  ASSUME DataInv, NEW n \in Nodes, NEW p \in Partitions, SetRole(n, p)
  PROVE  DataInv'
<1> DEFINE target == handler[n][p].target
<1>1. /\ up[n] /\ handler[n][p].busy /\ ~put[n].busy /\ UNCHANGED <<up, session, data, put, late, used>>
      /\ handler' = [handler EXCEPT ![n][p] = Idle] /\ Report(n, p, target)
      /\ role' = [role EXCEPT ![n][p] = target]
  BY DEF SetRole, Unlocked
<1>2. target \in Active \union {"OFFLINE"}
  BY <1>1, BusyHandler
<1>3. /\ handler' \in [Nodes -> [Partitions -> HandlerStates]]
      /\ reported' \in [Nodes -> [Partitions -> Active \union {"OFFLINE", "ERROR"}]]
      /\ \A m \in Nodes, r \in Partitions :
           /\ reported'[m][r] = IF m = n /\ r = p /\ session[n] = "ours" THEN target ELSE reported[m][r]
           /\ ~up[m] => ~handler'[m][r].busy
           /\ Leading(m, r)' => Leading(m, r)
  <2>1. target \in Active \union {"OFFLINE", "ERROR"}
    BY <1>2
  <2> HIDE DEF target
  <2>2. target = "LEADER" => handler[n][p].target = "LEADER"
    BY DEF target
  <2> QED
    BY <1>1, <2>1, <2>2, EndStep
<1>4. role' \in [Nodes -> [Partitions -> Active \union {"OFFLINE"}]]
  BY SMT, <1>1, <1>2 DEF DataInv, TypeOK
<1>5. TypeOK'
  BY <1>1, <1>3, <1>4 DEF DataInv, TypeOK
<1>6. \A m \in Nodes, r \in Partitions : role'[m][r] = IF m = n /\ r = p THEN target ELSE role[m][r]
  BY SMT, <1>1 DEF DataInv, TypeOK
<1>7. ASSUME NEW m \in Nodes, put'[m].busy
      PROVE  up'[m] /\ role'[m][put'[m].partition] = "LEADER"
  <2>1. m # n /\ put[m].busy
    BY <1>1, <1>7
  <2>2. put[m].partition \in Partitions
    BY <2>1, BusyPut
  <2> QED
    BY SMT, <1>1, <1>6, <2>1, <2>2 DEF DataInv
<1>8. \A m \in Nodes, r \in Partitions :
        up'[m] /\ role'[m][r] = "LEADER" => Stale(m, r)' \/ reported'[m][r] = "LEADER"
  BY SMT, <1>1, <1>3, <1>6 DEF DataInv, Stale
<1>9. \A m \in Nodes, r \in Partitions : ~up'[m] => role'[m][r] = "OFFLINE"
  BY SMT, <1>1, <1>6 DEF DataInv
<1> QED
  BY SMT, <1>1, <1>3, <1>5, <1>7, <1>8, <1>9 DEF DataInv
\* The control plane lets a replica lead only beside none.
LEMMA SendStep ==
  ASSUME DataInv, NEW n \in Nodes, NEW p \in Partitions, NEW target \in Active \union {"OFFLINE"},
         Send(n, p, target)
  PROVE  DataInv'
<1>1. PICK t : t = [busy |-> TRUE, target |-> target, pc |-> FirstStep(target),
                    todo |-> Peers(n), snapshot |-> 0]
  OBVIOUS
<1>2. t \in HandlerStates /\ t.target = target
  BY <1>1 DEF HandlerStates, FirstStep, Peers
<1>3. /\ handler' = [handler EXCEPT ![n][p] = t] /\ up[n]
      /\ UNCHANGED <<up, session, role, data, put, reported, late, used>>
  BY <1>1 DEF Send
<1>4. handler \in [Nodes -> [Partitions -> HandlerStates]]
  BY DEF DataInv, TypeOK
<1>5. \A m \in Nodes, r \in Partitions : handler'[m][r] = IF m = n /\ r = p THEN t ELSE handler[m][r]
  BY <1>3, <1>4
<1>6. TypeOK'
  BY <1>2, <1>3 DEF DataInv, TypeOK
<1>7. \A m \in Nodes, r \in Partitions : ~(m = n /\ r = p) => (Leading(m, r)' <=> Leading(m, r))
  BY <1>3, <1>5 DEF Leading
<1>8. Leading(n, p)' => Leading(n, p) \/ target = "LEADER"
  BY <1>2, <1>3, <1>5 DEF Leading
<1>9. target = "LEADER" => \A q \in Nodes : Leading(q, p) => q = n
  BY DEF Send, Leading, Peers
<1>10. \A m, q \in Nodes, r \in Partitions : Leading(m, r)' /\ Leading(q, r)' => m = q
  BY SMT, <1>7, <1>8, <1>9 DEF DataInv
<1>11. \A m \in Nodes, r \in Partitions : ~up[m] => ~handler'[m][r].busy
  BY SMT, <1>3, <1>5 DEF DataInv
<1> QED
  BY <1>3, <1>6, <1>10, <1>11 DEF DataInv, Stale

LEMMA CrashStep ==
  ASSUME DataInv, NEW n \in Nodes, Crash(n)
  PROVE  DataInv'
<1> DEFINE none == [p \in Partitions |-> "OFFLINE"]
           idle == [p \in Partitions |-> Idle]
<1>1. /\ up' = [up EXCEPT ![n] = FALSE] /\ role' = [role EXCEPT ![n] = none]
      /\ data' = [data EXCEPT ![n] = [p \in Partitions |-> 0]]
      /\ put' = [put EXCEPT ![n] = Idle] /\ handler' = [handler EXCEPT ![n] = idle]
      /\ reported' = reported /\ late' = late
  BY DEF Crash
<1>2. used' \in [puts : Nat, timeouts : Nat, failures : Nat]
  BY Counted DEF Crash
<1>3. /\ none \in [Partitions -> Active \union {"OFFLINE"}] /\ idle \in [Partitions -> HandlerStates]
      /\ [p \in Partitions |-> 0] \in [Partitions -> Nat]
  BY IdleStates
<1> HIDE DEF none, idle
<1>0. /\ session' \in [Nodes -> {"ours", "old", "none"}]
      /\ session'[n] = "none" <=> session[n] = "none"
      /\ \A m \in Nodes \ {n} : session'[m] = session[m]
  <2>1. PICK s : s = IF session[n] = "ours" THEN "old" ELSE session[n]
    OBVIOUS
  <2>2. session' = [session EXCEPT ![n] = s]
    BY <2>1 DEF Crash
  <2>3. session \in [Nodes -> {"ours", "old", "none"}]
    BY DEF DataInv, TypeOK
  <2>4. session[n] \in {"ours", "old", "none"}
    BY <2>3
  <2>5. s \in {"ours", "old", "none"} /\ (s = "none" <=> session[n] = "none")
    BY <2>1, <2>4
  <2> QED  BY <2>2, <2>3, <2>5
<1>4. TypeOK'
  BY <1>0, <1>1, <1>2, <1>3, IdleStates DEF DataInv, TypeOK
<1>5. /\ up'[n] = FALSE /\ role'[n] = none /\ put'[n] = Idle /\ handler'[n] = idle
      /\ \A m \in Nodes \ {n} : /\ up'[m] = up[m] /\ role'[m] = role[m] /\ put'[m] = put[m]
                                /\ handler'[m] = handler[m]
  BY SMT, <1>1 DEF DataInv, TypeOK
<1>6. \A p \in Partitions : none[p] = "OFFLINE" /\ idle[p] = Idle
  BY DEF none, idle
<1>7. \A m \in Nodes, p \in Partitions : Leading(m, p)' => Leading(m, p)
  BY SMT, <1>0, <1>1, <1>5, <1>6, IdleStates DEF Leading
<1>8. ASSUME NEW m \in Nodes, put'[m].busy
      PROVE  up'[m] /\ role'[m][put'[m].partition] = "LEADER"
  BY SMT, <1>5, <1>8, IdleStates DEF DataInv
<1>9. ASSUME NEW m \in Nodes, NEW p \in Partitions
      PROVE  /\ up'[m] /\ role'[m][p] = "LEADER" => Stale(m, p)' \/ reported'[m][p] = "LEADER"
             /\ ~up'[m] => role'[m][p] = "OFFLINE" /\ ~handler'[m][p].busy
  <2>1. CASE m = n
    BY <1>5, <1>6, <2>1, IdleStates
  <2>2. CASE m # n
    BY SMT, <1>0, <1>1, <1>5, <2>2 DEF DataInv, Stale
  <2> QED
    BY <2>1, <2>2
<1> QED
  BY <1>4, <1>7, <1>8, <1>9 DEF DataInv

LEMMA RestartStep ==
  ASSUME DataInv, NEW n \in Nodes, Restart(n)
  PROVE  DataInv'
<1>1. /\ ~up[n] /\ up' = [up EXCEPT ![n] = TRUE]
      /\ UNCHANGED <<session, role, data, put, handler, reported, late, used>>
  BY DEF Restart
<1>2. TypeOK'
  BY <1>1 DEF DataInv, TypeOK
<1>3. up'[n] = TRUE /\ \A m \in Nodes \ {n} : up'[m] = up[m]
  BY SMT, <1>1 DEF DataInv, TypeOK
<1>4. \A m \in Nodes, p \in Partitions : (Leading(m, p)' <=> Leading(m, p)) /\ (Stale(m, p)' <=> Stale(m, p))
  BY <1>1 DEF Leading, Stale
<1>5. \A m \in Nodes : put'[m].busy => up'[m] /\ role'[m][put'[m].partition] = "LEADER"
  BY SMT, <1>1, <1>3 DEF DataInv
<1>6. ASSUME NEW m \in Nodes, NEW p \in Partitions
      PROVE  /\ up'[m] /\ role'[m][p] = "LEADER" => Stale(m, p)' \/ reported'[m][p] = "LEADER"
             /\ ~up'[m] => role'[m][p] = "OFFLINE" /\ ~handler'[m][p].busy
  <2>1. CASE m = n
    BY <1>1, <1>3, <2>1 DEF DataInv
  <2>2. CASE m # n
    BY SMT, <1>1, <1>3, <1>4, <2>2 DEF DataInv
  <2> QED
    BY <2>1, <2>2
<1> QED
  BY <1>2, <1>4, <1>5, <1>6 DEF DataInv

\* A node that has lost its session no longer leads for the control plane.
LEMMA LeaseEndsStep ==
  ASSUME DataInv, NEW n \in Nodes, LeaseEnds(n)
  PROVE  DataInv'
<1>1. session' = [session EXCEPT ![n] = "none"] /\ UNCHANGED <<up, role, data, put, handler, reported, late>>
  BY DEF LeaseEnds
<1>2. used' \in [puts : Nat, timeouts : Nat, failures : Nat]
  BY Counted DEF LeaseEnds, DataInv, TypeOK
<1>3. TypeOK'
  BY <1>1, <1>2 DEF DataInv, TypeOK
<1>4. session'[n] = "none" /\ \A m \in Nodes \ {n} : session'[m] = session[m]
  BY SMT, <1>1 DEF DataInv, TypeOK
<1>5. \A m \in Nodes, p \in Partitions : (Leading(m, p)' => Leading(m, p)) /\ (Stale(m, p) => Stale(m, p)')
  BY SMT, <1>1, <1>4 DEF Leading, Stale
<1> QED
  BY SMT, <1>1, <1>3, <1>5 DEF DataInv

\* A new session begins without a leader.
LEMMA RegisterNodeStep ==
  ASSUME DataInv, NEW n \in Nodes, RegisterNode(n)
  PROVE  DataInv'
<1> DEFINE none == [p \in Partitions |-> "OFFLINE"]
<1>1. /\ up[n] /\ session' = [session EXCEPT ![n] = "ours"] /\ reported' = [reported EXCEPT ![n] = none]
      /\ \A p \in Partitions : ~handler[n][p].busy
      /\ UNCHANGED <<up, role, data, put, handler, late, used>>
  BY DEF RegisterNode
<1>2. none \in [Partitions -> Active \union {"OFFLINE", "ERROR"}] /\ \A p \in Partitions : none[p] = "OFFLINE"
  OBVIOUS
<1> HIDE DEF none
<1>3. TypeOK'
  BY <1>1, <1>2 DEF DataInv, TypeOK
<1>4. /\ session'[n] = "ours" /\ reported'[n] = none
      /\ \A m \in Nodes \ {n} : session'[m] = session[m] /\ reported'[m] = reported[m]
  BY SMT, <1>1 DEF DataInv, TypeOK
<1>5. ASSUME NEW m \in Nodes, NEW p \in Partitions
      PROVE  /\ Leading(m, p)' => Leading(m, p)
             /\ Stale(m, p) \/ reported[m][p] = "LEADER" => Stale(m, p)' \/ reported'[m][p] = "LEADER"
  <2>1. CASE m = n
    BY <1>1, <1>2, <1>4, <2>1 DEF Leading, Stale
  <2>2. CASE m # n
    BY <1>1, <1>4, <2>2 DEF Leading, Stale
  <2> QED
    BY <2>1, <2>2
<1> QED
  BY SMT, <1>1, <1>3, <1>5 DEF DataInv

LEMMA DataStep ==
  ASSUME DataInv, [Next]_vars
  PROVE  DataInv'
<1>1. CASE UNCHANGED vars
  BY SMT, <1>1 DEF vars, DataInv, TypeOK, Leading, Stale
<1> QED
  BY <1>1, PutStep, AskPeerStep, InsertSnapshotStep, NoSnapshotStep, SetRoleStep, SendStep, CommitStep,
    CrashStep, RestartStep, LeaseEndsStep, RegisterNodeStep, ReplicateStep, GiveUpStep, ServeLateStep DEF Next

\* PUT, REPLICATE, the transitions of the control plane, crashes and lost sessions keep the
\* data plane well typed and every write at a replica that has the leader role, which the
\* control plane gave to one replica at a time (request, transition).
THEOREM DataInvariant == Spec => []DataInv
  BY DataInit, DataStep, PTL DEF Spec

\* A node is a leader as long as its PUT goes on (request keeps the role mutex to the end of
\* a PUT), and no two nodes carry out a PUT of a partition at the same time, but beside a
\* node that has lost its session or whose handler failed.
THEOREM SerializedWrites == Spec => []WritesAreSerialized
<1>1. DataInv => WritesAreSerialized
  <2> SUFFICES ASSUME DataInv, NEW n \in Nodes, put[n].busy
               PROVE  /\ role[n][put[n].partition] = "LEADER"
                      /\ \A q \in Peers(n) : put[q].busy /\ put[q].partition = put[n].partition
                           => Stale(n, put[n].partition) \/ Stale(q, put[n].partition)
    BY DEF WritesAreSerialized
  <2>1. put[n].partition \in Partitions /\ role[n][put[n].partition] = "LEADER" /\ up[n]
    BY BusyPut DEF DataInv
  <2>2. ASSUME NEW q \in Peers(n), put[q].busy, put[q].partition = put[n].partition,
               ~Stale(n, put[n].partition), ~Stale(q, put[n].partition)
        PROVE  FALSE
    <3>1. q \in Nodes /\ n # q
      BY DEF Peers
    <3>2. up[q] /\ role[q][put[n].partition] = "LEADER"
      BY SMT, <2>1, <2>2, <3>1 DEF DataInv
    <3>3. reported[n][put[n].partition] = "LEADER" /\ reported[q][put[n].partition] = "LEADER"
      BY <2>1, <2>2, <3>1, <3>2 DEF DataInv
    <3>4. Leading(n, put[n].partition) /\ Leading(q, put[n].partition)
      BY <2>2, <3>3 DEF Leading, Stale
    <3> QED  BY <2>1, <3>1, <3>4 DEF DataInv
  <2> QED  BY <2>1, <2>2
<1> QED
  BY <1>1, DataInvariant, PTL

-----------------------------------------------------------------------------
(***************************************************************************)
(* The chaos driver: a fault of a trace is undone after its action.        *)
(*                                                                         *)
(* FaultsAreScoped speaks of the moments between two actions.  TraceInv    *)
(* covers the others: an action has one fault at most, so that what is on  *)
(* the machine is what that fault has put there; and when undoing it       *)
(* fails, there is an error, which ends the trace before the next action.  *)
(***************************************************************************)
Modes == {"slow", "block", "repeated", "panic", "error"}

Faults ==
  {Callback(mode) : mode \in Modes} \cup {Network(id) : id \in {Node1, ControllerA}}
    \cup {Fault(kind) : kind \in {"compaction", "member", "clock", "failpoint"}}

\* The actions of a trace; arming a failpoint is for scripts.
TraceOps ==
  {"start", "stop", "restart", "crash", "add", "remove", "create", "modify", "throttle", "wait",
   "quiesce", "converge", "idle"}

TraceActions == [op : TraceOps, id : Ids, fault : Faults \cup {None}]

Errors == {"none", "error", "unreached"}

\* An action has one fault at most.
Stacks == {<<>>} \cup {<<fault>> : fault \in Faults}

Executions ==
  [pc : {"next", "cleanup", "end"}, active : Stacks, error : Errors,
   skip : BOOLEAN, stable : BOOLEAN, quiet : BOOLEAN, result : Errors \cup {"ok", "violation"}]

Machines ==
  [running : SUBSET Ids, frozen : SUBSET Ids, toxics : SUBSET (Ids \X (1 .. Paths)),
   live : [Ids -> {"none", "current", "old"}], members : Int, faulty : BOOLEAN]

Notes == [expected : SUBSET Ids, suspended : SUBSET Ids, toxics : SUBSET (Ids \X (1 .. Paths))]

FileStates == [callback : Modes \cup {"immediate"}, failpoint : {"off", "set", "armed"}, hits : BOOLEAN]

TraceTypeOK ==
  /\ plan \in [index : Nat, controllers : Nat, participants : Nat]
  /\ queue \in Seq(TraceActions)
  /\ sup \in Notes /\ files \in FileStates /\ machine \in Machines /\ ex \in Executions

\* The fault that is active, if any.
Present == IF ex.active = <<>> THEN None ELSE ex.active[1]

\* What a trace leaves on the machine while a fault is active.
OnlyPresent ==
  /\ ex.error = "none" => machine.toxics \subseteq IF Present.kind = "network" THEN Proxies(Present.id) ELSE {}
  /\ Present.kind # "clock" => sup.suspended = {}
  /\ Present.kind # "callback" => files.callback = "immediate"
  /\ Present.kind # "failpoint" => files.failpoint = "off"

Clean ==
  machine.toxics = {} /\ machine.frozen = {} /\ files.callback = "immediate" /\ files.failpoint = "off"

TraceInv ==
  /\ TraceTypeOK
  /\ ex.result # "none" => ex.pc = "end"
  /\ ex.pc = "next" => ex.error = "none"
  /\ ex.pc = "next" /\ ex.active # <<>> => queue # <<>> /\ Head(queue).fault = None
  /\ machine.frozen \subseteq sup.suspended
  /\ ex.pc # "end" => OnlyPresent
  /\ ex.result = "ok" => Clean

ChaosInv == profile \in Traces \cup Scripts /\ (profile \in Traces => TraceInv)

-----------------------------------------------------------------------------
(* Traces.                                                                 *)

LEMMA FaultKinds ==
  ASSUME NEW fault \in Faults
  PROVE  /\ fault # None
         /\ fault.kind \in {"callback", "network", "compaction", "member", "clock", "failpoint"}
         /\ fault.kind = "network" => fault.id \in {Node1, ControllerA}
         /\ fault.kind = "callback" => fault.mode \in Modes
<1>1. CASE \E mode \in Modes : fault = Callback(mode)
  <2>1. PICK mode \in Modes : fault = Callback(mode)
    BY <1>1
  <2>2. fault.kind = "callback" /\ fault.mode = mode
    BY <2>1 DEF Callback
  <2>3. None.kind = "none"
    BY DEF None
  <2> QED  BY <2>1, <2>2, <2>3
<1>2. CASE \E id \in {Node1, ControllerA} : fault = Network(id)
  <2>1. PICK id \in {Node1, ControllerA} : fault = Network(id)
    BY <1>2
  <2>2. fault.kind = "network" /\ fault.id = id
    BY <2>1 DEF Network
  <2>3. None.kind = "none"
    BY DEF None
  <2> QED  BY <2>1, <2>2, <2>3
<1>3. CASE \E kind \in {"compaction", "member", "clock", "failpoint"} : fault = Fault(kind)
  <2>1. PICK kind \in {"compaction", "member", "clock", "failpoint"} : fault = Fault(kind)
    BY <1>3
  <2>2. fault.kind = kind
    BY <2>1 DEF Fault
  <2>3. None.kind = "none"
    BY DEF None
  <2> QED  BY <2>1, <2>2, <2>3
<1> QED  BY <1>1, <1>2, <1>3 DEF Faults

LEMMA Entry ==
  ASSUME NEW S, NEW s \in Seq(S), NEW k \in 1..Len(s)
  PROVE  s[k] \in S
  BY SMT

\* The matrix of a profile is made of faults, and is not empty.
LEMMA MatrixOfFaults ==
  /\ FaultMatrix \in Seq(Faults) /\ Len(FaultMatrix) \in Nat \ {0}
<1>1. /\ \A mode \in Modes : Callback(mode) \in Faults
      /\ Network(Node1) \in Faults /\ Network(ControllerA) \in Faults
      /\ \A kind \in {"compaction", "member", "clock", "failpoint"} : Fault(kind) \in Faults
  BY DEF Faults
<1>2. /\ Callback("slow") \in Faults /\ Callback("block") \in Faults /\ Callback("repeated") \in Faults
      /\ Callback("panic") \in Faults /\ Callback("error") \in Faults
      /\ Fault("compaction") \in Faults /\ Fault("member") \in Faults /\ Fault("clock") \in Faults
      /\ Fault("failpoint") \in Faults
  BY <1>1 DEF Modes
<1>3. CASE profile = "pr"
  BY SMT, <1>2, <1>3 DEF FaultMatrix
<1>4. CASE profile # "pr"
  BY SMT, <1>1, <1>2, <1>4 DEF FaultMatrix
<1> QED  BY <1>3, <1>4

LEMMA GeneratedFaults ==
  ASSUME NEW index \in Nat
  PROVE  GeneratedFault(index) \in Faults \cup {None}
<1> DEFINE n == Len(FaultMatrix)
<1>1. FaultMatrix \in Seq(Faults) /\ n \in Nat \ {0}
  BY MatrixOfFaults
<1> HIDE DEF n
<1>2. (index < n => index + 1 \in 1..n) /\ (index % n) + 1 \in 1..n
  BY SMT, <1>1
<1>3. (index < n => FaultMatrix[index + 1] \in Faults) /\ FaultMatrix[(index % n) + 1] \in Faults
  BY <1>1, <1>2, Entry DEF n
<1> QED  BY <1>3 DEF GeneratedFault, n

LEMMA Actions ==
  ASSUME NEW op \in TraceOps, NEW id \in Ids
  PROVE  Do(op, id) \in TraceActions
  BY SMT DEF Do, TraceActions

LEMMA SomeIds ==
  ASSUME ChaosAssumption
  PROVE  /\ Controllers \subseteq Ids /\ Participants \subseteq Ids
         /\ Node1 \in Ids /\ Node4 \in Ids /\ Node5 \in Ids /\ ControllerA \in Ids /\ ControllerC \in Ids
  BY DEF ChaosAssumption, Ids, ParticipantIds

LEMMA EachStart ==
  ASSUME NEW ids \in Seq(STRING), \A k \in DOMAIN ids : ids[k] \in Ids
  PROVE  Each("start", ids) \in Seq(TraceActions)
<1>1. DOMAIN ids = 1..Len(ids) /\ Len(ids) \in Nat
  BY SMT
<1>2. \A k \in 1..Len(ids) : Do("start", ids[k]) \in TraceActions
  <2>1. "start" \in TraceOps
    BY DEF TraceOps
  <2> QED  BY <1>1, <2>1, Actions
<1>3. Each("start", ids) = [k \in 1..Len(ids) |-> Do("start", ids[k])]
  BY <1>1 DEF Each
<1> QED  BY SMT, <1>1, <1>2, <1>3

LEMMA PreludeOfActions ==
  ASSUME ChaosAssumption, profile \in Traces
  PROVE  Prelude \in Seq(TraceActions)
<1>1. Each("start", ControllerIds) \in Seq(TraceActions)
  <2>1. \A k \in DOMAIN ControllerIds : ControllerIds[k] \in Ids
    BY DEF Controllers, Ids
  <2> QED  BY <2>1, EachStart DEF ChaosAssumption
<1>2. Each("start", InitialIds) \in Seq(TraceActions)
  <2>1. \A k \in DOMAIN InitialIds : InitialIds[k] \in Ids
    BY DEF Participants, ParticipantIds, Ids
  <2> QED  BY <2>1, EachStart DEF ChaosAssumption
<1>3. /\ "wait" \in TraceOps /\ "create" \in TraceOps /\ "converge" \in TraceOps /\ "idle" \in TraceOps
      /\ "stop" \in TraceOps /\ "restart" \in TraceOps
  BY DEF TraceOps
<1>4. /\ Plain("wait") \in TraceActions /\ Plain("create") \in TraceActions
      /\ Plain("converge") \in TraceActions /\ Plain("idle") \in TraceActions
      /\ Do("stop", Node4) \in TraceActions /\ Do("restart", Node4) \in TraceActions
      /\ Do("stop", ControllerC) \in TraceActions /\ Do("restart", ControllerC) \in TraceActions
  BY <1>3, SomeIds, Actions DEF Plain
<1>5. Startup \in Seq(TraceActions)
  BY SMT, <1>1, <1>2, <1>4 DEF Startup
<1>6. CASE profile = "scale"
  BY SMT, <1>4, <1>5, <1>6 DEF Prelude
<1>7. CASE profile \in {"pr", "nightly"}
  <2>1. Prelude = Startup \o <<Do("stop", Node4), Do("restart", Node4), Do("stop", ControllerC),
                               Do("restart", ControllerC), Plain("converge")>>
    BY <1>7 DEF Prelude
  <2> QED  BY SMT, <1>4, <1>5, <2>1
<1> QED  BY <1>6, <1>7 DEF Traces

\* A step of the generator makes actions of a trace.
LEMMA StepOfActions ==
  ASSUME ChaosAssumption, NEW actions \in Seq(TraceActions), actions # <<>>, NEW fault \in Faults \cup {None}
  PROVE  WithFault(actions, fault) \in Seq(TraceActions)
<1> DEFINE triggered == actions \o (IF NeedsHit(fault) THEN <<Plain("modify"), Plain("modify")>> ELSE <<>>)
           scheduled == [triggered EXCEPT ![Len(triggered)].fault = fault]
<1>1. Plain("modify") \in TraceActions /\ Do("restart", Node1) \in TraceActions
  <2>1. "modify" \in TraceOps /\ "restart" \in TraceOps
    BY DEF TraceOps
  <2> QED  BY <2>1, SomeIds, Actions DEF Plain
<1>2. triggered \in Seq(TraceActions) /\ triggered # <<>>
  BY SMT, <1>1
<1> HIDE DEF triggered
<1>3. Len(triggered) \in 1..Len(triggered) /\ triggered[Len(triggered)] \in TraceActions
  BY SMT, <1>2
<1>4. [triggered[Len(triggered)] EXCEPT !.fault = fault] \in TraceActions
  BY SMT, <1>3 DEF TraceActions
<1>5. scheduled \in Seq(TraceActions)
  BY SMT, <1>2, <1>3, <1>4
<1> HIDE DEF scheduled
<1>6. scheduled \o (IF fault = Callback("panic") THEN <<Do("restart", Node1)>> ELSE <<>>) \in Seq(TraceActions)
  BY SMT, <1>1, <1>5
<1> QED  BY <1>6 DEF WithFault, scheduled, triggered

-----------------------------------------------------------------------------
(* The steps of execute_trace.                                             *)

\* The fields of what is unchanged or changes.
LEMMA Fields ==
  ASSUME TraceTypeOK
  PROVE  /\ ex.pc \in {"next", "cleanup", "end"} /\ ex.error \in Errors
         /\ ex.active = <<>> \/ \E fault \in Faults : ex.active = <<fault>>
         /\ machine.frozen \in SUBSET Ids /\ sup.suspended \in SUBSET Ids
<1>1. /\ ex.pc \in {"next", "cleanup", "end"} /\ ex.error \in Errors /\ ex.active \in Stacks
      /\ machine.frozen \in SUBSET Ids /\ sup.suspended \in SUBSET Ids
  BY SMT DEF TraceTypeOK, Executions, Machines, Notes
<1> QED  BY <1>1 DEF Stacks

\* A step that adds nothing to what faults have done.
LEMMA Steady ==
  ASSUME TraceInv, TraceTypeOK',
         machine'.toxics = machine.toxics,
         machine'.frozen \subseteq machine.frozen, machine'.frozen \subseteq sup'.suspended,
         sup'.suspended \subseteq sup.suspended,
         files'.callback = files.callback, files'.failpoint = files.failpoint,
         ex'.active = ex.active, ex'.result = ex.result, ex'.pc = "end" <=> ex.pc = "end",
         ex'.error = "none" => ex.error = "none",
         ex'.pc = "next" => ex'.error = "none" /\ (ex.active # <<>> => queue' # <<>> /\ Head(queue').fault = None)
  PROVE  TraceInv'
<1>1. Present' = Present
  BY DEF Present
<1>2. ex'.pc # "end" => OnlyPresent'
  <2> SUFFICES ASSUME ex'.pc # "end" PROVE OnlyPresent'
    OBVIOUS
  <2>1. OnlyPresent
    BY DEF TraceInv
  <2> QED  BY <1>1, <2>1 DEF OnlyPresent, Proxies
<1>3. ex'.result = "ok" => Clean'
  <2> SUFFICES ASSUME ex'.result = "ok" PROVE Clean'
    OBVIOUS
  <2>1. Clean
    BY DEF TraceInv
  <2> QED  BY <2>1 DEF Clean
<1> QED  BY <1>2, <1>3 DEF TraceInv

\* A trace that ends, not well.
LEMMA Ends ==
  ASSUME TraceInv, TraceTypeOK', machine'.frozen \subseteq sup'.suspended, ex'.pc = "end", ex'.result # "ok"
  PROVE  TraceInv'
  BY DEF TraceInv

\* apply_action has returned.
LEMMA FinishStep ==
  ASSUME TraceInv, ex.pc = "next", queue # <<>>, NEW e \in Errors, Finish(e),
         machine' \in Machines, machine'.toxics = machine.toxics, machine'.frozen \subseteq machine.frozen,
         sup' \in Notes, sup'.suspended = sup.suspended, UNCHANGED <<plan, files>>
  PROVE  TraceInv'
<1>1. TraceTypeOK
  BY DEF TraceInv
<1>2. queue' \in Seq(TraceActions)
  BY SMT, <1>1 DEF TraceTypeOK, Finish, Advance
<1>3. /\ ex' \in Executions /\ ex'.pc = "cleanup" /\ ex'.error = e
      /\ ex'.active = ex.active /\ ex'.result = ex.result
  BY <1>1 DEF TraceTypeOK, Finish, Executions
<1>4. TraceTypeOK'
  BY <1>1, <1>2, <1>3 DEF TraceTypeOK
<1>5. machine'.frozen \subseteq sup'.suspended
  BY DEF TraceInv
<1>6. ex.error = "none"
  BY DEF TraceInv
<1> QED  BY <1>3, <1>4, <1>5, <1>6, Steady

LEMMA GenerateStep ==
  ASSUME ChaosAssumption, TraceInv, Generate
  PROVE  TraceInv'
<1>1. TraceTypeOK /\ plan.index \in Nat /\ queue = <<>> /\ UNCHANGED <<sup, files, machine, ex>>
  BY SMT DEF TraceInv, TraceTypeOK, Generate
<1>2. /\ "crash" \in TraceOps /\ "restart" \in TraceOps /\ "add" \in TraceOps /\ "remove" \in TraceOps
      /\ "start" \in TraceOps /\ {"wait", "quiesce", "converge", "throttle", "modify"} \subseteq TraceOps
  BY DEF TraceOps
<1>3. \A a \in TraceActions : <<a>> \in Seq(TraceActions) /\ <<a>> # <<>>
  BY SMT
<1>4. \A a, b \in TraceActions : <<a, b>> \in Seq(TraceActions) /\ <<a, b>> # <<>>
  BY SMT
<1>5. ASSUME NEW actions \in RandomSteps
      PROVE  actions \in Seq(TraceActions) /\ actions # <<>>
  <2>1. CASE \E op \in {"wait", "quiesce", "converge", "throttle", "modify"} : actions = <<Plain(op)>>
    BY <1>2, <1>3, <2>1, Actions, SomeIds DEF Plain
  <2>2. CASE actions \in {<<Do("add", Node5)>>, <<Do("remove", Node5)>>}
    BY <1>2, <1>3, <2>2, Actions, SomeIds
  <2>3. CASE \E id \in Participants : actions = <<Do("start", id)>>
    BY <1>2, <1>3, <2>3, Actions, SomeIds
  <2> QED  BY <2>1, <2>2, <2>3 DEF RandomSteps
<1>6. ASSUME NEW id \in Ids
      PROVE  <<Do("crash", id), Do("restart", id)>> \in Seq(TraceActions) /\ <<Do("crash", id), Do("restart", id)>> # <<>>
  BY <1>2, <1>4, Actions
<1>7. \E actions \in Seq(TraceActions) : actions # <<>> /\ queue' = WithFault(actions, GeneratedFault(plan.index))
  <2>1. PICK actions \in RandomSteps \cup {<<Do("crash", id), Do("restart", id)>> : id \in Controllers}
                           \cup {<<Do("crash", id), Do("restart", id)>> : id \in Participants} :
               queue' = WithFault(actions, GeneratedFault(plan.index))
    BY DEF Generate
  <2>2. actions \in Seq(TraceActions) /\ actions # <<>>
    BY <1>5, <1>6, SomeIds
  <2> QED  BY <2>1, <2>2
<1>8. queue' \in Seq(TraceActions)
  BY <1>1, <1>7, GeneratedFaults, StepOfActions
<1>9. plan' \in [index : Nat, controllers : Nat, participants : Nat]
  BY SMT, <1>1 DEF Generate, TraceTypeOK
<1>10. TraceTypeOK'
  BY <1>1, <1>8, <1>9 DEF TraceTypeOK
<1>11. machine.frozen \subseteq sup.suspended /\ (ex.pc = "next" => ex.error = "none" /\ ex.active = <<>>)
  BY <1>1 DEF TraceInv
<1> QED  BY <1>1, <1>10, <1>11, Steady

LEMMA RejectStep ==
  ASSUME TraceInv, RejectAction
  PROVE  TraceInv'
<1>1. TraceTypeOK /\ machine.frozen \subseteq sup.suspended /\ UNCHANGED <<plan, sup, files, machine>>
  BY DEF TraceInv, RejectAction
<1>2. ex.pc = "next" /\ queue # <<>> /\ queue' = Tail(queue)
  BY DEF RejectAction, Advance
<1>3. queue' \in Seq(TraceActions)
  BY SMT, <1>1, <1>2 DEF TraceTypeOK
<1>4. /\ ex' \in Executions /\ ex'.pc = "cleanup" /\ ex'.error = ex.error
      /\ ex'.active = ex.active /\ ex'.result = ex.result
  BY <1>1 DEF TraceTypeOK, RejectAction, Executions
<1>5. TraceTypeOK'
  BY <1>1, <1>3, <1>4 DEF TraceTypeOK
<1> QED  BY <1>1, <1>2, <1>4, <1>5, Steady

\* stop_child, whatever it does to the registration.
LEMMA StoppedMachine ==
  ASSUME machine \in Machines, NEW id \in Ids, NEW graceful \in BOOLEAN
  PROVE  /\ Stopped(id, graceful) \in Machines
         /\ Stopped(id, graceful).toxics = machine.toxics
         /\ Stopped(id, graceful).frozen \subseteq machine.frozen
<1> DEFINE live == IF graceful /\ RevokesOnTerm(id) THEN [machine.live EXCEPT ![id] = "none"] ELSE Gone(machine.live, id)
<1>1. machine.live \in [Ids -> {"none", "current", "old"}]
  BY DEF Machines
<1>2. [machine.live EXCEPT ![id] = "none"] \in [Ids -> {"none", "current", "old"}]
  BY <1>1
<1>3. Gone(machine.live, id) \in [Ids -> {"none", "current", "old"}]
  BY SMT, <1>1 DEF Gone
<1>4. live \in [Ids -> {"none", "current", "old"}]
  BY <1>2, <1>3
<1>5. Stopped(id, graceful) =
        [machine EXCEPT !.running = machine.running \ {id}, !.frozen = machine.frozen \ {id}, !.live = live]
  BY DEF Stopped, Machines
<1> HIDE DEF live
<1> QED  BY <1>4, <1>5 DEF Machines

\* start_controller, start_participant.
LEMMA StartedMachine ==
  ASSUME NEW m \in Machines, NEW id \in Ids
  PROVE  LET started == [m EXCEPT !.running = m.running \cup {id}]
         IN started \in Machines /\ started.toxics = m.toxics /\ started.frozen = m.frozen
<1>1. m.running \cup {id} \in SUBSET Ids
  BY DEF Machines
<1> QED  BY <1>1 DEF Machines

LEMMA StartedNotes ==
  ASSUME sup \in Notes, NEW id \in Ids
  PROVE  LET started == [sup EXCEPT !.expected = sup.expected \cup {id}]
         IN started \in Notes /\ started.suspended = sup.suspended
  BY SMT DEF Notes

LEMMA ProcessStep ==
  ASSUME TraceInv, ex.pc = "next", queue # <<>>, UNCHANGED plan, Process(Head(queue))
  PROVE  TraceInv'
<1>1. TraceTypeOK /\ machine \in Machines /\ sup \in Notes /\ "none" \in Errors /\ "error" \in Errors
  BY DEF TraceInv, TraceTypeOK, Errors
<1>2. Head(queue) \in TraceActions
  BY SMT, <1>1 DEF TraceTypeOK
<1> SUFFICES ASSUME NEW action \in TraceActions, action = Head(queue), Process(action)
             PROVE  TraceInv'
  BY <1>2
<1>3. action.id \in Ids
  BY DEF TraceActions
<1>4. /\ Start(action.id) => machine' \in Machines /\ machine'.toxics = machine.toxics
                             /\ machine'.frozen = machine.frozen
      /\ Start(action.id) => sup' \in Notes /\ sup'.suspended = sup.suspended
  <2>1. ASSUME Start(action.id)
        PROVE  /\ machine' = [machine EXCEPT !.running = machine.running \cup {action.id}]
               /\ sup' = sup \/ sup' = [sup EXCEPT !.expected = sup.expected \cup {action.id}]
    BY <1>1, <2>1 DEF Start, Machines, Notes
  <2> QED  BY <1>1, <1>3, <2>1, StartedMachine, StartedNotes
<1>5. ASSUME NEW graceful \in BOOLEAN, Stop(action.id, graceful)
      PROVE  /\ machine' \in Machines /\ machine'.toxics = machine.toxics /\ machine'.frozen \subseteq machine.frozen
             /\ sup' \in Notes /\ sup'.suspended = sup.suspended
  <2>1. sup' \in Notes /\ sup'.suspended = sup.suspended
    BY <1>1, <1>5 DEF Stop, Notes
  <2> QED  BY <1>1, <1>3, <1>5, <2>1, StoppedMachine DEF Stop
<1>6. CASE action.op = "start"
  BY <1>1, <1>4, <1>6, FinishStep DEF Process
<1>7. CASE action.op = "restart"
  <2>1. PICK e \in Errors : Finish(e) /\ RestartProcess(action.id) /\ UNCHANGED files
    BY <1>1, <1>7 DEF Process
  <2>2. CASE action.id \in ParticipantIds \ config
    BY <1>5, <2>1, <2>2, FinishStep DEF RestartProcess
  <2>3. CASE action.id \notin ParticipantIds \ config
    <3>1. sup' \in Notes /\ sup'.suspended = sup.suspended
      <4>1. sup' = [sup EXCEPT !.expected = sup.expected \cup {action.id}]
        BY <1>1, <2>1, <2>3 DEF RestartProcess, Notes
      <4> QED  BY <1>1, <1>3, <4>1, StartedNotes
    <3> DEFINE stopped == Stopped(action.id, TRUE)
    <3>2. stopped \in Machines /\ stopped.toxics = machine.toxics /\ stopped.frozen \subseteq machine.frozen
      BY <1>1, <1>3, StoppedMachine
    <3>3. machine' = [stopped EXCEPT !.running = stopped.running \cup {action.id}]
      BY <2>1, <2>3, <3>2 DEF RestartProcess, Machines
    <3> HIDE DEF stopped
    <3>4. machine' \in Machines /\ machine'.toxics = stopped.toxics /\ machine'.frozen = stopped.frozen
      BY <1>3, <3>2, <3>3, StartedMachine
    <3> QED  BY <2>1, <3>1, <3>2, <3>4, FinishStep
  <2> QED  BY <2>2, <2>3
<1>8. CASE action.op \in {"stop", "crash"}
  <2>1. Stop(action.id, action.op = "stop") /\ Finish("none") /\ UNCHANGED files
    BY <1>8 DEF Process
  <2>2. (action.op = "stop") \in BOOLEAN
    OBVIOUS
  <2> QED  BY <1>1, <1>5, <2>1, <2>2, FinishStep
<1>9. CASE action.op = "add"
  BY <1>1, <1>4, <1>9, FinishStep DEF Process
<1>10. CASE action.op = "remove"
  <2>1. Stop(action.id, TRUE) /\ Finish("none") /\ UNCHANGED files
    BY <1>10 DEF Process
  <2> QED  BY <1>1, <1>5, <2>1, FinishStep
<1>11. CASE action.op \in {"create", "modify", "throttle", "wait"}
  <2>1. Finish("none") /\ UNCHANGED <<files, machine, sup>>
    BY <1>11 DEF Process
  <2> QED  BY <1>1, <2>1, FinishStep
<1> QED  BY <1>6, <1>7, <1>8, <1>9, <1>10, <1>11 DEF Process

\* A trace has no steps of scripts.
LEMMA ApplyStep ==
  ASSUME TraceInv, Apply
  PROVE  TraceInv'
<1>1. ex.pc = "next" /\ queue # <<>> /\ UNCHANGED plan
  BY DEF Apply
<1>2. Head(queue) \in TraceActions
  BY SMT, <1>1 DEF TraceInv, TraceTypeOK
<1>3. Head(queue).op \in TraceOps
  BY <1>2 DEF TraceActions
<1>4. ~ScriptStep(Head(queue))
  BY <1>3 DEF TraceOps, ScriptStep, SetFailpoint, AssertNamedFaultHit, ControlEtcdMember
<1> QED  BY <1>1, <1>4, ProcessStep DEF Apply

\* resume_all.
LEMMA Resumed ==
  ASSUME TraceInv, ResumeAll
  PROVE  /\ machine' \in Machines /\ machine'.toxics = machine.toxics /\ machine'.frozen = {}
         /\ sup' \in Notes /\ sup'.suspended = {}
<1>1. machine \in Machines /\ sup \in Notes /\ machine.frozen \subseteq sup.suspended
  BY DEF TraceInv, TraceTypeOK
<1>2. machine' = [machine EXCEPT !.frozen = {}]
  <2>1. machine' = [machine EXCEPT !.frozen = machine.frozen \ sup.suspended]
    BY <1>1 DEF ResumeAll, Machines
  <2>2. machine.frozen \ sup.suspended = {}
    BY <1>1
  <2> QED  BY <2>1, <2>2
<1>3. sup' \in Notes /\ sup'.suspended = {}
  BY SMT, <1>1 DEF ResumeAll, Notes
<1> QED  BY <1>1, <1>2, <1>3 DEF Machines

LEMMA PollStep ==
  ASSUME TraceInv, PollQuiescence
  PROVE  TraceInv'
<1>1. /\ TraceTypeOK /\ ex.pc = "next" /\ queue # <<>> /\ UNCHANGED <<plan, files>> /\ "none" \in Errors
      /\ machine.frozen \subseteq sup.suspended /\ machine \in Machines /\ sup \in Notes /\ ex \in Executions
  BY DEF TraceInv, PollQuiescence, Waiting, TraceTypeOK, Errors
<1>2. CASE Finish("none") /\ UNCHANGED <<machine, sup>>
  BY <1>1, <1>2, FinishStep
<1>3. ASSUME NEW flag \in BOOLEAN,
             ex' = [ex EXCEPT !.quiet = flag] \/ ex' = [ex EXCEPT !.stable = flag], UNCHANGED queue,
             UNCHANGED <<machine, sup>> \/ ResumeAll
      PROVE  TraceInv'
  <2>1. /\ ex' \in Executions /\ ex'.pc = ex.pc /\ ex'.error = ex.error
        /\ ex'.active = ex.active /\ ex'.result = ex.result
    BY <1>1, <1>3 DEF Executions
  <2>2. /\ machine' \in Machines /\ machine'.toxics = machine.toxics
        /\ machine'.frozen \subseteq machine.frozen /\ machine'.frozen \subseteq sup'.suspended
        /\ sup' \in Notes /\ sup'.suspended \subseteq sup.suspended
    BY <1>1, <1>3, Resumed
  <2>3. TraceTypeOK'
    BY <1>1, <1>3, <2>1, <2>2 DEF TraceTypeOK
  <2>4. ex.error = "none" /\ (ex.active # <<>> => queue # <<>> /\ Head(queue).fault = None)
    BY <1>1 DEF TraceInv
  <2> QED  BY <1>1, <1>3, <2>1, <2>2, <2>3, <2>4, Steady
<1> QED  BY <1>2, <1>3 DEF PollQuiescence

\* The waits, and their deadlines.
LEMMA WaitStep ==
  ASSUME TraceInv, QuiescenceTimeout \/ EndWait \/ WaitTimeout
  PROVE  TraceInv'
<1>1. /\ ex.pc = "next" /\ queue # <<>> /\ UNCHANGED <<plan, files, machine, sup>>
      /\ Finish("none") \/ Finish("error")
  BY DEF QuiescenceTimeout, EndWait, WaitTimeout, Waiting
<1>2. "none" \in Errors /\ "error" \in Errors /\ machine \in Machines /\ sup \in Notes
  BY DEF Errors, TraceInv, TraceTypeOK
<1> QED  BY <1>1, <1>2, FinishStep

\* The cluster under test.
LEMMA ClusterUnderTestStep ==
  ASSUME TraceInv, NEW id \in Ids, Register(id) \/ Expire(id) \/ Abort(id)
  PROVE  TraceInv'
<1>1. TraceTypeOK /\ machine \in Machines /\ files \in FileStates /\ UNCHANGED <<plan, queue, sup, ex>>
  BY DEF TraceInv, TraceTypeOK, Register, Expire, Abort
<1>2. PICK run \in SUBSET Ids, s \in {"none", "current", "old"} :
         machine' = [machine EXCEPT !.running = run, !.live = [machine.live EXCEPT ![id] = s]]
  <2>1. machine.running \in SUBSET Ids /\ machine.running \ {id} \in SUBSET Ids
    BY <1>1 DEF Machines
  <2>2. \/ \E s \in {"none", "current", "old"} : machine' = [machine EXCEPT !.live[id] = s]
        \/ \E s \in {"none", "current", "old"} : machine' = [machine EXCEPT !.running = @ \ {id}, !.live[id] = s]
    BY DEF Register, Expire, Abort
  <2>3. \A s \in {"none", "current", "old"} :
          /\ [machine EXCEPT !.live[id] = s] =
               [machine EXCEPT !.running = machine.running, !.live = [machine.live EXCEPT ![id] = s]]
          /\ [machine EXCEPT !.running = @ \ {id}, !.live[id] = s] =
               [machine EXCEPT !.running = machine.running \ {id}, !.live = [machine.live EXCEPT ![id] = s]]
    BY <1>1 DEF Machines
  <2> QED  BY <2>1, <2>2, <2>3
<1>3. [machine.live EXCEPT ![id] = s] \in [Ids -> {"none", "current", "old"}]
  BY <1>1 DEF Machines
<1>4. machine' \in Machines /\ machine'.toxics = machine.toxics /\ machine'.frozen = machine.frozen
  BY <1>1, <1>2, <1>3 DEF Machines
<1>5. files' \in FileStates /\ files'.callback = files.callback /\ files'.failpoint = files.failpoint
  BY <1>1 DEF Register, Expire, Abort, FileStates
<1>6. TraceTypeOK'
  BY <1>1, <1>4, <1>5 DEF TraceTypeOK
<1>7. /\ machine.frozen \subseteq sup.suspended
      /\ ex.pc = "next" => ex.error = "none" /\ (ex.active # <<>> => queue # <<>> /\ Head(queue).fault = None)
  BY DEF TraceInv
<1> QED  BY <1>1, <1>4, <1>5, <1>6, <1>7, Steady

-----------------------------------------------------------------------------
(* Faults.                                                                 *)

\* Without an active fault and without an error, nothing is left on the machine.
LEMMA AtRest ==
  ASSUME TraceInv, ex.pc # "end", ex.error = "none", ex.active = <<>>
  PROVE  Clean /\ sup.suspended = {}
<1>1. Present = None /\ None.kind = "none"
  BY DEF Present, None
<1>2. OnlyPresent /\ machine.frozen \subseteq sup.suspended
  BY DEF TraceInv
<1> QED  BY <1>1, <1>2 DEF OnlyPresent, Clean

LEMMA PathsOfFault ==
  ASSUME ChaosAssumption, NEW fault \in Faults, fault.kind = "network"
  PROVE  /\ Proxies(fault.id) \subseteq Ids \X (1 .. Paths)
         /\ {fault.id} \X (1 .. Paths - 1) \subseteq Ids \X (1 .. Paths)
<1>1. fault.id \in Ids
  BY FaultKinds, SomeIds
<1>2. 1 .. Paths - 1 \subseteq 1 .. Paths
  BY SMT DEF ChaosAssumption
<1> QED  BY <1>1, <1>2 DEF Proxies

\* The fault of the next action has been looked at.
LEMMA LookedAt ==
  ASSUME queue \in Seq(TraceActions), queue # <<>>, queue' = [queue EXCEPT ![1].fault = None]
  PROVE  queue' \in Seq(TraceActions) /\ queue' # <<>> /\ Head(queue').fault = None
<1>1. /\ Len(queue) \in Nat /\ 1 \in 1..Len(queue) /\ queue[1] \in TraceActions
      /\ queue \in [1..Len(queue) -> TraceActions]
  BY SMT
<1>2. [queue[1] EXCEPT !.fault = None] \in TraceActions /\ [queue[1] EXCEPT !.fault = None].fault = None
  BY SMT, <1>1 DEF TraceActions
<1>3. queue' = [queue EXCEPT ![1] = [queue[1] EXCEPT !.fault = None]]
  BY <1>1
<1>4. /\ queue' \in [1..Len(queue) -> TraceActions]
      /\ queue'[1] = [queue[1] EXCEPT !.fault = None]
  BY <1>1, <1>2, <1>3
<1>5. queue' \in Seq(TraceActions) /\ Len(queue') = Len(queue)
  BY SMT, <1>1, <1>4
<1>6. queue' # <<>> /\ Head(queue') = queue'[1]
  BY SMT, <1>1, <1>5
<1> QED  BY <1>2, <1>4, <1>5, <1>6

\* A fault has been pushed on active_faults.
LEMMA Pushed ==
  ASSUME TraceInv, ex.pc = "next", ex.active = <<>>, NEW fault \in Faults, UNCHANGED plan,
         ex' = [ex EXCEPT !.active = Append(@, fault)],
         queue' \in Seq(TraceActions), queue' # <<>>, Head(queue').fault = None,
         machine' \in Machines, sup' \in Notes, files' \in FileStates,
         machine'.toxics \subseteq IF fault.kind = "network" THEN Proxies(fault.id) ELSE {},
         machine'.frozen \subseteq sup'.suspended, fault.kind # "clock" => sup'.suspended = {},
         fault.kind # "callback" => files'.callback = "immediate",
         fault.kind # "failpoint" => files'.failpoint = "off"
  PROVE  TraceInv'
<1>1. TraceTypeOK /\ ex \in Executions /\ ex.error = "none" /\ ex.result = "none"
  <2>1. ex.result = "none" BY DEF TraceInv
  <2> QED  BY <2>1 DEF TraceInv, TraceTypeOK
<1>2. Append(ex.active, fault) = <<fault>>
  BY SMT
<1>3. <<fault>> \in Stacks
  BY DEF Stacks
<1>4. ex' = [ex EXCEPT !.active = <<fault>>]
  BY <1>1, <1>2 DEF Executions
<1>5. /\ ex' \in Executions /\ ex'.pc = "next" /\ ex'.error = "none" /\ ex'.result = "none"
      /\ ex'.active = <<fault>>
  BY <1>1, <1>3, <1>4 DEF Executions
<1>6. TraceTypeOK'
  BY <1>1, <1>5 DEF TraceTypeOK
<1>7. Present' = fault
  <2>1. <<fault>> # <<>> /\ <<fault>>[1] = fault
    BY SMT
  <2> QED  BY <1>5, <2>1 DEF Present
<1>8. OnlyPresent'
  BY <1>7 DEF OnlyPresent, Proxies
<1> QED  BY <1>5, <1>6, <1>8 DEF TraceInv

LEMMA NextFaultStep ==
  ASSUME ChaosAssumption, TraceInv, NextFault
  PROVE  TraceInv'
<1>1. /\ TraceTypeOK /\ machine \in Machines /\ sup \in Notes /\ files \in FileStates
      /\ queue \in Seq(TraceActions) /\ ex \in Executions
      /\ ex.pc = "next" /\ queue # <<>> /\ Head(queue).fault # None /\ UNCHANGED plan
      /\ queue' = [queue EXCEPT ![1].fault = None]
  BY DEF TraceInv, TraceTypeOK, NextFault
<1>2. ex.active = <<>> /\ ex.error = "none"
  BY <1>1 DEF TraceInv
<1>3. /\ machine.toxics = {} /\ machine.frozen = {} /\ files.callback = "immediate" /\ files.failpoint = "off"
      /\ sup.suspended = {}
  BY <1>1, <1>2, AtRest DEF Clean
<1>4. queue' \in Seq(TraceActions) /\ queue' # <<>> /\ Head(queue').fault = None
  BY <1>1, LookedAt
<1>5. PICK fault \in Faults : fault = Head(queue).fault
  <2>1. Head(queue) \in TraceActions
    BY SMT, <1>1
  <2> QED  BY <1>1, <2>1 DEF TraceActions
<1>6. CASE UNCHANGED <<sup, machine, files, ex>>
  <2>1. TraceTypeOK'
    BY <1>1, <1>4, <1>6 DEF TraceTypeOK
  <2> QED  BY <1>1, <1>2, <1>3, <1>4, <1>6, <2>1, Steady
<1>7. ASSUME End("error"), machine' \in Machines, sup' \in Notes, machine'.frozen = {}, UNCHANGED files
      PROVE  TraceInv'
  <2>1. "error" \in Errors
    BY DEF Errors
  <2>2. ex' \in Executions /\ ex'.pc = "end" /\ ex'.result # "ok"
    BY <1>1, <1>7, <2>1 DEF End, Executions
  <2>3. TraceTypeOK'
    BY <1>1, <1>4, <1>7, <2>2 DEF TraceTypeOK
  <2> QED  BY <1>7, <2>2, <2>3, Ends
<1>8. CASE fault.kind = "network" /\ ActivateNetwork(fault) /\ UNCHANGED files
  <2>1. /\ Proxies(fault.id) \subseteq Ids \X (1 .. Paths)
        /\ {fault.id} \X (1 .. Paths - 1) \subseteq Ids \X (1 .. Paths)
    BY <1>8, PathsOfFault
  <2>2. ASSUME NEW toxics \in SUBSET (Ids \X (1 .. Paths)), machine' = [machine EXCEPT !.toxics = @ \union toxics]
        PROVE  machine' \in Machines /\ machine'.toxics = toxics /\ machine'.frozen = {}
    <3>1. machine' = [machine EXCEPT !.toxics = toxics]
      BY <1>1, <1>3, <2>2 DEF Machines
    <3> QED  BY <1>1, <1>3, <3>1 DEF Machines
  <2>3. CASE /\ machine' = [machine EXCEPT !.toxics = @ \union Proxies(fault.id)]
             /\ sup' = [sup EXCEPT !.toxics = @ \union Proxies(fault.id)]
             /\ ex' = [ex EXCEPT !.active = Append(@, fault)]
    <3>1. sup' \in Notes /\ sup'.suspended = {}
      BY <1>1, <1>3, <2>1, <2>3 DEF Notes
    <3>2. machine' \in Machines /\ machine'.toxics = Proxies(fault.id) /\ machine'.frozen = {}
      BY <2>1, <2>2, <2>3
    <3> QED  BY <1>1, <1>2, <1>3, <1>4, <1>8, <2>3, <3>1, <3>2, Pushed
  <2>4. ASSUME NEW left \in SUBSET ({fault.id} \X (1 .. Paths - 1)),
               machine' = [machine EXCEPT !.toxics = @ \union left],
               sup' = [sup EXCEPT !.toxics = @ \ Proxies(fault.id)], End("error")
        PROVE  TraceInv'
    <3>1. sup' \in Notes
      BY <1>1, <2>4 DEF Notes
    <3>2. machine' \in Machines /\ machine'.frozen = {}
      BY <2>1, <2>2, <2>4
    <3> QED  BY <1>7, <1>8, <2>4, <3>1, <3>2
  <2> QED  BY <1>8, <2>3, <2>4 DEF ActivateNetwork
<1>9. CASE fault.kind \in {"member", "compaction"} /\ End("error") /\ UNCHANGED <<sup, machine, files>>
  BY <1>1, <1>3, <1>7, <1>9
<1>10. CASE fault.kind = "clock" /\ Suspend(Node1) /\ ex' = [ex EXCEPT !.active = Append(@, fault)] /\ UNCHANGED files
  <2>1. Node1 \in Ids
    BY SomeIds
  <2>2. CASE Node1 \in machine.running
    <3>1. machine' = [machine EXCEPT !.frozen = {Node1}] /\ sup' = [sup EXCEPT !.suspended = {Node1}]
      <4>1. machine' = [machine EXCEPT !.frozen = {} \cup {Node1}] /\ sup' = [sup EXCEPT !.suspended = {} \cup {Node1}]
        BY <1>1, <1>3, <1>10, <2>2 DEF Suspend, Machines, Notes
      <4> QED  BY <4>1
    <3>2. machine' \in Machines /\ machine'.toxics = {} /\ machine'.frozen = {Node1}
      BY <1>1, <1>3, <2>1, <3>1 DEF Machines
    <3>3. sup' \in Notes /\ sup'.suspended = {Node1}
      BY <1>1, <2>1, <3>1 DEF Notes
    <3> QED  BY <1>1, <1>2, <1>3, <1>4, <1>10, <3>2, <3>3, Pushed
  <2>3. CASE Node1 \notin machine.running
    <3>1. UNCHANGED <<machine, sup>>
      BY <1>10, <2>3 DEF Suspend
    <3> QED  BY <1>1, <1>2, <1>3, <1>4, <1>10, <3>1, Pushed
  <2> QED  BY <2>2, <2>3
<1>11. CASE /\ NeedsHit(fault)
            /\ files' = IF fault.kind = "callback" THEN [files EXCEPT !.callback = fault.mode]
                        ELSE [files EXCEPT !.failpoint = "set"]
            /\ ex' = [ex EXCEPT !.active = Append(@, fault)]
            /\ UNCHANGED <<sup, machine>>
  <2>1. /\ files' \in FileStates
        /\ fault.kind # "callback" => files'.callback = "immediate"
        /\ fault.kind # "failpoint" => files'.failpoint = "off"
    <3>1. CASE fault.kind = "callback"
      <4>1. fault.mode \in Modes
        BY <3>1, FaultKinds
      <4> QED  BY <1>1, <1>3, <1>11, <3>1, <4>1 DEF FileStates
    <3>2. CASE fault.kind = "failpoint"
      BY <1>1, <1>3, <1>11, <3>2 DEF FileStates
    <3> QED  BY <1>11, <3>1, <3>2 DEF NeedsHit
  <2>2. fault.kind # "network" /\ fault.kind # "clock"
    BY <1>11 DEF NeedsHit
  <2> QED  BY <1>1, <1>2, <1>3, <1>4, <1>11, <2>1, <2>2, Pushed
<1>12. Activate(fault) \/ UNCHANGED <<sup, machine, files, ex>>
  BY <1>5 DEF NextFault
<1> QED  BY <1>6, <1>8, <1>9, <1>10, <1>11, <1>12 DEF Activate

\* The last active fault has been popped and undone; "e" is what that gave.
LEMMA PoppedStep ==
  ASSUME TraceInv, ex.pc = "cleanup", NEW e \in Errors, UNCHANGED <<plan, queue>>,
         \/ ex' = [ex EXCEPT !.active = <<>>, !.error = IF @ = "none" THEN e ELSE @]
         \/ ex' = [ex EXCEPT !.active = <<>>, !.pc = "end", !.result = e],
         machine' \in Machines, sup' \in Notes, files' \in FileStates,
         e = "none" /\ ex.error = "none" => machine'.toxics = {},
         machine'.frozen = {}, sup'.suspended = {}, files'.callback = "immediate", files'.failpoint = "off"
  PROVE  TraceInv'
<1>1. TraceTypeOK /\ ex \in Executions /\ ex.result = "none" /\ <<>> \in Stacks /\ ex.error \in Errors
  <2>1. ex.result = "none"
    BY DEF TraceInv
  <2> QED  BY <2>1, Fields DEF TraceInv, TraceTypeOK, Stacks
<1>2. CASE ex' = [ex EXCEPT !.active = <<>>, !.error = IF @ = "none" THEN e ELSE @]
  <2>1. PICK f \in Errors : f = IF ex.error = "none" THEN e ELSE ex.error
    BY <1>1
  <2>2. ex' = [ex EXCEPT !.active = <<>>, !.error = f]
    BY <1>1, <1>2, <2>1 DEF Executions
  <2>3. /\ ex' \in Executions /\ ex'.pc = "cleanup" /\ ex'.active = <<>> /\ ex'.error = f
        /\ ex'.result = "none"
    BY <1>1, <2>2 DEF Executions
  <2>4. TraceTypeOK'
    BY <1>1, <2>3 DEF TraceTypeOK
  <2>5. OnlyPresent'
    <3>1. ex'.error = "none" => machine'.toxics = {}
      BY <2>1, <2>3
    <3> QED  BY <3>1 DEF OnlyPresent
  <2> QED  BY <2>3, <2>4, <2>5 DEF TraceInv
<1>3. CASE ex' = [ex EXCEPT !.active = <<>>, !.pc = "end", !.result = e]
  <2>1. ex' \in Executions /\ ex'.pc = "end" /\ ex'.result = e
    BY <1>1, <1>3 DEF Executions
  <2>2. TraceTypeOK' /\ e # "ok"
    BY <1>1, <2>1 DEF TraceTypeOK, Errors
  <2> QED  BY <2>1, <2>2, Ends
<1> QED  BY <1>2, <1>3

LEMMA CleanupStep ==
  ASSUME ChaosAssumption, TraceInv, Cleanup
  PROVE  TraceInv'
<1>1. /\ TraceTypeOK /\ machine \in Machines /\ sup \in Notes /\ files \in FileStates /\ ex \in Executions
      /\ ex.pc = "cleanup" /\ ex.active # <<>> /\ UNCHANGED <<plan, queue>>
      /\ machine.frozen \subseteq sup.suspended
  BY DEF TraceInv, TraceTypeOK, Cleanup
<1>2. PICK fault \in Faults : ex.active = <<fault>>
  BY <1>1, Fields
<1>3. Latest(ex.active) = fault /\ Earlier(ex.active) = <<>> /\ ex.active[1] = fault
  BY SMT, <1>2 DEF Latest, Earlier
<1>4. Present = fault
  BY <1>1, <1>3 DEF Present
<1>5. /\ ex.error = "none" => machine.toxics \subseteq IF fault.kind = "network" THEN Proxies(fault.id) ELSE {}
      /\ fault.kind # "clock" => sup.suspended = {} /\ machine.frozen = {}
      /\ fault.kind # "callback" => files.callback = "immediate"
      /\ fault.kind # "failpoint" => files.failpoint = "off"
  <2>1. OnlyPresent
    BY <1>1 DEF TraceInv
  <2> QED  BY <1>1, <1>4, <2>1 DEF OnlyPresent
<1> DEFINE Popped(e) == \/ ex' = [ex EXCEPT !.active = <<>>, !.error = IF @ = "none" THEN e ELSE @]
                        \/ ex' = [ex EXCEPT !.active = <<>>, !.pc = "end", !.result = e]
<1>6. \A e : (IF e = "none" \/ ~ex.skip
              THEN ex' = [ex EXCEPT !.active = Earlier(@), !.error = IF @ = "none" THEN e ELSE @]
              ELSE ex' = [ex EXCEPT !.active = Earlier(@), !.pc = "end", !.result = e]) => Popped(e)
  <2>1. \A e : /\ [ex EXCEPT !.active = Earlier(@), !.error = IF @ = "none" THEN e ELSE @]
                    = [ex EXCEPT !.active = <<>>, !.error = IF @ = "none" THEN e ELSE @]
               /\ [ex EXCEPT !.active = Earlier(@), !.pc = "end", !.result = e]
                    = [ex EXCEPT !.active = <<>>, !.pc = "end", !.result = e]
    BY <1>1, <1>3 DEF Executions
  <2> QED  BY <2>1
<1>7. "none" \in Errors /\ "error" \in Errors /\ "unreached" \in Errors
  BY DEF Errors
<1>8. CASE fault.kind = "network"
  <2>1. \/ /\ machine' = [machine EXCEPT !.toxics = @ \ Proxies(fault.id)]
           /\ sup' = [sup EXCEPT !.toxics = @ \ Proxies(fault.id)]
           /\ Popped("none") /\ UNCHANGED files
        \/ /\ \E failed \in 1 .. Paths :
                /\ machine' = [machine EXCEPT !.toxics = @ \ ({fault.id} \X (1 .. failed - 1))]
                /\ sup' = [sup EXCEPT !.toxics = @ \ ({fault.id} \X (1 .. failed))]
           /\ Popped("error") /\ UNCHANGED files
    <3> HIDE DEF Popped
    <3> QED  BY <1>3, <1>6, <1>8 DEF Cleanup
  <2>2. ASSUME NEW P, NEW Q, machine' = [machine EXCEPT !.toxics = @ \ P], sup' = [sup EXCEPT !.toxics = @ \ Q]
        PROVE  /\ machine' \in Machines /\ machine'.toxics = machine.toxics \ P /\ machine'.frozen = {}
               /\ sup' \in Notes /\ sup'.suspended = {}
    <3>1. machine' = [machine EXCEPT !.toxics = machine.toxics \ P] /\ sup' = [sup EXCEPT !.toxics = sup.toxics \ Q]
      BY <1>1, <2>2 DEF Machines, Notes
    <3>2. machine' \in Machines /\ machine'.toxics = machine.toxics \ P /\ machine'.frozen = {}
      BY <1>1, <1>5, <1>8, <3>1 DEF Machines
    <3>3. sup' \in Notes /\ sup'.suspended = {}
      BY <1>1, <1>5, <1>8, <3>1 DEF Notes
    <3> QED  BY <3>2, <3>3
  <2>3. ASSUME machine' = [machine EXCEPT !.toxics = @ \ Proxies(fault.id)],
               sup' = [sup EXCEPT !.toxics = @ \ Proxies(fault.id)], Popped("none"), UNCHANGED files
        PROVE  TraceInv'
    <3>1. ex.error = "none" => machine.toxics \ Proxies(fault.id) = {}
      BY <1>5, <1>8
    <3> QED  BY <1>1, <1>5, <1>7, <1>8, <2>2, <2>3, <3>1, PoppedStep
  <2>4. ASSUME NEW failed \in 1 .. Paths,
               machine' = [machine EXCEPT !.toxics = @ \ ({fault.id} \X (1 .. failed - 1))],
               sup' = [sup EXCEPT !.toxics = @ \ ({fault.id} \X (1 .. failed))], Popped("error"), UNCHANGED files
        PROVE  TraceInv'
    BY <1>1, <1>5, <1>7, <1>8, <2>2, <2>4, PoppedStep
  <2> QED  BY <2>1, <2>3, <2>4
<1>9. CASE fault.kind = "clock"
  <2>1. ResumeAll /\ UNCHANGED files /\ Popped("none")
    <3> HIDE DEF Popped
    <3> QED  BY <1>3, <1>6, <1>9 DEF Cleanup
  <2>2. /\ machine' \in Machines /\ machine'.toxics = machine.toxics /\ machine'.frozen = {}
        /\ sup' \in Notes /\ sup'.suspended = {}
    BY <2>1, Resumed
  <2> QED  BY <1>1, <1>5, <1>7, <1>9, <2>1, <2>2, PoppedStep
<1>10. CASE fault.kind \notin {"network", "clock"}
  <2>1. PICK e \in Errors : Popped(e)
    <3> HIDE DEF Popped
    <3> QED  BY <1>3, <1>6, <1>7, <1>10 DEF Cleanup
  <2>2. /\ files' = IF fault.kind = "callback" THEN [files EXCEPT !.callback = "immediate"]
                    ELSE [files EXCEPT !.failpoint = "off"]
        /\ machine' = Stopped(Node1, FALSE) \/ UNCHANGED machine
        /\ UNCHANGED sup
    BY <1>3, <1>10 DEF Cleanup
  <2>3. machine' \in Machines /\ machine'.toxics = machine.toxics /\ machine'.frozen \subseteq machine.frozen
    BY <1>1, <2>2, SomeIds, StoppedMachine
  <2>4. files' \in FileStates /\ files'.callback = "immediate" /\ files'.failpoint = "off"
    BY <1>1, <1>5, <1>10, <2>2 DEF FileStates
  <2>5. /\ machine'.frozen = {} /\ sup' \in Notes /\ sup'.suspended = {}
        /\ e = "none" /\ ex.error = "none" => machine'.toxics = {}
    BY <1>1, <1>5, <1>10, <2>2, <2>3
  <2> QED  BY <1>1, <2>1, <2>3, <2>4, <2>5, PoppedStep
<1> QED  BY <1>8, <1>9, <1>10

-----------------------------------------------------------------------------
(* The end of an action, and of a trace.                                   *)

LEMMA CheckStep ==
  ASSUME TraceInv, Check
  PROVE  TraceInv'
<1>1. /\ TraceTypeOK /\ ex \in Executions /\ ex.error \in Errors /\ machine.frozen \subseteq sup.suspended
      /\ ex.pc = "cleanup" /\ ex.active = <<>> /\ UNCHANGED <<plan, queue, sup, files, machine>>
  BY Fields DEF TraceInv, TraceTypeOK, Check
<1>2. ASSUME NEW result \in Errors \cup {"violation"}, End(result)
      PROVE  TraceInv'
  <2>1. ex' \in Executions /\ ex'.pc = "end" /\ ex'.result = result
    BY <1>1, <1>2 DEF End, Executions
  <2>2. TraceTypeOK' /\ result # "ok"
    BY <1>1, <2>1 DEF TraceTypeOK, Errors
  <2> QED  BY <1>1, <2>1, <2>2, Ends
<1>3. ASSUME ex.error = "none",
             ex' = [ex EXCEPT !.pc = "next", !.skip = FALSE, !.stable = FALSE, !.quiet = FALSE]
      PROVE  TraceInv'
  <2>1. /\ ex' \in Executions /\ ex'.pc = "next" /\ ex'.active = ex.active /\ ex'.error = "none"
        /\ ex'.result = ex.result
    BY <1>1, <1>3 DEF Executions
  <2>2. TraceTypeOK'
    BY <1>1, <2>1 DEF TraceTypeOK
  <2> QED  BY <1>1, <1>3, <2>1, <2>2, Steady
<1> QED  BY <1>1, <1>2, <1>3 DEF Check

LEMMA CompleteStep ==
  ASSUME TraceInv, Complete
  PROVE  TraceInv'
<1>1. /\ TraceTypeOK /\ ex \in Executions /\ machine.frozen \subseteq sup.suspended
      /\ ex.pc = "next" /\ queue = <<>> /\ UNCHANGED <<plan, queue, sup, files, machine>>
  BY DEF TraceInv, TraceTypeOK, Complete
<1>2. Clean
  <2>1. ex.active = <<>> /\ ex.error = "none"
    BY <1>1 DEF TraceInv
  <2> QED  BY <1>1, <2>1, AtRest
<1>3. ex' \in Executions /\ ex'.pc = "end" /\ ex'.result = "ok"
  BY <1>1 DEF Complete, End, Executions
<1>4. TraceTypeOK' /\ Clean'
  BY <1>1, <1>2, <1>3 DEF TraceTypeOK, Clean
<1> QED  BY <1>1, <1>3, <1>4 DEF TraceInv

LEMMA TraceStart ==
  ASSUME ChaosAssumption, ChaosInit, profile \in Traces
  PROVE  TraceInv
<1>1. queue \in Seq(TraceActions)
  BY PreludeOfActions DEF ChaosInit
<1>2. plan \in [index : Nat, controllers : Nat, participants : Nat] /\ sup \in Notes /\ sup.suspended = {}
  <2>1. plan \in [index : Nat, controllers : Nat, participants : Nat]
    <3>1. plan = [index |-> 0, controllers |-> 0, participants |-> 0]
      BY DEF ChaosInit
    <3> QED  BY SMT, <3>1
  <2>2. sup \in Notes /\ sup.suspended = {}
    BY DEF ChaosInit, Notes
  <2> QED  BY <2>1, <2>2
<1>3. files \in FileStates /\ files.callback = "immediate" /\ files.failpoint = "off"
  BY DEF ChaosInit, FileStates
<1>4. machine \in Machines /\ machine.toxics = {} /\ machine.frozen = {}
  <2>1. PICK faulty \in BOOLEAN :
          machine = [running |-> {}, frozen |-> {}, toxics |-> {}, live |-> [id \in Ids |-> "none"],
                     members |-> 3, faulty |-> faulty]
    BY DEF ChaosInit
  <2>2. [id \in Ids |-> "none"] \in [Ids -> {"none", "current", "old"}] /\ 3 \in Int
    BY SMT
  <2> QED  BY <2>1, <2>2 DEF Machines
<1>5. /\ ex \in Executions /\ ex.pc = "next" /\ ex.active = <<>> /\ ex.error = "none" /\ ex.result = "none"
  <2>1. <<>> \in Stacks /\ "none" \in Errors
    BY DEF Stacks, Errors
  <2> QED  BY <2>1 DEF ChaosInit, Executions
<1>6. TraceTypeOK
  BY <1>1, <1>2, <1>3, <1>4, <1>5 DEF TraceTypeOK
<1>7. OnlyPresent
  BY <1>2, <1>3, <1>4 DEF OnlyPresent
<1> QED  BY <1>2, <1>4, <1>5, <1>6, <1>7 DEF TraceInv

LEMMA TraceStep ==
  ASSUME ChaosAssumption, TraceInv, [ChaosNext]_chaosVars
  PROVE  TraceInv'
<1>1. CASE UNCHANGED chaosVars
  BY <1>1 DEF chaosVars, TraceInv, TraceTypeOK, OnlyPresent, Present, Proxies, Clean
<1>2. CASE ChaosNext
  BY <1>2, GenerateStep, NextFaultStep, RejectStep, ApplyStep, PollStep, WaitStep, CleanupStep, CheckStep,
     CompleteStep, ClusterUnderTestStep DEF ChaosNext
<1> QED  BY <1>1, <1>2

LEMMA SameProfile ==
  ASSUME [ChaosNext]_chaosVars
  PROVE  profile' = profile
  BY DEF ChaosNext, chaosVars, Generate, NextFault, RejectAction, Apply, PollQuiescence, QuiescenceTimeout,
         EndWait, WaitTimeout, Cleanup, Check, Complete, Register, Expire, Abort

\* execute_trace: an action has one fault at most, the fault that precedes it is looked at
\* before the action, and what is on the machine is what the active fault put there.
THEOREM ChaosInvariant ==
  ASSUME ChaosAssumption
  PROVE  ChaosSpec => []ChaosInv
<1>1. ChaosInit => ChaosInv
  BY TraceStart DEF ChaosInit, ChaosInv
<1>2. ChaosInv /\ [ChaosNext]_chaosVars => ChaosInv'
  BY TraceStep, SameProfile DEF ChaosInv
<1> QED  BY <1>1, <1>2, PTL DEF ChaosSpec

\* execute_trace cleans up after every action: whenever it turns to the next action, and
\* when a trace ends well, there is no toxic on a proxy, no frozen process, no callback
\* mode and no failpoint, for any number of steps, of processes and of proxies, and
\* whichever toxiproxy and etcd commands fail.
THEOREM FaultsScoped ==
  ASSUME ChaosAssumption
  PROVE  ChaosSpec => []FaultsAreScoped
<1>1. ChaosInv => FaultsAreScoped
  <2> SUFFICES ASSUME ChaosInv, profile \in Traces, ex.result = "ok" \/ (ex.pc = "next" /\ ex.active = <<>>)
               PROVE  Clean
    BY DEF FaultsAreScoped, Clean
  <2>1. TraceInv
    BY DEF ChaosInv
  <2>2. ex.pc = "next" => ex.error = "none"
    BY <2>1 DEF TraceInv
  <2> QED  BY <2>1, <2>2, AtRest DEF TraceInv
<1> QED  BY <1>1, ChaosInvariant, PTL
=============================================================================
