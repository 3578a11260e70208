--------------------------- MODULE MCControlPlane ---------------------------
EXTENDS Oracle, TLC

CONSTANTS n1, n2, p1, p2, c1, c2, q1, q2, q3

\* Resource records: SEMI_AUTO ones by their lists, CRUSH over the live set.
\* The resource of "gone" keeps a partition that is not modelled.
MCPreferenceLists(r, C, L) ==
  [p \in Partitions |->
     CASE r = "both"   -> <<n1, n2>>
       [] r = "second" -> <<n2>>
       [] r = "gone"   -> NoList
       [] r = "crush"  -> IF n1 \in L THEN <<n1>> ELSE IF n2 \in L THEN <<n2>> ELSE <<>>]

\* One process for each instance; a second one for n1 where a run has it.
MCProcInstance == [q \in Procs |-> IF q = q2 THEN n2 ELSE n1]

\* The converged cluster: n1 leads, n2 stands by, c1 has published the view.
\* The revisions are those of the shortest run from Init that leads here, and
\* `elsewhere` more that other namespaces have used since; `spent` changes of
\* the configuration are no longer to be expected.
SteadyCurrent == (n1 :> "LEADER") @@ (n2 :> "STANDBY")

SteadyInit(elsewhere, spent) ==
  /\ rev = 9 + elsewhere /\ marker = 8 /\ deleted = 0
  /\ sequence = 2
  /\ live = (n1 :> 1) @@ (n2 :> 2)
  /\ registered = [s \in Sessions |-> CASE s = 1 -> n1 [] s = 2 -> n2 [] OTHER -> ABSENT]
  /\ current = [s \in Sessions |-> IF s > 2 THEN NoReplicas
                                   ELSE [p \in Partitions |-> SteadyCurrent[registered[s]]]]
  /\ configured = InitConfigured /\ placement = InitPlacement
  /\ queue = {} /\ queueRev = 9 /\ processed = 8
  /\ view = [p \in Partitions |-> SteadyCurrent]
  /\ active = [controller |-> c1, lease |-> 1]
  /\ ctl = [c \in Controllers |-> IF c = c1
              THEN [Standby EXCEPT !.pc = "idle", !.lease = 1, !.mode = "Normal",
                                  !.known = live, !.since = 3]
              ELSE Standby]
  /\ leases = 1 /\ delayed = {} /\ publisher = 1
  /\ proc = [q \in Procs |-> IF q = q3 THEN [Down EXCEPT !.pc = "waiting"]
                ELSE [Down EXCEPT !.pc = "running", !.session = live[ProcInstance[q]]]]
  /\ image = [q \in Procs |-> {}]
  /\ worker = [q \in Procs |-> NoWorkers]
  /\ faults = 0 /\ changes = spent

\* A cluster that starts up, in an etcd whose revisions other namespaces have used up to
\* BootRevision: n1 is configured and has registered, c1 has won its first term.
BootRevision == MaxRevision - 4

BootInit ==
  /\ rev = BootRevision /\ marker = BootRevision /\ deleted = 0
  /\ sequence = 1
  /\ live = (n1 :> 1) @@ (n2 :> 0)
  /\ registered = [s \in Sessions |-> IF s = 1 THEN n1 ELSE ABSENT]
  /\ current = [s \in Sessions |-> NoReplicas]
  /\ configured = {n1} /\ placement = InitPlacement
  /\ queue = {} /\ queueRev = 0 /\ processed = 0
  /\ view = NoView
  /\ active = [controller |-> c1, lease |-> 1]
  /\ ctl = [c \in Controllers |-> IF c = c1 THEN [Standby EXCEPT !.pc = "idle", !.lease = 1]
                                            ELSE Standby]
  /\ leases = 1 /\ delayed = {} /\ publisher = 0
  /\ proc = [q \in Procs |-> IF q = q1 THEN [Down EXCEPT !.pc = "running", !.session = 1]
                             ELSE [Down EXCEPT !.pc = "waiting"]]
  /\ image = [q \in Procs |-> {}]
  /\ worker = [q \in Procs |-> NoWorkers]

\* The starting cluster meets changes of its configuration, the running one faults.
BootOrSteadyInit ==
  \/ BootInit /\ faults = MaxFaults /\ changes = 0
  \/ SteadyInit(0, MaxChanges)

BootOrSteadySpec == BootOrSteadyInit /\ [][Next]_vars

SteadySpec == SteadyInit(0, 0) /\ [][Next]_vars

\* A running cluster that meets faults only, or changes too with a revision less to go.
FaultsOrBothSpec == (SteadyInit(0, MaxChanges) \/ SteadyInit(1, 0)) /\ [][Next]_vars

SteadyFairSpec == SteadySpec /\ Fairness

\* One fault costs a bounded number of writes, sessions and terms: controller
\* and participants do not keep answering each other's writes with new ones.
\* (The bounds are never reached, so they do not cut a behaviour short.)
BoundedChurn == rev < MaxRevision /\ sequence < MaxSession /\ leases < MaxLease
=============================================================================
