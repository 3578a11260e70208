------------------------------- MODULE Election -------------------------------
(***************************************************************************)
(* Controller election over etcd leases.  A candidate is granted a lease,  *)
(* registers its candidate key under it, waits until no older candidate    *)
(* key is left and then takes the active key.  Both keys go with the       *)
(* lease.  The answer of any call may be lost, and a transaction for the   *)
(* active key whose answer was lost may be applied later.                  *)
(***************************************************************************)
EXTENDS Naturals

CONSTANTS
  Controllers,
  NoLease,
  FaultKinds,   \* the faults a run admits, of the kinds below
  MaxFaults,    \* bound on the faults of one behaviour
  MaxLease      \* bound on the leases of a controller that reach a key

ASSUME ElectionAssumption == MaxFaults \in Nat /\ MaxLease \in Nat

\* A lease id is never granted twice.  One that never reached a key has left
\* no trace, so the model hands out its number again.
Leases == [owner : Controllers, number : 1..MaxLease]

ASSUME NoLeaseAssumption == NoLease \notin Leases

VARIABLES
  alive,      \* the leases etcd holds
  count,      \* the leases of each controller that have reached a key
  clock,      \* the last create revision of a candidate key
  candidate,  \* candidate keys: lease and create revision
  active,     \* the lease of the active key, NoLease if absent
  last,       \* history: the last lease to take the active key
  past,       \* history: the leases that have been succeeded
  ctl,        \* the campaign of each controller process
  sent,       \* active-key transactions under way, their answer lost
  faults      \* faults so far

keyVars == <<alive, count, clock, candidate, active, last, past>>
vars == <<keyVars, ctl, sent, faults>>

NoCandidate == [lease |-> NoLease, created |-> 0]

Candidates == [lease : Leases \cup {NoLease}, created : Nat]

\* The states of acquire_until, the leader's run and relinquish.
Campaigns ==
  [ pc : {"grant", "register", "campaign", "take", "leading",
          "dropCandidate", "dropActive", "revoke", "down"},
    lease : Leases \cup {NoLease},
    seen : Nat,       \* create revision of the own candidate key, as read
    lost : BOOLEAN ]  \* the keepalive task has given up

Campaign(pc, lease) == [pc |-> pc, lease |-> lease, seen |-> 0, lost |-> FALSE]

Idle == Campaign("grant", NoLease)

Down == Campaign("down", NoLease)

TypeOK ==
  /\ alive \subseteq Leases /\ count \in [Controllers -> Nat] /\ clock \in Nat
  /\ candidate \in [Controllers -> Candidates]
  /\ active \in Leases \cup {NoLease} /\ last \in Leases \cup {NoLease} /\ past \subseteq Leases
  /\ ctl \in [Controllers -> Campaigns]
  /\ sent \subseteq [lease : Leases, seen : Nat]
  /\ faults \in Nat

Init ==
  /\ alive = {} /\ count = [c \in Controllers |-> 0] /\ clock = 0
  /\ candidate = [c \in Controllers |-> NoCandidate]
  /\ active = NoLease /\ last = NoLease /\ past = {}
  /\ ctl = [c \in Controllers |-> Idle]
  /\ sent = {} /\ faults = 0

-----------------------------------------------------------------------------
Go(c, state) == ctl' = [ctl EXCEPT ![c] = state]

\* A lease ends, and the keys attached to it disappear.
EndLease(l) ==
  /\ alive' = alive \ {l}
  /\ candidate' = [c \in Controllers |->
                     IF candidate[c].lease = l THEN NoCandidate ELSE candidate[c]]
  /\ active' = IF active = l THEN NoLease ELSE active
  /\ UNCHANGED <<count, clock, last, past>>

Grant(c) ==
  LET l == [owner |-> c, number |-> count[c] + 1]
  IN /\ ctl[c].pc = "grant"
     /\ count[c] < MaxLease
     /\ alive' = alive \cup {l}
     /\ Go(c, Campaign("register", l))
     /\ UNCHANGED <<count, clock, candidate, active, last, past, sent>>

\* etcd refuses a put under a lease that has ended.
PutCandidate(c) ==
  /\ candidate[c] = NoCandidate
  /\ ctl[c].lease \in alive
  /\ clock' = clock + 1
  /\ candidate' = [candidate EXCEPT ![c] = [lease |-> ctl[c].lease, created |-> clock']]
  /\ count' = [count EXCEPT ![c] = ctl[c].lease.number]
  /\ UNCHANGED <<alive, active, last, past>>

\* The candidate transaction.  An existing key, of an earlier lease or of an
\* attempt whose answer was lost, makes the process start over with a new
\* lease.  The error for a lease that has ended counts as transient: the
\* same transaction is tried again.
Register(c) ==
  /\ ctl[c].pc = "register"
  /\ \/ /\ PutCandidate(c)
        /\ Go(c, [ctl[c] EXCEPT !.pc = "campaign"])
     \/ /\ candidate[c] # NoCandidate
        /\ EndLease(ctl[c].lease)
        /\ Go(c, Idle)
  /\ UNCHANGED sent

\* Mutant: the age of the candidate keys does not matter.
NoPredecessor(c, d) == FALSE

\* Mutant: a candidate is its own predecessor.
NotYounger(c, d) == candidate[d].created <= candidate[c].created

Predecessor(c, d) == candidate[d].created < candidate[c].created

\* One read of the candidate keys.  The key is found by its name, whatever
\* lease it has.
Look(c) ==
  LET older == {d \in Controllers : candidate[d] # NoCandidate /\ Predecessor(c, d)}
  IN /\ ctl[c].pc = "campaign"
     /\ \/ /\ ctl[c].lost \/ candidate[c] = NoCandidate
           /\ Go(c, Idle)
        \/ /\ ~ctl[c].lost /\ candidate[c] # NoCandidate
           /\ older = {}
           /\ Go(c, [ctl[c] EXCEPT !.pc = "take", !.seen = candidate[c].created])
     /\ UNCHANGED <<keyVars, sent>>

\* Mutant: the candidate key is not compared.
MayTakeIfFree(l, seen) == active = NoLease /\ l \in alive

\* The compares of the active-key transaction.
MayTake(l, seen) ==
  /\ active = NoLease
  /\ candidate[l.owner].lease = l
  /\ candidate[l.owner].created = seen

PutActive(l) ==
  /\ active' = l
  /\ last' = l
  /\ past' = past \cup ({last} \ {l, NoLease})
  /\ UNCHANGED <<alive, count, clock, candidate>>

Take(c) ==
  /\ ctl[c].pc = "take"
  /\ \/ /\ MayTake(ctl[c].lease, ctl[c].seen)
        /\ PutActive(ctl[c].lease)
        /\ Go(c, [ctl[c] EXCEPT !.pc = "leading", !.seen = 0])
     \/ /\ ~MayTake(ctl[c].lease, ctl[c].seen)
        /\ Go(c, [ctl[c] EXCEPT !.pc = "campaign", !.seen = 0])
        /\ UNCHANGED keyVars
  /\ UNCHANGED sent

\* The reconciler returns LeadershipLost; the lease is left to expire.
LoseLeadership(c) ==
  /\ ctl[c].pc = "leading" /\ ctl[c].lost
  /\ Go(c, Idle)
  /\ UNCHANGED <<keyVars, sent>>

\* The keepalive answer says that the lease has ended.
KeepaliveEnds(c) ==
  /\ ctl[c].pc \in {"campaign", "take", "leading"}
  /\ ~ctl[c].lost /\ ctl[c].lease \notin alive
  /\ Go(c, [ctl[c] EXCEPT !.lost = TRUE])
  /\ UNCHANGED <<keyVars, sent>>

-----------------------------------------------------------------------------
(* relinquish: candidate key, active key, lease, in this order.            *)

DropCandidate(c) ==
  /\ ctl[c].pc = "dropCandidate"
  /\ candidate' = [candidate EXCEPT ![c] = IF @.lease = ctl[c].lease THEN NoCandidate ELSE @]
  /\ Go(c, [ctl[c] EXCEPT !.pc = "dropActive"])
  /\ UNCHANGED <<alive, count, clock, active, last, past, sent>>

\* Mutant: whoever holds the key.
DropAnyActive(c) ==
  /\ ctl[c].pc = "dropActive"
  /\ active' = NoLease
  /\ Go(c, [ctl[c] EXCEPT !.pc = "revoke"])
  /\ UNCHANGED <<alive, count, clock, candidate, last, past, sent>>

DropActive(c) ==
  /\ ctl[c].pc = "dropActive"
  /\ active' = IF active = ctl[c].lease THEN NoLease ELSE active
  /\ Go(c, [ctl[c] EXCEPT !.pc = "revoke"])
  /\ UNCHANGED <<alive, count, clock, candidate, last, past, sent>>

Revoke(c) ==
  /\ ctl[c].pc = "revoke"
  /\ EndLease(ctl[c].lease)
  /\ Go(c, Down)
  /\ UNCHANGED sent

\* A supervisor starts the process again.
Restart(c) ==
  /\ ctl[c].pc = "down"
  /\ Go(c, Idle)
  /\ UNCHANGED <<keyVars, sent>>

\* etcd expires a lease that no process renews or is about to renew.
InUse(l) ==
  \E c \in Controllers : /\ ctl[c].lease = l /\ ~ctl[c].lost
                         /\ ctl[c].pc \in {"register", "campaign", "take", "leading"}

Expire(l) ==
  /\ l \in alive
  /\ EndLease(l)
  /\ UNCHANGED <<ctl, sent>>

\* A transaction whose answer was lost reaches etcd.
Arrive(r) ==
  /\ r \in sent
  /\ sent' = sent \ {r}
  /\ IF MayTake(r.lease, r.seen) THEN PutActive(r.lease) ELSE UNCHANGED keyVars
  /\ UNCHANGED ctl

ControllerStep(c) ==
  \/ Grant(c) \/ Register(c) \/ Look(c) \/ Take(c) \/ LoseLeadership(c) \/ KeepaliveEnds(c)
  \/ DropCandidate(c) \/ DropActive(c) \/ Revoke(c) \/ Restart(c)

-----------------------------------------------------------------------------
(* Faults.                                                                 *)

\* "answer": a transaction is applied, now or later, and its error leaves the
\* process where it was.
RegisterUnanswered(c) ==
  /\ ctl[c].pc = "register"
  /\ PutCandidate(c)
  /\ UNCHANGED <<ctl, sent>>

TakeUnanswered(c) ==
  /\ ctl[c].pc = "take"
  /\ sent' = sent \cup {[lease |-> ctl[c].lease, seen |-> ctl[c].seen]}
  /\ Go(c, [ctl[c] EXCEPT !.pc = "campaign", !.seen = 0])
  /\ UNCHANGED keyVars

\* "answer": relinquish ignores the errors of its deletions, and the process
\* ends even if the revocation fails.
DropFails(c) ==
  /\ \/ ctl[c].pc = "dropCandidate" /\ Go(c, [ctl[c] EXCEPT !.pc = "dropActive"])
     \/ ctl[c].pc = "dropActive" /\ Go(c, [ctl[c] EXCEPT !.pc = "revoke"])
     \/ ctl[c].pc = "revoke" /\ Go(c, Down)
  /\ UNCHANGED <<keyVars, sent>>

\* "timeout": no keepalive has succeeded for a lease time.
KeepaliveTimeout(c) ==
  /\ ctl[c].pc \in {"campaign", "take", "leading"} /\ ~ctl[c].lost
  /\ Go(c, [ctl[c] EXCEPT !.lost = TRUE])
  /\ UNCHANGED <<keyVars, sent>>

\* "shutdown": a leader relinquishes, as it does when its run fails; a
\* candidate revokes its lease.
Shutdown(c) ==
  /\ \/ /\ ctl[c].pc = "leading"
        /\ Go(c, [ctl[c] EXCEPT !.pc = "dropCandidate"])
        /\ UNCHANGED keyVars
     \/ /\ ctl[c].pc \in {"grant", "register", "campaign"}
        /\ EndLease(ctl[c].lease)
        /\ Go(c, Down)
  /\ UNCHANGED sent

\* "crash"
Crash(c) ==
  /\ ctl[c].pc # "down"
  /\ Go(c, Down)
  /\ UNCHANGED <<keyVars, sent>>

\* "expiry": the lease of a campaigning or leading process.  "slow": the lease
\* of a process that has not registered yet.
ExpireInUse(c) ==
  /\ \/ "expiry" \in FaultKinds /\ ctl[c].pc \in {"campaign", "take", "leading"}
     \/ "slow" \in FaultKinds /\ ctl[c].pc = "register"
  /\ Expire(ctl[c].lease)

ControllerFault(c) ==
  \/ "answer" \in FaultKinds /\ (RegisterUnanswered(c) \/ TakeUnanswered(c) \/ DropFails(c))
  \/ "timeout" \in FaultKinds /\ KeepaliveTimeout(c)
  \/ "shutdown" \in FaultKinds /\ Shutdown(c)
  \/ "crash" \in FaultKinds /\ Crash(c)
  \/ ExpireInUse(c)

SystemStep ==
  \/ \E c \in Controllers : ControllerStep(c)
  \/ \E l \in alive : ~InUse(l) /\ Expire(l)
  \/ \E r \in sent : Arrive(r)

Next ==
  \/ SystemStep /\ UNCHANGED faults
  \/ (\E c \in Controllers : ControllerFault(c)) /\ faults < MaxFaults /\ faults' = faults + 1

Spec == Init /\ [][Next]_vars

\* Every process is scheduled, and etcd expires what nobody renews.
Fairness ==
  /\ \A c \in Controllers : WF_vars(ControllerStep(c) /\ UNCHANGED faults)
  /\ WF_vars((\E l \in alive : ~InUse(l) /\ Expire(l)) /\ UNCHANGED faults)

FairSpec == Spec /\ Fairness

-----------------------------------------------------------------------------
\* The runtime's lock (see ControllerLock).
Lock == INSTANCE ControllerLock
          WITH Terms <- Leases, NoTerm <- NoLease, holder <- active

LockSpec == Lock!LockSpec

\* Authority lasts as long as the lease: until etcd ends it, no process takes
\* the active key from a leader, and no relinquishing predecessor deletes it.
AuthorityFollowsLease ==
  \A c \in Controllers :
    ctl[c].pc = "leading" /\ ctl[c].lease \in alive => active = ctl[c].lease

\* Acquisition is first come, first served, although the candidates are read
\* before the active key is taken: the winner's candidate key is the oldest.
FirstComeFirstServed ==
  [][active' # active /\ active' # NoLease =>
       \A c \in Controllers : candidate[c] # NoCandidate =>
         candidate[active'.owner].created <= candidate[c].created]_vars

\* A leader that holds the active key and knows it.
Leads(c) == ctl[c].pc = "leading" /\ ~ctl[c].lost /\ active = ctl[c].lease

\* The two ways a candidate waits in vain: for the key it owns, its answer lost, and
\* so does everyone behind it; and, while it holds up nobody, for a key under a lease
\* that has ended.
OwnsUnawares(c) == ctl[c].pc \in {"campaign", "take"} /\ active = ctl[c].lease
RegistersInVain(c) == ctl[c].pc = "register" /\ ctl[c].lease \notin alive

\* Once faults stop, a leader emerges and stays, whatever leases, keys and
\* transactions the faults have left behind; nothing stands in the way but a candidate
\* that owns the key unawares, and no controller is left if all register in vain
\* (acquire_until, spawn_keepalive, relinquish).
LeaderEmerges ==
  <>[](\/ \E c \in Controllers : Leads(c) \/ OwnsUnawares(c)
       \/ \A c \in Controllers : RegistersInVain(c))

\* "Wait until this candidate owns the active controller lease": a candidate
\* that owns it stops waiting.
OwnerStopsWaiting ==
  \A c \in Controllers :
    LET Waiting == ctl[c].pc \in {"campaign", "take"} /\ active = ctl[c].lease
    IN Waiting ~> ~Waiting

\* "Whether retrying the operation may succeed": a candidate transaction that
\* is retried succeeds or is given up.
RegistrationEnds ==
  \A c \in Controllers : ctl[c].pc = "register" ~> ctl[c].pc # "register"

=============================================================================
