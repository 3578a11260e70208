---------------------------- MODULE ElectionProofs ----------------------------
(***************************************************************************)
(* The election is safe for every number of controllers, leases and        *)
(* faults.                                                                 *)
(***************************************************************************)
EXTENDS Election, TLAPS

\* A leaf goes to Zenon; one that needs arithmetic, or the theory of functions
\* and records, cites SMT.
USE ZenonT(60)

Oldest(c) ==
  \A d \in Controllers :
    candidate[d] # NoCandidate => candidate[c].created <= candidate[d].created

\* A candidate key hangs on a living lease of its own controller.
KeysOK ==
  \A c \in Controllers : candidate[c] # NoCandidate =>
    /\ candidate[c].lease \in alive
    /\ candidate[c].lease.owner = c
    /\ candidate[c].lease.number <= count[c]
    /\ candidate[c].created \in 1..clock

AgesDiffer ==
  \A c, d \in Controllers :
    candidate[c] # NoCandidate /\ candidate[d] # NoCandidate
      /\ candidate[c].created = candidate[d].created => c = d

\* A process works with a lease of its own, and a lease that is not yet
\* registered has not been used for anything.
LeasesOK ==
  \A c \in Controllers :
    /\ ctl[c].pc \notin {"grant", "down"} => ctl[c].lease \in Leases /\ ctl[c].lease.owner = c
    /\ ctl[c].pc \notin {"grant", "down", "register"} => ctl[c].lease.number <= count[c]
    /\ ctl[c].pc \in {"grant", "down"} => ctl[c].lease = NoLease
    /\ ctl[c].pc = "register" =>
         /\ ctl[c].lease.number \in {count[c], count[c] + 1}
         /\ ctl[c].lease \notin past \cup {last}
         /\ \A r \in sent : r.lease # ctl[c].lease

UsedOK ==
  /\ \A l \in past : l.number <= count[l.owner]
  /\ last # NoLease => last.number <= count[last.owner]
  /\ \A r \in sent : r.lease.number <= count[r.lease.owner]

ActiveOK == active # NoLease => active \in alive /\ active = last

\* A transaction for the active key that can still succeed is one of the
\* oldest candidate, however long ago the candidates were read.
Winner(l, seen) ==
  /\ seen <= clock
  /\ candidate[l.owner].lease = l /\ candidate[l.owner].created = seen => Oldest(l.owner)

RequestsOK ==
  /\ \A c \in Controllers : ctl[c].pc = "take" => Winner(ctl[c].lease, ctl[c].seen)
  /\ \A r \in sent : Winner(r.lease, r.seen)

\* The candidate key of a succeeded lease is gone, and the one of the last
\* holder is still the oldest.
SuccessionOK ==
  \A c \in Controllers : candidate[c] # NoCandidate =>
    /\ candidate[c].lease \notin past
    /\ candidate[c].lease = last => Oldest(c)

ElectionInv ==
  /\ TypeOK /\ KeysOK /\ AgesDiffer /\ LeasesOK /\ UsedOK
  /\ ActiveOK /\ RequestsOK /\ SuccessionOK /\ AuthorityFollowsLease

\* Every initial state satisfies the invariant.
THEOREM ElectionInit == Init => ElectionInv
<1> SUFFICES ASSUME Init PROVE ElectionInv
  OBVIOUS
<1> USE DEF Init
<1>1. TypeOK
  BY NoLeaseAssumption DEF TypeOK, Idle, Campaign, NoCandidate, Candidates, Campaigns
<1>2. KeysOK /\ AgesDiffer /\ UsedOK /\ ActiveOK /\ SuccessionOK
  BY DEF KeysOK, AgesDiffer, UsedOK, ActiveOK, SuccessionOK
<1>3. LeasesOK /\ RequestsOK /\ AuthorityFollowsLease
  BY DEF LeasesOK, RequestsOK, AuthorityFollowsLease, Idle, Campaign
<1> QED
  BY <1>1, <1>2, <1>3 DEF ElectionInv

-----------------------------------------------------------------------------
(* The ways a step changes the keys, each with what the processes do.      *)

\* A process keeps its lease and does not advance to a claim, or lets go.
Retreats(c, s) ==
  \/ s \in {Idle, Down}
  \/ /\ s \in Campaigns /\ s.lease = ctl[c].lease
     /\ ctl[c].pc \notin {"grant", "down", "register"}
     /\ s.pc \notin {"grant", "down", "register"}
     /\ s.pc \in {"take", "leading"} => s.pc = ctl[c].pc /\ s.seen = ctl[c].seen

\* The states of a process without a lease.
LEMMA RestTypes == Idle \in Campaigns /\ Down \in Campaigns
  BY DEF Idle, Down, Campaign, Campaigns

\* A retreat preserves what is known of the processes.
LEMMA RetreatStep ==
  ASSUME ElectionInv, NEW c \in Controllers, NEW s, Retreats(c, s), Go(c, s),
         UNCHANGED <<keyVars, sent, candidate>>, faults' \in Nat
  PROVE  ElectionInv'
<1> USE DEF ElectionInv
<1>a. ctl' = [ctl EXCEPT ![c] = s] /\ s \in Campaigns
  BY RestTypes DEF Retreats, Go
<1>b. UNCHANGED <<alive, count, clock, candidate, active, last, past, sent>>
  BY DEF keyVars
<1>1. /\ ctl' = [ctl EXCEPT ![c] = s] /\ s \in Campaigns
      /\ UNCHANGED <<alive, count, clock, candidate, active, last, past, sent>>
  BY <1>a, <1>b
<1>2. TypeOK'
  BY <1>1 DEF TypeOK
<1>3. (KeysOK /\ AgesDiffer /\ UsedOK /\ ActiveOK /\ SuccessionOK)'
  BY <1>1 DEF KeysOK, AgesDiffer, UsedOK, ActiveOK, SuccessionOK, Oldest
<1>4. LeasesOK'
  BY SMTT(30), <1>1 DEF LeasesOK, TypeOK, Retreats, Idle, Down, Campaign
<1>5. RequestsOK'
  BY SMT, <1>1 DEF RequestsOK, Winner, Oldest, TypeOK, Retreats, Idle, Down, Campaign
<1>6. AuthorityFollowsLease'
  BY SMT, <1>1 DEF AuthorityFollowsLease, TypeOK, Retreats, Idle, Down, Campaign
<1> QED
  BY <1>2, <1>3, <1>4, <1>5, <1>6

\* The end of a lease preserves the invariant, whoever notices it.
LEMMA EndLeaseStep ==
  ASSUME ElectionInv, NEW l, EndLease(l), ctl' \in [Controllers -> Campaigns],
         \A c \in Controllers : ctl'[c] = ctl[c] \/ ctl'[c] \in {Idle, Down},
         sent' = sent, faults' \in Nat
  PROVE  ElectionInv'
<1> USE DEF ElectionInv
<1>1. /\ alive' = alive \ {l}
      /\ active' \in {active, NoLease} /\ (active = l => active' = NoLease)
      /\ (active # l => active' = active)
      /\ UNCHANGED <<count, clock, last, past>>
  BY DEF EndLease
<1>2. /\ candidate' \in [Controllers -> Candidates]
      /\ \A c \in Controllers : /\ candidate'[c] \in {candidate[c], NoCandidate}
                                /\ candidate[c].lease = l => candidate'[c] = NoCandidate
  BY DEF EndLease, TypeOK, NoCandidate, Candidates
<1>3. TypeOK'
  BY <1>1, <1>2 DEF TypeOK
<1>4. (KeysOK /\ AgesDiffer /\ UsedOK)'
  BY <1>1, <1>2 DEF KeysOK, AgesDiffer, UsedOK, TypeOK
<1>5. (ActiveOK /\ SuccessionOK)'
  BY <1>1, <1>2 DEF ActiveOK, SuccessionOK, Oldest, TypeOK
<1>6. LeasesOK'
  BY SMT, <1>1 DEF LeasesOK, Idle, Down, Campaign
<1>7. ASSUME NEW k \in Leases \cup {NoLease}, NEW seen \in Nat, k.owner \in Controllers, Winner(k, seen)
      PROVE  Winner(k, seen)'
  <2>1. CASE candidate'[k.owner] = candidate[k.owner]
    BY <1>1, <1>2, <1>7, <2>1 DEF Winner, Oldest
  <2>2. CASE candidate'[k.owner] = NoCandidate
    BY SMT, <1>1, <1>2, <1>7, <2>2 DEF Winner, Oldest, NoCandidate, TypeOK, Candidates
  <2> QED
    BY <1>2, <1>7, <2>1, <2>2
<1>8. RequestsOK'
  BY SMT, <1>7 DEF RequestsOK, TypeOK, Leases, LeasesOK, Idle, Down, Campaign, Campaigns
<1>9. AuthorityFollowsLease'
  BY SMT, <1>1 DEF AuthorityFollowsLease, Idle, Down, Campaign
<1> QED
  BY <1>3, <1>4, <1>5, <1>6, <1>8, <1>9

\* A registration gives the youngest candidate key to an unused lease.
LEMMA PutCandidateStep ==
  ASSUME ElectionInv, NEW c \in Controllers, ctl[c].pc = "register", PutCandidate(c),
         \/ ctl' = ctl
         \/ Go(c, [ctl[c] EXCEPT !.pc = "campaign"]),
         sent' = sent, faults' \in Nat
  PROVE  ElectionInv'
<1> USE DEF ElectionInv
<1> DEFINE l == ctl[c].lease
           key == [lease |-> l, created |-> clock + 1]
<1>1. /\ l \in Leases /\ l.owner = c /\ l \in alive /\ l \notin past \cup {last}
      /\ l.number \in Nat /\ count[c] \in Nat /\ clock \in Nat /\ count[c] <= l.number
      /\ candidate[c] = NoCandidate
      /\ \A r \in sent : r.lease # l
  BY SMT DEF LeasesOK, TypeOK, PutCandidate, Leases
<1>2. /\ key \in Candidates /\ key # NoCandidate /\ key.lease = l /\ key.created = clock + 1
      /\ candidate' = [candidate EXCEPT ![c] = key]
      /\ clock' = clock + 1 /\ count' = [count EXCEPT ![c] = l.number]
      /\ UNCHANGED <<alive, active, last, past>>
  BY SMT, <1>1 DEF PutCandidate, Candidates, NoCandidate
<1>3. /\ ctl' \in [Controllers -> Campaigns]
      /\ \A d \in Controllers : d # c => ctl'[d] = ctl[d]
      /\ ctl'[c].pc \in {"register", "campaign"} /\ ctl'[c].lease = l
  BY SMT DEF TypeOK, Go, Campaigns
<1> HIDE DEF l, key
<1>a. candidate' \in [Controllers -> Candidates]
  BY <1>2 DEF TypeOK
<1>b. count' \in [Controllers -> Nat]
  BY <1>1, <1>2 DEF TypeOK
<1>4. TypeOK'
  BY SMT, <1>1, <1>2, <1>3, <1>a, <1>b DEF TypeOK
<1>5. \A k \in Leases : count[k.owner] \in Nat /\ count[k.owner] <= count'[k.owner]
  BY SMT, <1>1, <1>2 DEF TypeOK, Leases
<1>6. KeysOK'
  <2> SUFFICES ASSUME NEW d \in Controllers, candidate'[d] # NoCandidate
               PROVE  /\ candidate'[d].lease \in alive /\ candidate'[d].lease.owner = d
                      /\ candidate'[d].lease.number <= count'[d]
                      /\ candidate'[d].created \in 1..clock'
    BY <1>2 DEF KeysOK
  <2>1. CASE d = c
    BY SMT, <1>1, <1>2, <2>1 DEF TypeOK
  <2>2. CASE d # c
    BY SMT, <1>1, <1>2, <2>2 DEF KeysOK, TypeOK
  <2> QED
    BY <2>1, <2>2
<1>7. AgesDiffer'
  BY SMT, <1>1, <1>2 DEF AgesDiffer, KeysOK, TypeOK
<1>8. UsedOK'
  <2>1. ASSUME NEW k \in Leases, k.number <= count[k.owner]
        PROVE  k.number <= count'[k.owner]
    BY SMT, <1>5, <2>1, <1>4 DEF TypeOK, Leases
  <2> QED
    BY <1>2, <2>1 DEF UsedOK, TypeOK
<1>9. (ActiveOK /\ AuthorityFollowsLease)'
  BY <1>2, <1>3 DEF ActiveOK, AuthorityFollowsLease
<1>10. LeasesOK'
  BY SMT, <1>1, <1>2, <1>3 DEF LeasesOK, TypeOK
<1>11. ASSUME NEW d \in Controllers, candidate[d] # NoCandidate, Oldest(d)
       PROVE  Oldest(d)' /\ candidate'[d] = candidate[d]
  BY SMT, <1>1, <1>2, <1>11 DEF Oldest, KeysOK, TypeOK
<1>12. ASSUME NEW k \in Leases, NEW seen \in Nat, Winner(k, seen)
       PROVE  Winner(k, seen)'
  <2>1. k.owner \in Controllers
    BY DEF Leases
  <2>2. CASE k.owner = c
    BY SMT, <1>1, <1>2, <1>12, <2>2 DEF Winner, TypeOK
  <2>3. CASE k.owner # c
    BY SMT, <1>1, <1>2, <1>11, <1>12, <2>1, <2>3, NoLeaseAssumption DEF Winner, TypeOK, NoCandidate
  <2> QED
    BY <2>2, <2>3
<1>13. RequestsOK'
  BY SMTT(60), <1>1, <1>3, <1>12 DEF RequestsOK, TypeOK, Campaigns, LeasesOK
<1>14. SuccessionOK'
  BY <1>1, <1>2, <1>11 DEF SuccessionOK, TypeOK
<1> QED
  BY <1>4, <1>6, <1>7, <1>8, <1>9, <1>10, <1>13, <1>14

\* The oldest candidate takes the active key.
LEMMA PutActiveStep ==
  ASSUME ElectionInv, NEW l \in Leases, NEW seen \in Nat,
         MayTake(l, seen), Winner(l, seen), PutActive(l),
         \A c \in Controllers : ctl[c].pc = "register" => ctl[c].lease # l,
         ctl' \in [Controllers -> Campaigns],
         \A c \in Controllers :
           \/ ctl'[c] = ctl[c]
           \/ ctl[c].pc = "take" /\ ctl'[c].pc = "leading" /\ ctl'[c].lease = l /\ ctl[c].lease = l,
         sent' \subseteq sent, faults' \in Nat
  PROVE  ElectionInv'
<1> USE DEF ElectionInv
<1>1. /\ active' = l /\ last' = l /\ past' = past \cup ({last} \ {l, NoLease}) /\ active = NoLease
      /\ UNCHANGED <<alive, count, clock, candidate>>
  BY DEF MayTake, PutActive
<1>2. /\ l.owner \in Controllers /\ candidate[l.owner].lease = l
      /\ candidate[l.owner] # NoCandidate /\ Oldest(l.owner)
  BY SMT, NoLeaseAssumption DEF MayTake, Winner, Leases, NoCandidate
<1>3. l \in alive /\ l.number <= count[l.owner] /\ l \notin past
  BY <1>2 DEF KeysOK, SuccessionOK
<1>4. TypeOK'
  BY <1>1 DEF TypeOK
<1>5. (KeysOK /\ AgesDiffer /\ UsedOK)'
  BY <1>1, <1>3 DEF KeysOK, AgesDiffer, UsedOK
<1>6. (ActiveOK /\ LeasesOK)'
  BY SMT, <1>1, <1>3 DEF ActiveOK, LeasesOK
<1>7. AuthorityFollowsLease'
  BY <1>1, NoLeaseAssumption DEF AuthorityFollowsLease, TypeOK
<1>8. RequestsOK'
  BY <1>1 DEF RequestsOK, Winner, Oldest
<1>9. ASSUME NEW c \in Controllers, candidate[c] # NoCandidate, Oldest(c)
      PROVE  c = l.owner
  <2>1. candidate[c].created \in Nat /\ candidate[l.owner].created \in Nat
    BY <1>2 DEF TypeOK, Candidates
  <2>2. candidate[c].created = candidate[l.owner].created
    BY SMT, <1>2, <1>9, <2>1 DEF Oldest
  <2> QED
    BY <1>2, <1>9, <2>2 DEF AgesDiffer
<1>10. SuccessionOK'
  BY SMT, <1>1, <1>2, <1>3, <1>9 DEF SuccessionOK, Oldest, KeysOK
<1> QED
  BY <1>4, <1>5, <1>6, <1>7, <1>8, <1>10

\* A granted lease is new: nothing in use has its number.
LEMMA GrantStep ==
  ASSUME ElectionInv, NEW c \in Controllers, Grant(c), faults' \in Nat
  PROVE  ElectionInv'
<1> USE DEF ElectionInv
<1> DEFINE l == [owner |-> c, number |-> count[c] + 1]
           s == Campaign("register", l)
<1>1. /\ l \in Leases /\ l.owner = c /\ l.number = count[c] + 1 /\ count[c] \in Nat
      /\ s \in Campaigns /\ s.pc = "register" /\ s.lease = l
  BY SMT, ElectionAssumption DEF Grant, TypeOK, Leases, Campaigns, Campaign
<1>2. /\ alive' = alive \cup {l} /\ ctl' = [ctl EXCEPT ![c] = s] /\ sent' = sent
      /\ UNCHANGED <<count, clock, candidate, active, last, past>>
  BY DEF Grant, Go
<1> HIDE DEF l, s
<1>3. TypeOK'
  BY <1>1, <1>2 DEF TypeOK
<1>4. (KeysOK /\ AgesDiffer /\ UsedOK /\ ActiveOK /\ SuccessionOK)'
  BY <1>2 DEF KeysOK, AgesDiffer, UsedOK, ActiveOK, SuccessionOK, Oldest
<1>5. RequestsOK'
  BY <1>1, <1>2 DEF RequestsOK, Winner, Oldest, TypeOK
<1>6. LeasesOK'
  BY SMT, <1>1, <1>2, NoLeaseAssumption DEF LeasesOK, UsedOK, TypeOK
<1>7. AuthorityFollowsLease'
  BY <1>1, <1>2 DEF AuthorityFollowsLease, LeasesOK, TypeOK
<1> QED
  BY <1>3, <1>4, <1>5, <1>6, <1>7

\* The oldest candidate goes on to claim the active key.
LEMMA LookStep ==
  ASSUME ElectionInv, NEW c \in Controllers, Look(c), faults' \in Nat
  PROVE  ElectionInv'
<1> USE DEF ElectionInv
<1> DEFINE s == [ctl[c] EXCEPT !.pc = "take", !.seen = candidate[c].created]
<1>1. CASE Go(c, Idle)
  BY <1>1, RetreatStep DEF Look, Retreats, keyVars
<1>2. CASE /\ candidate[c] # NoCandidate /\ Go(c, s)
           /\ {d \in Controllers : candidate[d] # NoCandidate /\ Predecessor(c, d)} = {}
  <2>1. /\ candidate[c].created \in Nat /\ candidate[c].created <= clock
        /\ ctl[c].pc = "campaign" /\ ctl[c].lease \in Leases /\ ctl[c].lease.owner = c
    BY SMT, <1>2 DEF Look, TypeOK, Candidates, KeysOK, LeasesOK
  <2>2. Oldest(c)
    BY SMT, <1>2, <2>1 DEF Oldest, Predecessor, TypeOK, Candidates
  <2>3. /\ s \in Campaigns /\ s.pc = "take" /\ s.lease = ctl[c].lease /\ s.seen = candidate[c].created
        /\ ctl' = [ctl EXCEPT ![c] = s]
    BY <1>2, <2>1 DEF Go, TypeOK, Campaigns
  <2>4. UNCHANGED <<alive, count, clock, candidate, active, last, past, sent>>
    BY DEF Look, keyVars
  <2> HIDE DEF s
  <2>5. TypeOK'
    BY <2>3, <2>4 DEF TypeOK
  <2>6. (KeysOK /\ AgesDiffer /\ UsedOK /\ ActiveOK /\ SuccessionOK)'
    BY <2>4 DEF KeysOK, AgesDiffer, UsedOK, ActiveOK, SuccessionOK, Oldest
  <2>7. (LeasesOK /\ AuthorityFollowsLease)'
    BY <2>1, <2>3, <2>4 DEF LeasesOK, AuthorityFollowsLease, TypeOK
  <2>8. Winner(s.lease, s.seen)
    BY <2>1, <2>2, <2>3 DEF Winner
  <2>9. RequestsOK'
    BY <2>3, <2>4, <2>8 DEF RequestsOK, Winner, Oldest, TypeOK
  <2> QED
    BY <2>5, <2>6, <2>7, <2>9
<1> QED
  BY <1>1, <1>2 DEF Look

\* A claim whose answer is lost stays a claim of the oldest candidate.
LEMMA TakeUnansweredStep ==
  ASSUME ElectionInv, NEW c \in Controllers, TakeUnanswered(c), faults' \in Nat
  PROVE  ElectionInv'
<1> USE DEF ElectionInv
<1> DEFINE r == [lease |-> ctl[c].lease, seen |-> ctl[c].seen]
           s == [ctl[c] EXCEPT !.pc = "campaign", !.seen = 0]
<1>1. /\ ctl[c].pc = "take" /\ ctl[c].lease \in Leases /\ ctl[c].lease.owner = c
      /\ ctl[c].lease.number <= count[c] /\ Winner(ctl[c].lease, ctl[c].seen)
  BY DEF TakeUnanswered, LeasesOK, RequestsOK
<1>2. /\ r \in [lease : Leases, seen : Nat] /\ r.lease = ctl[c].lease /\ r.seen = ctl[c].seen
      /\ s \in Campaigns /\ s.pc = "campaign" /\ s.lease = ctl[c].lease
  BY <1>1 DEF TypeOK, Campaigns
<1>3. /\ sent' = sent \cup {r} /\ ctl' = [ctl EXCEPT ![c] = s]
      /\ UNCHANGED <<alive, count, clock, candidate, active, last, past>>
  BY DEF TakeUnanswered, Go, keyVars
<1> HIDE DEF r, s
<1>4. TypeOK'
  BY <1>2, <1>3 DEF TypeOK
<1>5. (KeysOK /\ AgesDiffer /\ ActiveOK /\ SuccessionOK)'
  BY <1>3 DEF KeysOK, AgesDiffer, ActiveOK, SuccessionOK, Oldest
<1>6. UsedOK'
  BY <1>1, <1>2, <1>3 DEF UsedOK
<1>7. (LeasesOK /\ AuthorityFollowsLease)'
  BY SMTT(30), <1>1, <1>2, <1>3 DEF LeasesOK, AuthorityFollowsLease, TypeOK
<1>8. RequestsOK'
  BY <1>1, <1>2, <1>3 DEF RequestsOK, Winner, Oldest, TypeOK
<1> QED
  BY <1>4, <1>5, <1>6, <1>7, <1>8

\* Deleting one's own candidate key takes nobody's place.
LEMMA DropCandidateStep ==
  ASSUME ElectionInv, NEW c \in Controllers, DropCandidate(c), faults' \in Nat
  PROVE  ElectionInv'
<1> USE DEF ElectionInv
<1> DEFINE s == [ctl[c] EXCEPT !.pc = "dropActive"]
<1>1. /\ s \in Campaigns /\ s.pc = "dropActive" /\ s.lease = ctl[c].lease
      /\ ctl' = [ctl EXCEPT ![c] = s] /\ ctl[c].pc = "dropCandidate"
      /\ UNCHANGED <<alive, count, clock, active, last, past, sent>>
  BY DEF DropCandidate, Go, TypeOK, Campaigns
<1>2. /\ candidate' \in [Controllers -> Candidates]
      /\ \A d \in Controllers : candidate'[d] \in {candidate[d], NoCandidate}
  BY DEF DropCandidate, TypeOK, NoCandidate, Candidates
<1> HIDE DEF s
<1>3. TypeOK'
  BY <1>1, <1>2 DEF TypeOK
<1>4. (KeysOK /\ AgesDiffer /\ UsedOK)'
  BY SMT, <1>1, <1>2 DEF KeysOK, AgesDiffer, UsedOK
<1>5. (ActiveOK /\ SuccessionOK)'
  BY <1>1, <1>2 DEF ActiveOK, SuccessionOK, Oldest
<1>6. (LeasesOK /\ AuthorityFollowsLease)'
  BY <1>1 DEF LeasesOK, AuthorityFollowsLease, TypeOK
<1>7. ASSUME NEW k \in Leases, NEW seen \in Nat, Winner(k, seen)
      PROVE  Winner(k, seen)'
  <2>0. k.owner \in Controllers
    BY DEF Leases
  <2>1. CASE candidate'[k.owner] = candidate[k.owner]
    BY <1>1, <1>2, <1>7, <2>0, <2>1 DEF Winner, Oldest
  <2>2. CASE candidate'[k.owner] = NoCandidate
    BY SMT, <1>1, <1>2, <1>7, <2>0, <2>2, NoLeaseAssumption DEF Winner, NoCandidate
  <2> QED
    BY <1>2, <2>0, <2>1, <2>2
<1>8. RequestsOK'
  BY SMT, <1>1, <1>7 DEF RequestsOK, TypeOK, LeasesOK, Campaigns
<1> QED
  BY <1>3, <1>4, <1>5, <1>6, <1>8

\* The active key is deleted under the lease compare: no leader but oneself
\* can lose it.
LEMMA DropActiveStep ==
  ASSUME ElectionInv, NEW c \in Controllers, DropActive(c), faults' \in Nat
  PROVE  ElectionInv'
<1> USE DEF ElectionInv
<1> DEFINE s == [ctl[c] EXCEPT !.pc = "revoke"]
<1>1. /\ s \in Campaigns /\ s.pc = "revoke" /\ s.lease = ctl[c].lease
      /\ ctl' = [ctl EXCEPT ![c] = s] /\ ctl[c].pc = "dropActive"
      /\ ctl[c].lease \in Leases /\ ctl[c].lease.owner = c
      /\ UNCHANGED <<alive, count, clock, candidate, last, past, sent>>
  BY SMT DEF DropActive, Go, TypeOK, Campaigns, LeasesOK
<1>2. active' = IF active = ctl[c].lease THEN NoLease ELSE active
  BY DEF DropActive
<1> HIDE DEF s
<1>3. TypeOK'
  BY <1>1, <1>2 DEF TypeOK
<1>4. (KeysOK /\ AgesDiffer /\ UsedOK /\ SuccessionOK)'
  BY <1>1 DEF KeysOK, AgesDiffer, UsedOK, SuccessionOK, Oldest
<1>5. (ActiveOK /\ LeasesOK)'
  BY <1>1, <1>2 DEF ActiveOK, LeasesOK, TypeOK
<1>6. AuthorityFollowsLease'
  BY SMTT(30), <1>1, <1>2 DEF AuthorityFollowsLease, LeasesOK, TypeOK
<1>7. RequestsOK'
  BY <1>1 DEF RequestsOK, Winner, Oldest, TypeOK
<1> QED
  BY <1>3, <1>4, <1>5, <1>6, <1>7

-----------------------------------------------------------------------------
\* A transaction that takes the active key is one of PutActiveStep: one whose
\* answer the process waits for, ...
LEMMA OwnClaimStep ==
  ASSUME ElectionInv, NEW c \in Controllers, ctl[c].pc = "take",
         MayTake(ctl[c].lease, ctl[c].seen), PutActive(ctl[c].lease), faults' \in Nat,
         Go(c, [ctl[c] EXCEPT !.pc = "leading", !.seen = 0]), sent' = sent
  PROVE  ElectionInv'
<1> DEFINE l == ctl[c].lease
           s == [ctl[c] EXCEPT !.pc = "leading", !.seen = 0]
<1>1. TypeOK /\ LeasesOK /\ RequestsOK
  BY DEF ElectionInv
<1>2. ctl[c] \in Campaigns /\ ctl \in [Controllers -> Campaigns]
  BY <1>1 DEF TypeOK
<1>3. s \in Campaigns /\ s.pc = "leading" /\ s.lease = l /\ ctl[c].seen \in Nat
  BY <1>2 DEF Campaigns
<1>4. ctl' = [ctl EXCEPT ![c] = s]
  BY DEF Go
<1>5. l \in Leases /\ l.owner = c
  BY <1>1 DEF LeasesOK
<1>6. Winner(l, ctl[c].seen)
  BY <1>1 DEF RequestsOK
<1>7. ASSUME NEW d \in Controllers, ctl[d].pc = "register"
      PROVE  ctl[d].lease # l
  <2>1. ctl[d].lease.owner = d
    BY <1>1, <1>7 DEF LeasesOK
  <2>2. d # c
    BY <1>7
  <2> QED
    BY <1>5, <2>1, <2>2
<1> HIDE DEF s
<1>8. /\ ctl' \in [Controllers -> Campaigns]
      /\ \A d \in Controllers :
           \/ ctl'[d] = ctl[d]
           \/ ctl[d].pc = "take" /\ ctl'[d].pc = "leading" /\ ctl'[d].lease = l /\ ctl[d].lease = l
  BY <1>2, <1>3, <1>4
<1> HIDE DEF l
<1> QED
  BY <1>3, <1>5, <1>6, <1>7, <1>8, PutActiveStep DEF l

\* ... or one whose process has stopped waiting.
LEMMA SentClaimStep ==
  ASSUME ElectionInv, NEW r \in sent, MayTake(r.lease, r.seen), PutActive(r.lease),
         faults' \in Nat, sent' = sent \ {r}, ctl' = ctl
  PROVE  ElectionInv'
<1>1. TypeOK /\ LeasesOK /\ RequestsOK
  BY DEF ElectionInv
<1>2. r.lease \in Leases /\ r.seen \in Nat /\ sent' \subseteq sent
  BY <1>1 DEF TypeOK
<1>3. Winner(r.lease, r.seen)
  BY <1>1 DEF RequestsOK
<1>4. \A c \in Controllers : ctl[c].pc = "register" => ctl[c].lease # r.lease
  BY <1>1 DEF LeasesOK
<1>5. ctl' \in [Controllers -> Campaigns]
  BY <1>1 DEF TypeOK
<1> QED
  BY <1>2, <1>3, <1>4, <1>5, PutActiveStep

\* Every step of the system preserves the invariant.
LEMMA SystemStepInv == ASSUME ElectionInv, SystemStep, faults' \in Nat PROVE ElectionInv'
<1>1. ASSUME NEW c \in Controllers, ControllerStep(c) PROVE ElectionInv'
  <2>0. Retreats(c, Idle) /\ Retreats(c, Down) /\ ctl \in [Controllers -> Campaigns] /\ ctl[c] \in Campaigns
    BY DEF Retreats, ElectionInv, TypeOK
  <2>1. CASE Grant(c)
    BY <2>1, GrantStep
  <2>2. CASE Register(c)
    <3>1. CASE PutCandidate(c) /\ Go(c, [ctl[c] EXCEPT !.pc = "campaign"])
      BY <2>2, <3>1, PutCandidateStep DEF Register
    <3>2. CASE EndLease(ctl[c].lease) /\ Go(c, Idle)
      BY <2>0, <2>2, <3>2, RestTypes, EndLeaseStep DEF Register, Go
    <3> QED
      BY <2>2, <3>1, <3>2 DEF Register
  <2>3. CASE Look(c)
    BY <2>3, LookStep
  <2>4. CASE Take(c)
    <3>1. CASE MayTake(ctl[c].lease, ctl[c].seen) /\ PutActive(ctl[c].lease)
               /\ Go(c, [ctl[c] EXCEPT !.pc = "leading", !.seen = 0])
      BY <2>4, <3>1, OwnClaimStep DEF Take
    <3>2. CASE Go(c, [ctl[c] EXCEPT !.pc = "campaign", !.seen = 0]) /\ UNCHANGED keyVars
      <4>1. Retreats(c, [ctl[c] EXCEPT !.pc = "campaign", !.seen = 0])
        BY <2>0, <2>4 DEF Retreats, Take, Campaigns
      <4> QED
        BY <2>4, <3>2, <4>1, RetreatStep DEF Take, keyVars
    <3> QED
      BY <2>4, <3>1, <3>2 DEF Take
  <2>5. CASE LoseLeadership(c) \/ Restart(c)
    BY <2>0, <2>5, RetreatStep DEF LoseLeadership, Restart, keyVars
  <2>6. CASE KeepaliveEnds(c)
    <3>1. Retreats(c, [ctl[c] EXCEPT !.lost = TRUE])
      BY <2>0, <2>6 DEF Retreats, KeepaliveEnds, Campaigns
    <3> QED
      BY <2>6, <3>1, RetreatStep DEF KeepaliveEnds, keyVars
  <2>7. CASE DropCandidate(c)
    BY <2>7, DropCandidateStep
  <2>8. CASE DropActive(c)
    BY <2>8, DropActiveStep
  <2>9. CASE Revoke(c)
    BY <2>0, <2>9, RestTypes, EndLeaseStep DEF Revoke, Go
  <2> QED
    BY <1>1, <2>1, <2>2, <2>3, <2>4, <2>5, <2>6, <2>7, <2>8, <2>9 DEF ControllerStep
<1>2. ASSUME NEW l \in alive, Expire(l) PROVE ElectionInv'
  BY <1>2, EndLeaseStep DEF Expire, ElectionInv, TypeOK
<1>3. ASSUME NEW r \in sent, Arrive(r) PROVE ElectionInv'
  <2>2. CASE MayTake(r.lease, r.seen)
    BY <1>3, <2>2, SentClaimStep DEF Arrive
  <2>3. CASE ~MayTake(r.lease, r.seen)
    <3>1. /\ UNCHANGED <<alive, count, clock, candidate, active, last, past, ctl>>
          /\ sent' \subseteq sent
      BY <1>3, <2>3 DEF Arrive, keyVars
    <3>2. TypeOK'
      BY <3>1 DEF ElectionInv, TypeOK
    <3>3. (KeysOK /\ AgesDiffer /\ UsedOK /\ ActiveOK /\ SuccessionOK)'
      BY <3>1 DEF ElectionInv, KeysOK, AgesDiffer, UsedOK, ActiveOK, SuccessionOK, Oldest
    <3>4. (LeasesOK /\ RequestsOK /\ AuthorityFollowsLease)'
      BY <3>1 DEF ElectionInv, LeasesOK, RequestsOK, Winner, Oldest, AuthorityFollowsLease
    <3> QED
      BY <3>2, <3>3, <3>4 DEF ElectionInv
  <2> QED
    BY <2>2, <2>3
<1> QED
  BY <1>1, <1>2, <1>3 DEF SystemStep

\* So does every fault.
LEMMA FaultInv ==
  ASSUME ElectionInv, NEW c \in Controllers, ControllerFault(c), faults' \in Nat
  PROVE  ElectionInv'
<1>0. Retreats(c, Idle) /\ Retreats(c, Down) /\ ctl \in [Controllers -> Campaigns] /\ ctl[c] \in Campaigns
  BY DEF Retreats, ElectionInv, TypeOK
<1>1. CASE RegisterUnanswered(c)
  BY <1>1, PutCandidateStep DEF RegisterUnanswered
<1>2. CASE TakeUnanswered(c)
  BY <1>2, TakeUnansweredStep
<1>3. CASE DropFails(c)
  <2>1. \E s : Retreats(c, s) /\ Go(c, s)
    BY <1>0, <1>3 DEF Retreats, DropFails, Campaigns
  <2> QED
    BY <1>3, <2>1, RetreatStep DEF DropFails, keyVars
<1>4. CASE KeepaliveTimeout(c)
  <2>1. Retreats(c, [ctl[c] EXCEPT !.lost = TRUE])
    BY <1>0, <1>4 DEF Retreats, KeepaliveTimeout, Campaigns
  <2> QED
    BY <1>4, <2>1, RetreatStep DEF KeepaliveTimeout, keyVars
<1>5. CASE Shutdown(c)
  <2>1. CASE /\ ctl[c].pc = "leading" /\ UNCHANGED keyVars
             /\ Go(c, [ctl[c] EXCEPT !.pc = "dropCandidate"])
    <3>1. Retreats(c, [ctl[c] EXCEPT !.pc = "dropCandidate"])
      BY <1>0, <2>1 DEF Retreats, Campaigns
    <3> QED
      BY <1>5, <2>1, <3>1, RetreatStep DEF Shutdown, keyVars
  <2>2. CASE EndLease(ctl[c].lease) /\ Go(c, Down)
    BY <1>0, <1>5, <2>2, RestTypes, EndLeaseStep DEF Shutdown, Go
  <2> QED
    BY <1>5, <2>1, <2>2 DEF Shutdown
<1>6. CASE Crash(c)
  BY <1>0, <1>6, RetreatStep DEF Crash, keyVars
<1>7. CASE ExpireInUse(c)
  BY <1>0, <1>7, EndLeaseStep DEF ExpireInUse, Expire
<1> QED
  BY <1>1, <1>2, <1>3, <1>4, <1>5, <1>6, <1>7 DEF ControllerFault

\* The invariant is inductive.
THEOREM ElectionStep == ElectionInv /\ [Next]_vars => ElectionInv'
<1> SUFFICES ASSUME ElectionInv, [Next]_vars PROVE ElectionInv'
  OBVIOUS
<1>1. CASE SystemStep /\ UNCHANGED faults
  BY <1>1, SystemStepInv DEF ElectionInv, TypeOK
<1>2. ASSUME NEW c \in Controllers, ControllerFault(c), faults' = faults + 1 PROVE ElectionInv'
  <2>1. faults' \in Nat
    BY SMTT(30), <1>2 DEF ElectionInv, TypeOK
  <2> QED
    BY <1>2, <2>1, FaultInv
<1>3. CASE UNCHANGED vars
  <2>1. UNCHANGED <<alive, count, clock, candidate, active, last, past, ctl, sent, faults>>
    BY <1>3 DEF vars, keyVars
  <2> QED
    BY <2>1 DEF ElectionInv, TypeOK, KeysOK, AgesDiffer, LeasesOK, UsedOK, ActiveOK, RequestsOK,
                SuccessionOK, AuthorityFollowsLease, Oldest, Winner
<1> QED
  BY <1>1, <1>2, <1>3 DEF Next

\* The election keeps its invariant.
THEOREM ElectionCorrect == Spec => []ElectionInv
  BY ElectionInit, ElectionStep, PTL DEF Spec

\* The variables of the election keep their types.
THEOREM ElectionTypes == Spec => []TypeOK
<1>1. ElectionInv => TypeOK
  BY DEF ElectionInv
<1> QED
  BY <1>1, ElectionCorrect, PTL

\* A leader keeps the active key until etcd ends its lease.
THEOREM AuthorityLasts == Spec => []AuthorityFollowsLease
<1>1. ElectionInv => AuthorityFollowsLease
  BY DEF ElectionInv
<1> QED
  BY <1>1, ElectionCorrect, PTL

\* How a step changes the active key: the oldest candidate takes it, or it
\* becomes free.
LEMMA ActiveStep ==
  ASSUME ElectionInv, [Next]_vars
  PROVE  \/ UNCHANGED <<active, last, past>>
         \/ active' = NoLease /\ UNCHANGED <<last, past>>
         \/ \E l \in Leases, seen \in Nat :
              MayTake(l, seen) /\ Winner(l, seen) /\ PutActive(l)
<1>1. CASE SystemStep
  <2>1. ASSUME NEW c \in Controllers, Take(c), MayTake(ctl[c].lease, ctl[c].seen)
        PROVE  \E l \in Leases, seen \in Nat : MayTake(l, seen) /\ Winner(l, seen) /\ PutActive(l)
    <3>1. ctl[c].lease \in Leases /\ ctl[c].seen \in Nat /\ Winner(ctl[c].lease, ctl[c].seen)
      BY <2>1 DEF Take, ElectionInv, LeasesOK, RequestsOK, TypeOK, Campaigns
    <3> QED
      BY <2>1, <3>1 DEF Take
  <2>2. ASSUME NEW c \in Controllers, Take(c), ~MayTake(ctl[c].lease, ctl[c].seen)
        PROVE  UNCHANGED <<active, last, past>>
    BY <2>2 DEF Take, keyVars
  <2>3. ASSUME NEW r \in sent, Arrive(r), MayTake(r.lease, r.seen)
        PROVE  \E l \in Leases, seen \in Nat : MayTake(l, seen) /\ Winner(l, seen) /\ PutActive(l)
    <3>1. r.lease \in Leases /\ r.seen \in Nat /\ Winner(r.lease, r.seen)
      BY DEF ElectionInv, RequestsOK, TypeOK
    <3> QED
      BY <2>3, <3>1 DEF Arrive
  <2>4. ASSUME NEW r \in sent, Arrive(r), ~MayTake(r.lease, r.seen)
        PROVE  UNCHANGED <<active, last, past>>
    BY <2>4 DEF Arrive, keyVars
  <2>5. ASSUME NEW c \in Controllers, ControllerStep(c), ~Take(c)
        PROVE  active' \in {active, NoLease} /\ UNCHANGED <<last, past>>
    BY <2>5 DEF ControllerStep, Grant, Register, PutCandidate, EndLease, Look, LoseLeadership,
                KeepaliveEnds, DropCandidate, DropActive, Revoke, Restart, keyVars
  <2>6. ASSUME NEW l \in alive, Expire(l)
        PROVE  active' \in {active, NoLease} /\ UNCHANGED <<last, past>>
    BY <2>6 DEF Expire, EndLease
  <2> QED
    BY <1>1, <2>1, <2>2, <2>3, <2>4, <2>5, <2>6 DEF SystemStep
<1>2. ASSUME NEW c \in Controllers, ControllerFault(c)
      PROVE  active' \in {active, NoLease} /\ UNCHANGED <<last, past>>
  BY <1>2 DEF ControllerFault, RegisterUnanswered, TakeUnanswered, DropFails, KeepaliveTimeout,
              Shutdown, Crash, ExpireInUse, Expire, PutCandidate, EndLease, keyVars
<1>3. CASE UNCHANGED vars
  BY <1>3 DEF vars, keyVars
<1> QED
  BY <1>1, <1>2, <1>3 DEF Next

\* Whoever takes the active key has the oldest candidate key at that moment,
\* although the candidates were read earlier.
THEOREM FirstCome == Spec => FirstComeFirstServed
<1>1. ElectionInv /\ [Next]_vars =>
        [active' # active /\ active' # NoLease =>
           \A c \in Controllers : candidate[c] # NoCandidate =>
             candidate[active'.owner].created <= candidate[c].created]_vars
  <2> SUFFICES ASSUME ElectionInv, [Next]_vars, active' # active, active' # NoLease,
                      NEW c \in Controllers, candidate[c] # NoCandidate
               PROVE  candidate[active'.owner].created <= candidate[c].created
    OBVIOUS
  <2>1. PICK l \in Leases : \E seen \in Nat : MayTake(l, seen) /\ Winner(l, seen) /\ PutActive(l)
    BY ActiveStep
  <2> QED
    BY <2>1 DEF MayTake, Winner, PutActive, Oldest
<1> QED
  BY <1>1, ElectionCorrect, PTL DEF Spec, FirstComeFirstServed

\* The election implements the controller lock: one holder at a time, and a
\* term that has been succeeded never holds the lock again.
THEOREM ElectionIsLock == Spec => LockSpec
<1>1. Init => Lock!LockInit
  BY DEF Init, Lock!LockInit
<1>2. ElectionInv /\ [Next]_vars => [Lock!LockNext]_<<active, last, past>>
  <2> SUFFICES ASSUME ElectionInv, [Next]_vars PROVE [Lock!LockNext]_<<active, last, past>>
    OBVIOUS
  <2>1. ASSUME NEW l \in Leases, NEW seen \in Nat, MayTake(l, seen), PutActive(l)
        PROVE  Lock!LockNext
    <3>1. candidate[l.owner] # NoCandidate /\ l.owner \in Controllers
      BY SMT, <2>1, NoLeaseAssumption DEF MayTake, NoCandidate, Leases
    <3>2. l \notin past
      BY <2>1, <3>1 DEF MayTake, ElectionInv, SuccessionOK
    <3> QED
      BY <2>1, <3>2 DEF MayTake, PutActive, Lock!LockNext, Lock!Take
  <2> QED
    BY <2>1, ActiveStep DEF Lock!LockNext, Lock!Free
<1> QED
  BY <1>1, <1>2, ElectionCorrect, PTL DEF Spec, LockSpec, Lock!LockSpec

=============================================================================
