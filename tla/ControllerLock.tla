----------------------------- MODULE ControllerLock -----------------------------
(***************************************************************************)
(* What the election promises the controller runtime: one holder at a      *)
(* time, and a term that has been succeeded never holds the lock again.    *)
(* Only then does the authority compare of a publication fence off every   *)
(* write of an earlier term.                                               *)
(***************************************************************************)
CONSTANTS
  Terms,
  NoTerm

VARIABLES
  holder,   \* the term that holds the lock, or NoTerm
  last,     \* the latest term to take it
  past      \* the terms that have been succeeded

LockInit == holder = NoTerm /\ last = NoTerm /\ past = {}

Take(t) ==
  /\ holder = NoTerm
  /\ t \notin past
  /\ holder' = t
  /\ last' = t
  /\ past' = past \cup ({last} \ {t, NoTerm})

Free ==
  /\ holder' = NoTerm
  /\ UNCHANGED <<last, past>>

LockNext == Free \/ \E t \in Terms : Take(t)

LockSpec == LockInit /\ [][LockNext]_<<holder, last, past>>

=============================================================================
