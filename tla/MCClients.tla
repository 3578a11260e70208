----------------------------- MODULE MCClients -----------------------------
(***************************************************************************)
(* Four clients of the coordination store, side by side and each on its    *)
(* own: a watch (module Watch), an observer's wait (Observer), the tasks   *)
(* of a participant (Workers) and a process from start to end (Lifecycle). *)
(* A behaviour is one of one of them; the others stay in an initial state. *)
(***************************************************************************)
EXTENDS Observer, Lifecycle

CONSTANTS Keys, Key, k1, k2, m1, m2, p1, WatchRev, WatchFaults, WorkersRev, WorkersExited,
  ShortRev   \* bound on the store's revisions while an observer waits for a controller

VARIABLES
  part,
  wLog, wRev, wCompacted, prefix, stream, cursor, pending, base, delivered, wFaults,
  images, fresh, seen, loop, inFlight, revisions, completed, frontier, task, exited, token,
  live, old, worked, owed, done, drains

H == INSTANCE Watch WITH MaxRev <- WatchRev, MaxFaults <- WatchFaults, log <- wLog, rev <- wRev,
       compacted <- wCompacted, faults <- wFaults

W == INSTANCE Workers WITH MaxRev <- WorkersRev, Messages <- {m1, m2}, Parts <- {p1},
       PartOf <- [m \in {m1, m2} |-> p1], Injected <- {m2}, Cooperative <- {m2},
       Backlogs <- {[queue |-> {}, old |-> {}]}, MaxRetries <- 2, MaxExited <- WorkersExited,
       MaxDrains <- 1, processed <- worked

\* What the modules, and the proofs about them, assume of these constants.
ASSUME ClientConstants ==
  H!WatchAssumption /\ ObserverAssumption /\ W!WorkersAssumption /\ LifecycleAssumption

watchVars == <<prefix, wLog, wRev, wCompacted, stream, cursor, pending, base, delivered, wFaults>>
workersVars ==
  <<images, fresh, seen, loop, inFlight, revisions, completed, frontier, task, exited, token,
    live, old, worked, owed, done, drains>>
allVars == <<part, watchVars, vars, workersVars, lifeVars>>

ClientsInit ==
  /\ part \in {"watch", "observer", "workers", "life"}
  /\ H!Init /\ (prefix => part = "watch")
  /\ Init /\ (wait.for = "controller" => part = "observer")
  /\ W!Init
  /\ LifeInit /\ (part # "life" => role = "controller" /\ ~rival)

ClientsNext ==
  /\ UNCHANGED part
  /\ \/ part = "watch" /\ H!Next /\ UNCHANGED <<vars, workersVars, lifeVars>>
     \/ /\ part = "observer" /\ Next /\ UNCHANGED <<watchVars, workersVars, lifeVars>>
        /\ wait.for = "controller" => rev' <= ShortRev
     \/ part = "workers" /\ W!Next /\ UNCHANGED <<watchVars, vars, lifeVars>>
     \/ part = "life" /\ LifeNext /\ UNCHANGED <<watchVars, vars, workersVars>>

\* Each client's own fairness, in the behaviours that are its own.  The steps of one
\* disjunction come one at a time; branches of a select are fair each by itself.
WatchFairness ==
  WF_watchVars(part = "watch" /\ (H!Pop \/ H!Receive \/ H!Resume \/ H!RecoverCompaction))

ObserverFairness ==
  /\ WF_vars(part = "observer" /\ (Begin \/ NextEvent \/ Read \/ Recover \/ Resume))
  /\ WF_vars(part = "observer" /\ Poll)

Working(A) == part = "workers" /\ A

WorkersFairness ==
  /\ WF_workersVars(Working(\/ W!Start \/ W!ObserveAndSpawn \/ W!NotifyWaiters
                            \/ W!DrainJoin \/ W!StopAfterDrain \/ W!Reregister))
  /\ SF_workersVars(Working(W!WatchEvent))
  /\ WF_workersVars(Working(W!JoinNext)) /\ WF_workersVars(Working(W!Cancel(FALSE)))
  /\ \A m \in {m1, m2} :
       WF_workersVars(Working(W!TaskStep(m))) /\ WF_workersVars(Working(W!JoinError(m)))

Living(A) == part = "life" /\ A

\* The process takes its steps, a resolved shutdown is polled by a select that comes
\* round again and again, handlers return, etcd comes back and ends a lease nobody
\* keeps alive.  Another process may hold the live key or the active key for ever.
LifeFairness ==
  /\ WF_lifeVars(Living(StartController \/ StartParticipant \/ Controller \/ Participant \/ Answer))
  /\ SF_lifeVars(Living(CampaignShutdown \/ LeaderShutdown))
  /\ SF_lifeVars(Living(RegisterShutdown \/ LoopShutdown \/ RecoveryShutdown))
  /\ WF_lifeVars(Living(EtcdReturns)) /\ WF_lifeVars(Living(LeaseLapses))

ClientsSpec ==
  /\ ClientsInit /\ [][ClientsNext]_allVars
  /\ WatchFairness /\ ObserverFairness /\ WorkersFairness /\ LifeFairness

\* Every client is well typed.
ClientsTypeOK == H!TypeOK /\ TypeOK /\ W!TypeOK /\ LifeTypeOK

\* The consumer of a watch gets every event once and in order (WatchCursor).
ExactlyOnceInOrder == H!ExactlyOnceInOrder

\* A watched key's events arrive (WatchSubscription::next).
KeyEventsArrive == H!KeyEventsArrive

\* A wait whose condition comes to hold and lasts ends (wait_until).
EveryWaitEnds == part = "observer" => WaitEnds

\* A drain of the handlers ends (drain_workers).
DrainEnds == W!DrainEnds

\* Every message of the queue is worked off (process_pending_messages).
QueueIsWorkedOff == W!QueueIsWorkedOff

=============================================================================
