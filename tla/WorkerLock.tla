----------------------------- MODULE WorkerLock -----------------------------
(***************************************************************************)
(* The singleton lock of SQLite worker processes, sqlite/worker_lock.go,   *)
(* and the run command that holds it, internal/cli/run.go.                 *)
(*                                                                         *)
(* A process acquires the lock, runs its pipelines one after the other     *)
(* (runtime/runner.go), and releases the lock.  Next to this main routine, *)
(* the heartbeat renews the lock and ends with the first error; the        *)
(* watcher waits for the heartbeat's error, or for its end, remembers the  *)
(* error and cancels the run.  A routine reads the clock before the        *)
(* statement that uses the reading, and may be suspended in between.       *)
(***************************************************************************)
EXTENDS Integers, Functions

CONSTANTS
  Processes,   \* processes started on one database, each once
  WorkerIDs,   \* how the processes may be named: each a function on Processes
  NoWorker,    \* the owner of a free lock
  Lease,       \* workers.lease_ttl
  MaxTime,     \* bound on the clock
  MaxFaults,   \* bound on renewals and releases that fail in the database
  MaxCrashes   \* bound on crashes

ASSUME WorkerLockAssumption ==
  /\ \A id \in WorkerIDs : DOMAIN id = Processes /\ NoWorker \notin Range(id)
  /\ Lease \in Nat \ {0}
  /\ MaxTime \in Nat /\ MaxFaults \in Nat /\ MaxCrashes \in Nat

VARIABLES
  workerID, \* workerID[p], by default the same for all processes of a host
  now,     \* the clock
  lock,    \* the row of deltaflow_worker_locks
  main,    \* main[p]: the main routine
  beat,    \* beat[p]: the heartbeat
  watch,   \* watch[p]: the watcher, and the error it remembers
  faults,  \* number of statements that failed in the database
  crashes, \* number of crashes
  timely   \* no lock has expired under its process, no statement was late

lockVars == <<workerID, now, lock, main, beat, watch, faults, crashes, timely>>

Free == [owner |-> NoWorker, expires |-> 0]

(* Why a heartbeat ended: it was stopped in time, its renewal was           *)
(* interrupted by the stop, the database failed, or the lock was not ours.  *)
Causes == {"none", "interrupted", "database", "lost"}

Main == [stage : {"off", "acquiring", "running", "stopping", "waiting", "releasing",
                  "done", "crashed"},
         reading : 0..MaxTime,   \* of the clock, by AcquireWorkerLock
         cancelled : BOOLEAN,    \* runCtx
         runErr : {"none", "failed", "cancelled"},
         result : {"none", "ok", "run error", "lock error", "already running"}]

Beat == [stage : {"off", "idle", "renewing", "ended"},
         reading : 0..MaxTime,   \* of the clock, by the renewal
         stopped : BOOLEAN,      \* its own context is cancelled
         cause : Causes]

Watcher == [done : BOOLEAN, cause : Causes]

(* Type invariant. *)
LockTypeOK ==
  /\ workerID \in WorkerIDs
  /\ now \in 0..MaxTime
  /\ lock \in [owner : Range(workerID) \cup {NoWorker},
               expires : 0..(MaxTime + Lease)]
  /\ main \in [Processes -> Main]
  /\ beat \in [Processes -> Beat]
  /\ watch \in [Processes -> Watcher]
  /\ \A p \in Processes : watch[p].cause # "none" => watch[p].done /\ main[p].cancelled
  /\ faults \in 0..MaxFaults /\ crashes \in 0..MaxCrashes /\ timely \in BOOLEAN

LockInit ==
  /\ workerID \in WorkerIDs
  /\ now = 0
  /\ lock = Free
  /\ main = [p \in Processes |-> [stage |-> "off", reading |-> 0,
                cancelled |-> FALSE, runErr |-> "none", result |-> "none"]]
  /\ beat = [p \in Processes |-> [stage |-> "off", reading |-> 0, stopped |-> FALSE,
                                  cause |-> "none"]]
  /\ watch = [p \in Processes |-> [done |-> FALSE, cause |-> "none"]]
  /\ faults = 0
  /\ crashes = 0
  /\ timely = TRUE
-----------------------------------------------------------------------------
(* The main routine.                                                        *)

Go(p, m) == main' = [main EXCEPT ![p] = m]

Start(p) ==
  /\ main[p].stage = "off"
  /\ Go(p, [main[p] EXCEPT !.stage = "acquiring", !.reading = now])
  /\ UNCHANGED <<workerID, now, lock, beat, watch, faults, crashes, timely>>

Released_AnyOwner(p) == Free
Released(p) == IF lock.owner = workerID[p] THEN Free ELSE lock

(* A lock is taken when it has expired, whoever asks for it.                *)
Available_OwnID(p) == lock.owner \in {NoWorker, workerID[p]} \/ lock.expires <= main[p].reading
Available(p) == lock.owner = NoWorker \/ lock.expires <= main[p].reading

(* AcquireWorkerLock: the upsert takes a lock that is free or has expired.  *)
AcquireWorkerLock(p) ==
  LET m == main[p]
  IN  /\ m.stage = "acquiring"
      /\ IF Available(p)
           THEN /\ lock' = [owner |-> workerID[p], expires |-> m.reading + Lease]
                /\ Go(p, [m EXCEPT !.stage = "running", !.reading = 0])
                /\ beat' = [beat EXCEPT ![p].stage = "idle"]
           ELSE /\ Go(p, [m EXCEPT !.stage = "done", !.reading = 0,
                                   !.result = "already running"])
                /\ UNCHANGED <<lock, beat>>
      /\ UNCHANGED <<workerID, now, watch, faults, crashes, timely>>

(* RunOnce ends when all pipelines have run or with the first that fails,   *)
(* also when the run was cancelled and no pipeline has noticed it; or with  *)
(* the first that notices.                                                  *)
RunEnds(p) ==
  /\ main[p].stage = "running"
  /\ \E err \in {"none", "failed"} :
       Go(p, [main[p] EXCEPT !.stage = "stopping", !.runErr = err])
  /\ UNCHANGED <<workerID, now, lock, beat, watch, faults, crashes, timely>>

RunCancelled(p) ==
  /\ main[p].stage = "running" /\ main[p].cancelled
  /\ Go(p, [main[p] EXCEPT !.stage = "stopping", !.runErr = "cancelled"])
  /\ UNCHANGED <<workerID, now, lock, beat, watch, faults, crashes, timely>>

(* The 30 seconds of a run are over, or its caller cancelled it.  Once the  *)
(* heartbeat was stopped nothing listens to the run's context any more.     *)
Cancel(p) ==
  /\ main[p].stage \in {"running", "stopping"} /\ ~main[p].cancelled
  /\ Go(p, [main[p] EXCEPT !.cancelled = TRUE])
  /\ UNCHANGED <<workerID, now, lock, beat, watch, faults, crashes, timely>>

StopHeartbeat(p) ==
  /\ main[p].stage = "stopping"
  /\ Go(p, [main[p] EXCEPT !.stage = "waiting"])
  /\ beat' = [beat EXCEPT ![p].stopped = TRUE]
  /\ UNCHANGED <<workerID, now, lock, watch, faults, crashes, timely>>

(* The error of the lock goes before a run that ended well or was cancelled.*)
Result(p) ==
  IF watch[p].cause # "none" /\ main[p].runErr \in {"none", "cancelled"}
    THEN "lock error"
    ELSE IF main[p].runErr # "none" THEN "run error" ELSE "ok"

Waited_Not(p) == TRUE
Waited(p) == watch[p].done

Wait(p) ==
  /\ main[p].stage = "waiting"
  /\ Waited(p)
  /\ Go(p, [main[p] EXCEPT !.stage = "releasing", !.result = Result(p)])
  /\ UNCHANGED <<workerID, now, lock, beat, watch, faults, crashes, timely>>

(* The context of the release is not the run's, which may be cancelled.     *)
MayRelease_RunContext(p) == ~main[p].cancelled
MayRelease(p) == TRUE

ReleaseLock(p) ==
  /\ main[p].stage = "releasing"
  /\ lock' = IF MayRelease(p) THEN Released(p) ELSE lock
  /\ Go(p, [main[p] EXCEPT !.stage = "done"])
  /\ UNCHANGED <<workerID, now, beat, watch, faults, crashes, timely>>

(* The error of a release is not looked at.                                 *)
ReleaseFails(p) ==
  /\ main[p].stage = "releasing"
  /\ faults < MaxFaults
  /\ faults' = faults + 1
  /\ Go(p, [main[p] EXCEPT !.stage = "done"])
  /\ UNCHANGED <<workerID, now, lock, beat, watch, crashes, timely>>

Crash(p) ==
  /\ main[p].stage \notin {"off", "done", "crashed"}
  /\ crashes < MaxCrashes
  /\ crashes' = crashes + 1
  /\ Go(p, [main[p] EXCEPT !.stage = "crashed"])
  /\ beat' = [beat EXCEPT ![p].stage = "off"]
  /\ UNCHANGED <<workerID, now, lock, watch, faults, timely>>
-----------------------------------------------------------------------------
(* The heartbeat and the watcher.                                           *)

(* The heartbeat's context is a child of the run's. *)
Stopping_OnCancel(p) == main[p].cancelled
Stopping(p) == beat[p].stopped \/ main[p].cancelled

Ended(p, cause) == [beat[p] EXCEPT !.stage = "ended", !.reading = 0, !.cause = cause]

(* With both the stop and the ticker ready, either may be taken. *)
BeatTicks(p) ==
  /\ beat[p].stage = "idle"
  /\ beat' = [beat EXCEPT ![p].stage = "renewing", ![p].reading = now]
  /\ UNCHANGED <<workerID, now, lock, main, watch, faults, crashes, timely>>

BeatStops(p) ==
  /\ beat[p].stage = "idle" /\ Stopping(p)
  /\ beat' = [beat EXCEPT ![p] = Ended(p, "none")]
  /\ UNCHANGED <<workerID, now, lock, main, watch, faults, crashes, timely>>

(* RenewWorkerLock: the update asks for the worker's ID and nothing else.   *)
RenewWorkerLock(p) ==
  /\ beat[p].stage = "renewing"
  /\ IF lock.owner = workerID[p]
       THEN /\ lock' = [lock EXCEPT !.expires = beat[p].reading + Lease]
            /\ beat' = [beat EXCEPT ![p].stage = "idle", ![p].reading = 0]
       ELSE /\ beat' = [beat EXCEPT ![p] = Ended(p, "lost")]
            /\ UNCHANGED lock
  /\ UNCHANGED <<workerID, now, main, watch, faults, crashes, timely>>

(* The renewal's context ends with the heartbeat's. *)
RenewInterrupted(p) ==
  /\ beat[p].stage = "renewing" /\ Stopping(p)
  /\ beat' = [beat EXCEPT ![p] = Ended(p, "interrupted")]
  /\ UNCHANGED <<workerID, now, lock, main, watch, faults, crashes, timely>>

RenewFails(p) ==
  /\ beat[p].stage = "renewing"
  /\ faults < MaxFaults
  /\ faults' = faults + 1
  /\ beat' = [beat EXCEPT ![p] = Ended(p, "database")]
  /\ UNCHANGED <<workerID, now, lock, main, watch, crashes, timely>>

(* The watcher receives the error, remembers it and cancels the run; or it  *)
(* finds the channel closed.                                                *)
Cancels_Not(p) == FALSE
Cancels(p) == beat[p].cause # "none"

Watch(p) ==
  /\ beat[p].stage = "ended" /\ ~watch[p].done
  /\ main[p].stage # "crashed"
  /\ watch' = [watch EXCEPT ![p] = [done |-> TRUE, cause |-> beat[p].cause]]
  /\ IF Cancels(p) THEN Go(p, [main[p] EXCEPT !.cancelled = TRUE]) ELSE UNCHANGED main
  /\ UNCHANGED <<workerID, now, lock, beat, faults, crashes, timely>>
-----------------------------------------------------------------------------
Working(p) == main[p].stage = "running"
UsesLock(p) == main[p].stage \in {"running", "stopping", "waiting", "releasing"}

(* Time passes.  A timely process renews before its lock expires, and none  *)
(* of its statements runs later than the reading it carries.                *)
Tick ==
  /\ now < MaxTime
  /\ now' = now + 1
  /\ timely' = (timely /\ \A p \in Processes :
                   /\ main[p].stage # "acquiring" /\ beat[p].stage # "renewing"
                   /\ UsesLock(p) => lock.expires > now + 1)
  /\ UNCHANGED <<workerID, lock, main, beat, watch, faults, crashes>>

Shutdown(p) == RunCancelled(p) \/ StopHeartbeat(p) \/ Wait(p) \/ ReleaseLock(p)
               \/ ReleaseFails(p)
Renew(p) == RenewWorkerLock(p) \/ RenewInterrupted(p) \/ RenewFails(p)

Process(p) ==
  \/ Start(p) \/ AcquireWorkerLock(p) \/ RunEnds(p) \/ Cancel(p) \/ Shutdown(p)
  \/ BeatTicks(p) \/ BeatStops(p) \/ Renew(p) \/ Watch(p)
  \/ Crash(p)

LockNext == (\E p \in Processes : Process(p)) \/ Tick

LockSpec == LockInit /\ [][LockNext]_lockVars

(* The routines of a live process go on; a pipeline may run for ever.  A    *)
(* stopped heartbeat takes the stop in the end: with both channels ready    *)
(* select takes either.                                                     *)
LockFairness ==
  \A p \in Processes :
    /\ WF_lockVars(Shutdown(p))
    /\ WF_lockVars(BeatTicks(p) \/ Renew(p)) /\ SF_lockVars(BeatStops(p))
    /\ WF_lockVars(Watch(p))

FairLockSpec == LockSpec /\ LockFairness
-----------------------------------------------------------------------------
(* One process works on the database at a time, as long as none is too late *)
(* to renew its lock.                                                       *)
OneWorker ==
  timely => \A p, q \in Processes : Working(p) /\ Working(q) => p = q

(* A live lock changes by the steps of processes of its owner's name only.  *)
(* So when names differ neither a refused start, nor a late renewal, nor    *)
(* the release of a process that lost the lock touches the lock of the one  *)
(* that holds it now.  A process that lost it to another of the same name   *)
(* still renews and deletes the other's: the row knows names only.          *)
OthersLockKept ==
  [][lock.owner # NoWorker /\ lock.expires > now /\ lock' # lock
       => \E p \in Processes : /\ workerID[p] = lock.owner
                               /\ main'[p] # main[p] \/ beat'[p] # beat[p]]_lockVars

(* A run that tells of success missed no error of its heartbeat: it waited  *)
(* until the heartbeat had ended, and ended well, so that no renewal is     *)
(* still to fail, or to come after the release.  It may have lost an        *)
(* expired lock without noticing, when no renewal fell into that time.      *)
SuccessMissesNoError ==
  \A p \in Processes : main[p].result = "ok" =>
    beat[p].stage \in {"ended", "off"} /\ beat[p].cause = "none"

(* What the routines of a process remember of each other is consistent, up  *)
(* to the result they return.                                               *)
RoutinesConsistent == LockTypeOK /\ SuccessMissesNoError

(* A lock error is an error of the lock, not of the way it is shut down.    *)
LockErrorIsReal ==
  \A p \in Processes : main[p].result = "lock error" => beat[p].cause # "interrupted"

(* A run that ends, also one that was cancelled, leaves no lock behind that *)
(* would keep the next one out: the lock is that of a process that still    *)
(* runs or that crashed.  When the database failed the release may have     *)
(* failed too; then no heartbeat of that name is left to renew the lock,    *)
(* and it expires.                                                          *)
LockIsReleased ==
  lock.owner # NoWorker =>
    LET named == {p \in Processes : workerID[p] = lock.owner}
    IN  \/ \E p \in named : main[p].stage \notin {"off", "acquiring", "done"}
        \/ faults > 0 /\ \A p \in named : beat[p].stage \in {"off", "ended"}

(* Two processes of different names work side by side after one of them     *)
(* lost the lock, being suspended or late; but not for ever: one of them    *)
(* finds out and stops.                                                     *)
OneWorkerAgain ==
  \A p \in Processes : \A q \in Processes \ {p} :
    Working(p) /\ Working(q) /\ workerID[p] # workerID[q]
      ~> ~(Working(p) /\ Working(q))

(* Shutdown ends: no routine waits for one that has ended.                  *)
ShutdownEnds ==
  \A p \in Processes :
    main[p].stage = "stopping" ~> main[p].stage \in {"done", "crashed"}
=============================================================================
