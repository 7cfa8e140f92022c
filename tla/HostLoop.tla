------------------------------ MODULE HostLoop ------------------------------
(***************************************************************************)
(* The loop that drains a sync, internal/host/host.go: RunWorkers starts   *)
(* one goroutine per worker, each calls RunOnce, makes retrying jobs       *)
(* available and asks WorkComplete, until one of them finds the work done  *)
(* or an error, and the others follow.  Meanwhile the application goes on  *)
(* enqueueing changes.                                                     *)
(*                                                                         *)
(* The stores are those of PostgreSQL: a statement or a dispatch is one    *)
(* step.  A change is its delta and the outbox job of that delta; what     *)
(* happens inside a worker is cut down to the commits that WorkComplete    *)
(* can see (SyncWorker has the rest).                                      *)
(***************************************************************************)
EXTENDS Integers, FiniteSets

CONSTANTS
  Changes,      \* changes the application may enqueue
  Workers,      \* goroutines of RunWorkers
  PullSize,     \* deltas dispatched by one RunOnce
  BatchSize,    \* jobs claimed by one RunOnce
  MaxAttempts,  \* of every job
  MaxFaults     \* bound on errors and lost leases

ASSUME HostLoopAssumption ==
  /\ IsFiniteSet(Workers) /\ Workers # {}
  /\ PullSize \in Nat \ {0} /\ BatchSize \in Nat \ {0} /\ MaxAttempts \in Nat \ {0}
  /\ MaxFaults \in Nat

VARIABLES
  delta,      \* delta[c]: state of the delta
  job,        \* job[c]: state of its job
  tries,      \* tries[c]: the job's attempt_count
  place,      \* place[w]: where the goroutine is
  claimed,    \* claimed[w]: jobs of its batch
  before,     \* history: before[w]: changes recorded when WorkComplete was called
  complete,   \* complete[w]: what WorkComplete answered
  done,       \* the done channel is closed
  errCh,      \* number of errors in errCh
  cancelled,  \* the context of RunWorkers is cancelled
  result,     \* what RunWorkers returned
  faults

workVars == <<delta, job, tries>>
callVars == <<before, complete, done, errCh, cancelled, result>>
hostVars == <<workVars, place, claimed, callVars, faults>>

(* A retrying job is "due" once available_at is reached.  The row of an     *)
(* "expired" job still says processing.                                     *)
JobStates == {"none", "pending", "processing", "expired", "retrying", "due", "synced", "dead"}

Places == {"loop", "dispatching", "claiming", "working", "after", "counting deltas",
           "counting jobs", "sleeping", "failed", "sent", "ended"}

(* Type invariant.  The rows say of each other what the dispatch's          *)
(* transaction makes of them.                                               *)
HostTypeOK ==
  /\ delta \in [Changes -> {"absent", "pending", "dispatched"}]
  /\ job \in [Changes -> JobStates]
  /\ \A c \in Changes : job[c] = "none" <=> delta[c] # "dispatched"
  /\ tries \in [Changes -> 0..MaxAttempts]
  /\ place \in [Workers -> Places]
  /\ claimed \in [Workers -> SUBSET Changes]
  /\ before \in [Workers -> SUBSET Changes]
  /\ complete \in [Workers -> BOOLEAN]
  /\ done \in BOOLEAN /\ cancelled \in BOOLEAN
  /\ errCh \in 0..Cardinality(Workers)
  /\ result \in {"none", "ok", "error"}
  /\ faults \in 0..MaxFaults

HostInit ==
  /\ delta = [c \in Changes |-> "absent"]
  /\ job = [c \in Changes |-> "none"]
  /\ tries = [c \in Changes |-> 0]
  /\ place = [w \in Workers |-> "loop"]
  /\ claimed = [w \in Workers |-> {}]
  /\ before = [w \in Workers |-> {}]
  /\ complete = [w \in Workers |-> FALSE]
  /\ done = FALSE
  /\ errCh = 0
  /\ cancelled = FALSE
  /\ result = "none"
  /\ faults = 0
-----------------------------------------------------------------------------
Recorded == {c \in Changes : delta[c] # "absent"}
Settled  == {c \in Changes : job[c] \in {"synced", "dead"}}
PendingDeltas == {c \in Changes : delta[c] = "pending"}
OpenJobs == {c \in Changes :
               job[c] \in {"pending", "processing", "expired", "retrying", "due"}}

Goto(w, to) == place' = [place EXCEPT ![w] = to]

Enqueue(c) ==
  /\ delta[c] = "absent"
  /\ delta' = [delta EXCEPT ![c] = "pending"]
  /\ UNCHANGED <<job, tries, place, claimed, callVars, faults>>

(* Time passes: a retrying job becomes due, a lease expires. *)
BecomesDue(c) ==
  /\ job[c] = "retrying"
  /\ job' = [job EXCEPT ![c] = "due"]
  /\ UNCHANGED <<delta, tries, place, claimed, callVars, faults>>

LeaseExpires(c) ==
  /\ job[c] = "processing"
  /\ faults < MaxFaults /\ faults' = faults + 1
  /\ job' = [job EXCEPT ![c] = "expired"]
  /\ claimed' = [w \in Workers |-> claimed[w] \ {c}]
  /\ UNCHANGED <<delta, tries, place, callVars>>

Cancel ==
  /\ ~cancelled /\ result = "none"
  /\ cancelled' = TRUE
  /\ UNCHANGED <<workVars, place, claimed, before, complete, done, errCh, result, faults>>
-----------------------------------------------------------------------------
(* One goroutine.                                                           *)

(* The select at the head of the loop and the one around the timer: with    *)
(* several channels ready any of them is taken.                             *)
SeesDone(w) ==
  /\ place[w] \in {"loop", "sleeping"} /\ done
  /\ Goto(w, "ended")
  /\ UNCHANGED <<workVars, claimed, callVars, faults>>

SeesCancel(w) ==
  /\ place[w] \in {"loop", "sleeping"} /\ cancelled
  /\ Goto(w, "failed")
  /\ UNCHANGED <<workVars, claimed, callVars, faults>>

(* What happens after the select, a cancellation or a sibling's stop, does  *)
(* not keep RunOnce from starting.                                          *)
SeesNothing(w) ==
  /\ place[w] = "loop" /\ ~done /\ ~cancelled
  /\ Goto(w, "dispatching")
  /\ UNCHANGED <<workVars, claimed, callVars, faults>>

Wakes(w) ==
  /\ place[w] = "sleeping"
  /\ Goto(w, "loop")
  /\ UNCHANGED <<workVars, claimed, callVars, faults>>

(* RunOnce: DispatchPending maps up to PullSize deltas in one transaction.  *)
DispatchPending(w) ==
  /\ place[w] = "dispatching"
  /\ \E D \in SUBSET PendingDeltas :
       /\ \/ Cardinality(D) = PullSize
          \/ Cardinality(D) < PullSize /\ D = PendingDeltas
       /\ delta' = [c \in Changes |-> IF c \in D THEN "dispatched" ELSE delta[c]]
       /\ job' = [c \in Changes |-> IF c \in D THEN "pending" ELSE job[c]]
  /\ Goto(w, "claiming")
  /\ UNCHANGED <<tries, claimed, callVars, faults>>

(* SKIP LOCKED: a claim may miss rows another statement works on. *)
ClaimNextBatch(w) ==
  /\ place[w] = "claiming"
  /\ \E C \in SUBSET {c \in Changes : job[c] \in {"pending", "due", "expired"}} :
       /\ Cardinality(C) <= BatchSize
       /\ job' = [c \in Changes |-> IF c \in C THEN "processing" ELSE job[c]]
       /\ claimed' = [claimed EXCEPT ![w] = C]
  /\ Goto(w, "working")
  /\ UNCHANGED <<delta, tries, callVars, faults>>

LastAttempt(n) == n >= MaxAttempts

Finish(w, c) ==
  /\ place[w] = "working" /\ c \in claimed[w]
  /\ \/ job' = [job EXCEPT ![c] = "synced"] /\ UNCHANGED tries
     \/ /\ tries' = [tries EXCEPT ![c] = @ + 1]
        /\ job' = [job EXCEPT ![c] = IF LastAttempt(tries'[c]) THEN "dead" ELSE "retrying"]
  /\ claimed' = [claimed EXCEPT ![w] = @ \ {c}]
  /\ UNCHANGED <<delta, place, callVars, faults>>

RunOnceReturns(w) ==
  /\ place[w] = "working" /\ claimed[w] = {}
  /\ Goto(w, "after")
  /\ UNCHANGED <<workVars, claimed, callVars, faults>>

(* RunOnce, MakeRetryingAvailable or WorkComplete returns an error.  Claimed *)
(* jobs are left to their leases or given back.                              *)
Fails(w) ==
  /\ place[w] \in {"dispatching", "claiming", "working", "after", "counting deltas",
                   "counting jobs"}
  /\ \/ cancelled /\ UNCHANGED faults
     \/ faults < MaxFaults /\ faults' = faults + 1
  /\ \E back \in {"due", "processing"} :
       job' = [c \in Changes |-> IF c \in claimed[w] THEN back ELSE job[c]]
  /\ claimed' = [claimed EXCEPT ![w] = {}]
  /\ Goto(w, "failed")
  /\ UNCHANGED <<delta, tries, callVars>>

(* afterRunOnce, when it is MakeRetryingAvailable.                          *)
MakeRetryingAvailable(w) ==
  /\ place[w] = "after"
  /\ job' = [c \in Changes |-> IF job[c] = "retrying" THEN "due" ELSE job[c]]
  /\ before' = [before EXCEPT ![w] = Recorded]
  /\ Goto(w, "counting deltas")
  /\ UNCHANGED <<delta, tries, claimed, complete, done, errCh, cancelled, result, faults>>
-----------------------------------------------------------------------------
(* WorkComplete: two statements, each with a snapshot of its own.           *)

Counted_JobsFirst(n) == IF n = 1 THEN OpenJobs ELSE PendingDeltas
Counted(n) == IF n = 1 THEN PendingDeltas ELSE OpenJobs

CountFirst(w) ==
  /\ place[w] = "counting deltas"
  /\ Goto(w, IF Counted(1) = {} THEN "counting jobs" ELSE "sleeping")
  /\ UNCHANGED <<workVars, claimed, callVars, faults>>

(* The answer TRUE closes the done channel. *)
CountSecond(w) ==
  /\ place[w] = "counting jobs"
  /\ IF Counted(2) = {}
       THEN /\ complete' = [complete EXCEPT ![w] = TRUE]
            /\ done' = TRUE
            /\ Goto(w, "ended")
       ELSE /\ Goto(w, "sleeping")
            /\ UNCHANGED <<complete, done>>
  /\ UNCHANGED <<workVars, claimed, before, errCh, cancelled, result, faults>>
-----------------------------------------------------------------------------
(* errCh has room for one error of every goroutine. *)
Capacity_One == 1
Capacity == Cardinality(Workers)

SendError(w) ==
  /\ place[w] = "failed"
  /\ errCh < Capacity
  /\ errCh' = errCh + 1
  /\ Goto(w, "sent")
  /\ UNCHANGED <<workVars, claimed, before, complete, done, cancelled, result, faults>>

Stop(w) ==
  /\ place[w] = "sent"
  /\ done' = TRUE
  /\ Goto(w, "ended")
  /\ UNCHANGED <<workVars, claimed, before, complete, errCh, cancelled, result, faults>>

(* The errors are looked at when every goroutine has returned. *)
Outcome == IF errCh > 0 THEN "error" ELSE "ok"

RunWorkersReturns ==
  /\ result = "none"
  /\ \A w \in Workers : place[w] = "ended"
  /\ result' = Outcome
  /\ UNCHANGED <<workVars, place, claimed, before, complete, done, errCh, cancelled, faults>>
-----------------------------------------------------------------------------
Worker(w) ==
  \/ SeesDone(w) \/ SeesCancel(w) \/ SeesNothing(w) \/ Wakes(w)
  \/ DispatchPending(w) \/ ClaimNextBatch(w) \/ (\E c \in Changes : Finish(w, c))
  \/ RunOnceReturns(w) \/ MakeRetryingAvailable(w)
  \/ CountFirst(w) \/ CountSecond(w) \/ SendError(w) \/ Stop(w)

HostNext ==
  \/ \E c \in Changes : Enqueue(c) \/ BecomesDue(c) \/ LeaseExpires(c)
  \/ Cancel
  \/ \E w \in Workers : Worker(w) \/ Fails(w)
  \/ RunWorkersReturns

HostSpec == HostInit /\ [][HostNext]_hostVars

ClaimsSome(w) == ClaimNextBatch(w) /\ claimed'[w] # {}

(* Goroutines are scheduled; a job that waits is not missed by every claim. *)
HostFairness ==
  /\ \A w \in Workers : WF_hostVars(Worker(w))
  /\ SF_hostVars(\E w \in Workers : ClaimsSome(w))
  /\ WF_hostVars(RunWorkersReturns)

FairHostSpec == HostSpec /\ HostFairness
-----------------------------------------------------------------------------
(* A change that was recorded when WorkComplete was called is settled when  *)
(* it answers TRUE: no dispatch between its two counts hides a change from  *)
(* both.                                                                    *)
CompleteMeansSettled ==
  \A w \in Workers : complete[w] => before[w] \subseteq Settled

(* RunWorkers returns nil only when a worker found the work complete and no *)
(* other failed.                                                            *)
NilMeansComplete ==
  result = "ok" =>
    /\ \E w \in Workers : complete[w] /\ before[w] \subseteq Settled
    /\ errCh = 0

(* Nobody is told that the work is complete while some of it is left.       *)
CompletionIsTrue == HostTypeOK /\ CompleteMeansSettled /\ NilMeansComplete

(* The drain ends: the application's changes come to an end, so the work is *)
(* done, a worker fails or the caller cancels, and no goroutine waits for   *)
(* room in errCh for ever.                                                  *)
DrainEnds == <>(result # "none")
=============================================================================
