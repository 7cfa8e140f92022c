----------------------------- MODULE SqliteJobs -----------------------------
(***************************************************************************)
(* The SQLite job store, pkg/connectors/sqlite/job_store.go.               *)
(*                                                                         *)
(* A client is a process with its one connection (cli/run.go:329).  Every  *)
(* update is a statement of its own.  A claim reads the clock, then begins *)
(* a transaction that selects a candidate and updates it.  SQLite lets a   *)
(* transaction that has read write only while nothing was committed since; *)
(* otherwise the statement fails and the claim with it.  ClaimNextBatch is *)
(* a loop of such claims; when one fails it gives back what it claimed, as *)
(* far as the statements that do so succeed.                               *)
(*                                                                         *)
(* SQL's NULL deadline is NoTime: never later than any reading.            *)
(***************************************************************************)
EXTENDS Integers, Sequences, SequencesExt

CONSTANTS
  Clients,       \* processes; a worker's ID is its name
  NoWorker,      \* NULL locked_by
  Syncs,         \* sync IDs
  MaxJobs,       \* bound on the jobs created
  MaxTime,       \* bound on the clock
  MaxCount,      \* bound on attempt_count
  LockFors,      \* positive lease durations
  Delays,        \* how far ahead of a reading callers put available_at
  BatchLimits,   \* positive limits; 1 stands for ClaimNext
  MaxFaults      \* bound on give-backs that fail

ASSUME SqliteJobsAssumption ==
  /\ NoWorker \notin Clients
  /\ MaxJobs \in Nat /\ MaxTime \in Nat /\ MaxCount \in Nat /\ MaxFaults \in Nat
  /\ LockFors \subseteq Nat \ {0}
  /\ Delays \subseteq Nat
  /\ BatchLimits \subseteq Nat \ {0}

VARIABLES
  now,       \* the clock
  nextID,    \* number of the row inserted last
  jobs,      \* jobs[n]: the n-th row of deltaflow_sync_jobs
  calls,     \* calls[c]: the call that client c makes
  held,      \* held[c]: the jobs that claims returned to c
  faults,    \* number of give-backs that failed
  dropped    \* dropped[c]: jobs, with their deadline, that c failed to give
             \* back; a history variable, which no guard reads

jobsVars == <<now, nextID, jobs, calls, held, faults, dropped>>

NoTime == -1
JobIDs == 1..MaxJobs
States == {"pending", "processing", "retrying", "synced", "dead"}

Row == [sync : Syncs, state : States, attempts : 0..MaxCount,
        availableAt : Nat, createdAt : Nat,
        lockedBy : Clients \cup {NoWorker}, lockedUntil : Nat \cup {NoTime}]

Idle == [op |-> "idle"]

(* Type invariant.  A claim keeps its sync, duration and limit, when it     *)
(* began, its reading, its candidate, the jobs it has claimed (in order),   *)
(* and whether the database is still as its transaction read it.            *)
JobsTypeOK ==
  /\ now \in 0..MaxTime
  /\ nextID \in 0..MaxJobs
  /\ jobs \in [1..nextID -> Row]
  /\ \A c \in Clients :
       LET call == calls[c]
       IN  \/ call = Idle
           \/ call.op = "update" /\ call.reading \in 0..now
           \/ /\ call.op = "undo" /\ call.reading \in 0..now
              /\ Range(call.batch) \subseteq 1..nextID
           \/ /\ call.op \in {"clock", "select", "claim"}
              /\ call.sync \in Syncs /\ call.lockFor \in LockFors
              /\ call.start \in 0..now /\ call.reading \in call.start..now
              /\ call.candidate \in 0..nextID
              /\ call.current \in BOOLEAN
              /\ Range(call.batch) \subseteq 1..nextID
              /\ Len(call.batch) <= call.limit
  /\ held \in [Clients -> SUBSET (1..nextID)]
  /\ faults \in 0..MaxFaults
  /\ dropped \in [Clients -> SUBSET ((1..nextID) \X (Nat \cup {NoTime}))]

JobsInit ==
  /\ now = 0
  /\ nextID = 0
  /\ jobs = [j \in 1..0 |-> j]
  /\ calls = [c \in Clients |-> Idle]
  /\ held = [c \in Clients |-> {}]
  /\ faults = 0
  /\ dropped = [c \in Clients |-> {}]
-----------------------------------------------------------------------------
Active(j, t) == jobs[j].state = "processing" /\ jobs[j].lockedUntil > t

Expired(j, t) == jobs[j].state = "processing" /\ jobs[j].lockedUntil <= t

Claimable_IgnoresLease(j, s, t) ==
  jobs[j].sync = s /\ jobs[j].state \in {"pending", "retrying", "processing"}
Claimable(j, s, t) ==
  /\ jobs[j].sync = s
  /\ \/ jobs[j].state \in {"pending", "retrying"} /\ jobs[j].availableAt <= t
     \/ Expired(j, t)

Owned_IgnoresExpiry(j, w, t) ==
  jobs[j].state = "processing" /\ jobs[j].lockedBy = w
Owned_Anyone(j, w, t) == Active(j, t)
Owned(j, w, t) == Active(j, t) /\ jobs[j].lockedBy = w

(* ORDER BY available_at_micros, created_at_micros, id. *)
Before(i, j) ==
  LET a == jobs[i]
      b == jobs[j]
  IN  \/ a.availableAt < b.availableAt
      \/ /\ a.availableAt = b.availableAt
         /\ \/ a.createdAt < b.createdAt
            \/ a.createdAt = b.createdAt /\ i < j

(* A commit makes the reads of all open transactions old. *)
Stale == [c \in Clients |-> IF calls[c].op = "claim"
                              THEN [calls[c] EXCEPT !.current = FALSE] ELSE calls[c]]

Committed(c, call) == calls' = [Stale EXCEPT ![c] = call]
-----------------------------------------------------------------------------
(* Calls of one statement: the clock is read, then the statement runs.      *)

ReadClock(c) ==
  /\ calls[c] = Idle
  /\ calls' = [calls EXCEPT ![c] = [op |-> "update", reading |-> now]]
  /\ UNCHANGED <<now, nextID, jobs, held, faults, dropped>>

(* The statement changes no row, fails, or its context was cancelled. *)
Ends(c) ==
  /\ calls[c].op = "update"
  /\ calls' = [calls EXCEPT ![c] = Idle]
  /\ UNCHANGED <<now, nextID, jobs, held, faults, dropped>>

NewRow(s, at, delay) ==
  [sync |-> s, state |-> "pending", attempts |-> 0,
   availableAt |-> at + delay, createdAt |-> at,
   lockedBy |-> NoWorker, lockedUntil |-> NoTime]

Create(c, s, delay) ==
  /\ calls[c].op = "update"
  /\ nextID < MaxJobs
  /\ nextID' = nextID + 1
  /\ jobs' = [j \in 1..nextID' |->
               IF j <= nextID THEN jobs[j] ELSE NewRow(s, calls[c].reading, delay)]
  /\ Committed(c, Idle)
  /\ UNCHANGED <<now, held, faults, dropped>>

UpdateRow(c, j, row) ==
  /\ jobs' = [jobs EXCEPT ![j] = row]
  /\ Committed(c, Idle)
  /\ UNCHANGED <<now, nextID, faults, dropped>>

(* A worker updates a job that it claimed. *)
OwnerUpdates(c, j, row) ==
  /\ calls[c].op = "update"
  /\ j \in held[c]
  /\ Owned(j, c, calls[c].reading)
  /\ UpdateRow(c, j, row)

Unlocked(row) == [row EXCEPT !.lockedBy = NoWorker, !.lockedUntil = NoTime]

Settles(c, j, row) ==
  OwnerUpdates(c, j, Unlocked(row)) /\ held' = [held EXCEPT ![c] = @ \ {j}]

RenewLease(c, j, d) ==
  /\ OwnerUpdates(c, j, [jobs[j] EXCEPT !.lockedUntil = calls[c].reading + d])
  /\ UNCHANGED held

MarkSynced(c, j) == Settles(c, j, [jobs[j] EXCEPT !.state = "synced"])

MarkRetrying(c, j, delay) ==
  /\ jobs[j].attempts < MaxCount
  /\ Settles(c, j, [jobs[j] EXCEPT !.state = "retrying", !.attempts = @ + 1,
                                   !.availableAt = calls[c].reading + delay])

RequeuedRow(j, at) ==
  Unlocked([jobs[j] EXCEPT !.state = "retrying", !.availableAt = at])

RequeueClaimed(c, j, delay) ==
  /\ OwnerUpdates(c, j, RequeuedRow(j, calls[c].reading + delay))
  /\ held' = [held EXCEPT ![c] = @ \ {j}]

MarkDead(c, j) ==
  /\ jobs[j].attempts < MaxCount
  /\ Settles(c, j, [jobs[j] EXCEPT !.state = "dead", !.attempts = @ + 1])

OperatorUpdates(c, j, row) ==
  /\ calls[c].op = "update"
  /\ Expired(j, calls[c].reading)
  /\ UpdateRow(c, j, row)
  /\ UNCHANGED held

ForceReleaseExpiredLease(c, j) == OperatorUpdates(c, j, Unlocked(jobs[j]))

RequeueExpiredLease(c, j, delay) ==
  OperatorUpdates(c, j, RequeuedRow(j, calls[c].reading + delay))
-----------------------------------------------------------------------------
(* ClaimNext and ClaimNextBatch.                                            *)

BeginClaims(c, s, n, d) ==
  /\ calls[c] = Idle
  /\ calls' = [calls EXCEPT ![c] =
       [op |-> "clock", sync |-> s, limit |-> n, lockFor |-> d, start |-> now,
        reading |-> now, candidate |-> 0, current |-> TRUE, batch |-> <<>>]]
  /\ UNCHANGED <<now, nextID, jobs, held, faults, dropped>>

ClaimReadsClock(c) ==
  /\ calls[c].op = "clock" /\ Len(calls[c].batch) < calls[c].limit
  /\ calls' = [calls EXCEPT ![c].op = "select", ![c].reading = now]
  /\ UNCHANGED <<now, nextID, jobs, held, faults, dropped>>

Returned(c, call) ==
  held' = [held EXCEPT ![c] = @ \cup Range(call.batch)]

(* The transaction begins and reads; with nothing to claim the batch ends. *)
SelectCandidate(c) ==
  LET call  == calls[c]
      found == {j \in 1..nextID : Claimable(j, call.sync, call.reading)}
  IN  /\ call.op = "select"
      /\ \/ \E j \in found :
              /\ \A i \in found \ {j} : Before(j, i)
              /\ calls' = [calls EXCEPT ![c] =
                   [call EXCEPT !.op = "claim", !.candidate = j, !.current = TRUE]]
              /\ UNCHANGED held
         \/ /\ found = {}
            /\ calls' = [calls EXCEPT ![c] = Idle]
            /\ Returned(c, call)
      /\ UNCHANGED <<now, nextID, jobs, faults, dropped>>

(* claimCandidateTx and the commit.  It repeats the condition of the select *)
(* for its candidate.                                                       *)
ClaimCandidate(c) ==
  LET call == calls[c]
      j    == call.candidate
      next == [call EXCEPT !.op = "clock", !.reading = call.start, !.candidate = 0,
                           !.batch = Append(call.batch, j)]
  IN  /\ call.op = "claim"
      /\ call.current
      /\ Claimable(j, call.sync, call.reading)
      /\ jobs' = [jobs EXCEPT ![j].state = "processing", ![j].lockedBy = c,
                              ![j].lockedUntil = call.reading + call.lockFor]
      /\ Committed(c, next)
      /\ UNCHANGED <<now, nextID, held, faults, dropped>>

EndClaims(c) ==
  /\ calls[c].op = "clock" /\ Len(calls[c].batch) = calls[c].limit
  /\ calls' = [calls EXCEPT ![c] = Idle]
  /\ Returned(c, calls[c])
  /\ UNCHANGED <<now, nextID, jobs, faults, dropped>>

(* The statement of a claim fails: the database was changed or locked by    *)
(* another process, or the context was cancelled.  Rolled back, the batch   *)
(* is given back, one job after the other.                                  *)
ClaimFails(c) ==
  LET call == calls[c]
  IN  /\ call.op \in {"clock", "select", "claim"}
      /\ call.op = "clock" => Len(call.batch) < call.limit
      /\ calls' = [calls EXCEPT ![c] =
                     [op |-> "undo", reading |-> now, batch |-> call.batch]]
      /\ UNCHANGED <<now, nextID, jobs, held, faults, dropped>>

(* requeueClaimedBatch runs one RequeueClaimed after the other, in a        *)
(* context that is not cancelled with the claim's.  It ignores their        *)
(* answers: a job that is not the caller's any more stays as it is whatever *)
(* its statement does, and one whose statement fails stays leased.          *)
GiveBack_Cancelled(c, j) == jobs' = jobs
GiveBack(c, j) ==
  jobs' = IF Owned(j, c, now) THEN [jobs EXCEPT ![j] = RequeuedRow(j, calls[c].reading)]
                              ELSE jobs

GiveBackFails(c, j) ==
  /\ faults < MaxFaults /\ faults' = faults + 1
  /\ Owned(j, c, now)
  /\ dropped' = [dropped EXCEPT ![c] = @ \cup {<<j, jobs[j].lockedUntil>>}]
  /\ UNCHANGED jobs

RequeueClaimedBatch(c) ==
  LET call == calls[c]
      rest == [call EXCEPT !.batch = Tail(@)]
  IN  /\ call.op = "undo"
      /\ \/ /\ call.batch = <<>>
            /\ calls' = [calls EXCEPT ![c] = Idle]
            /\ UNCHANGED <<jobs, faults, dropped>>
         \/ /\ call.batch # <<>>
            /\ \/ /\ GiveBack(c, Head(call.batch))
                  /\ Committed(c, rest)
                  /\ UNCHANGED <<faults, dropped>>
               \/ /\ GiveBackFails(c, Head(call.batch))
                  /\ calls' = [calls EXCEPT ![c] = rest]
      /\ UNCHANGED <<now, nextID, held>>
-----------------------------------------------------------------------------
(* The lists an operator reads, without their limit and order. *)
ListActiveLeases(t)            == {j \in 1..nextID : Active(j, t)}
ListExpiredProcessingLeases_NotNull(t) ==
  {j \in 1..nextID : Expired(j, t) /\ jobs[j].lockedUntil # NoTime}
ListExpiredProcessingLeases(t) == {j \in 1..nextID : Expired(j, t)}
ListNearExpiryLeases(t, within) ==
  {j \in 1..nextID : Active(j, t) /\ jobs[j].lockedUntil <= t + within}

Tick ==
  /\ now < MaxTime
  /\ now' = now + 1
  /\ UNCHANGED <<nextID, jobs, calls, held, faults, dropped>>

Statement(c) ==
  \/ \E s \in Syncs, b \in Delays : Create(c, s, b)
  \/ \E j \in 1..nextID :
       \/ MarkSynced(c, j) \/ MarkDead(c, j) \/ ForceReleaseExpiredLease(c, j)
       \/ \E d \in LockFors : RenewLease(c, j, d)
       \/ \E b \in Delays : \/ MarkRetrying(c, j, b) \/ RequeueClaimed(c, j, b)
                            \/ RequeueExpiredLease(c, j, b)

Claims(c) ==
  \/ \E s \in Syncs, n \in BatchLimits, d \in LockFors : BeginClaims(c, s, n, d)
  \/ ClaimReadsClock(c) \/ SelectCandidate(c) \/ ClaimCandidate(c)
  \/ EndClaims(c) \/ ClaimFails(c) \/ RequeueClaimedBatch(c)

JobsNext ==
  \/ \E c \in Clients : ReadClock(c) \/ Statement(c) \/ Ends(c) \/ Claims(c)
  \/ Tick

JobsSpec == JobsInit /\ [][JobsNext]_jobsVars
-----------------------------------------------------------------------------
(* Every lease that still counts is known to the process that holds it, or  *)
(* that process failed to give it back and the lease has the deadline it    *)
(* had then.  A claim that fails half way, its context cancelled, leaves no *)
(* job locked that nobody works on unless the database refused the update,  *)
(* and then nobody makes the lease longer.                                  *)
NoUnknownLease ==
  \A c \in Clients, j \in 1..nextID : Owned(j, c, now) =>
    \/ j \in held[c]
    \/ calls[c].op \in {"clock", "select", "claim", "undo"} /\ Contains(calls[c].batch, j)
    \/ <<j, jobs[j].lockedUntil>> \in dropped[c]

(* A batch holds a job twice only when the lease was too short for the call *)
(* and the job's lease ended before the batch was complete.                 *)
BatchIsDistinct ==
  \A c \in Clients : calls[c].op \in {"clock", "select", "claim"} =>
    LET call == calls[c]
    IN  \A h, i \in DOMAIN call.batch :
          h < i /\ call.batch[h] = call.batch[i] => now >= call.start + call.lockFor

(* Owner and deadline of a lease are set and cleared together.              *)
LeaseWellFormed ==
  \A j \in 1..nextID :
    /\ jobs[j].lockedBy # NoWorker <=> jobs[j].lockedUntil # NoTime
    /\ jobs[j].lockedBy # NoWorker => jobs[j].state = "processing"

(* The lists of active and of expired leases partition the processing rows, *)
(* also those whose lease was released by force.                            *)
LeaseListsCover ==
  \A t \in 0..MaxTime :
    LET active  == ListActiveLeases(t)
        expired == ListExpiredProcessingLeases(t)
    IN  /\ active \cup expired = {j \in 1..nextID : jobs[j].state = "processing"}
        /\ active \cap expired = {}
        /\ ListNearExpiryLeases(t, 1) = active \ ListActiveLeases(t + 1)

(* The rows are well-formed, and workers, claims and operators agree on     *)
(* which of them are leased.                                                *)
LeasesConsistent == JobsTypeOK /\ LeaseWellFormed /\ LeaseListsCover

(* However late a statement runs, a row whose lease is live is changed only *)
(* by its holder: by an update of its own or when it gives back a batch,    *)
(* and only to renew the lease or to end it, never by a claim.  A row that  *)
(* was synced or dead does not change at all.  The caller is known by its   *)
(* call, which every update ends and every give-back shortens.              *)
LateCallsAreHarmless ==
  [][\A j \in 1..nextID : jobs'[j] # jobs[j] =>
       /\ Active(j, now) =>
            LET w == jobs[j].lockedBy
            IN  /\ calls[w].op \in {"update", "undo"}
                /\ calls'[w] # calls[w]
                /\ jobs'[j].state # "processing" \/ jobs'[j].lockedBy = w
       /\ jobs[j].state \notin {"synced", "dead"}]_jobsVars
-----------------------------------------------------------------------------
(* The lease protocol.                                                      *)

Phase(row) ==
  IF row.state = "processing"
    THEN IF row.lockedUntil > now THEN "held" ELSE "lapsed"
    ELSE IF row.state \in {"pending", "retrying"} THEN "queued" ELSE row.state

statusBar   == [j \in JobIDs |-> IF j <= nextID THEN Phase(jobs[j]) ELSE "absent"]
holderBar   == [j \in JobIDs |-> IF j <= nextID /\ Active(j, now)
                                  THEN jobs[j].lockedBy ELSE NoWorker]
attemptsBar == [j \in JobIDs |-> IF j <= nextID THEN jobs[j].attempts ELSE 0]

Lease == INSTANCE JobLease WITH Jobs <- JobIDs, Workers <- Clients,
                                status <- statusBar, holder <- holderBar,
                                attempts <- attemptsBar

(* No statement is under way that runs later than its call read the clock. *)
ReadingsCurrent ==
  \A c \in Clients :
    calls[c].op \in {"update", "select", "claim"} => calls[c].reading = now

(* Claims in several transactions, and those that are given back, implement *)
(* JobLease: a step of any other kind is taken only while a late statement  *)
(* is under way, which may set a lease that has already passed.             *)
ImplementsJobLease ==
  /\ Lease!LeaseInit
  /\ [][ReadingsCurrent => Lease!LeaseNext]_(Lease!leaseVars)
=============================================================================
