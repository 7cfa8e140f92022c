------------------------------ MODULE JobStore ------------------------------
(***************************************************************************)
(* The in-memory job store, internal/store.go: every method runs under one *)
(* mutex and reads the clock inside it, so every method is one action.     *)
(*                                                                         *)
(* A call that returns an error, or claims nothing, changes no state and   *)
(* is not a step here; its guard is the negation of the error's condition. *)
(* Left out: payload columns, LastError, UpdatedAt, SyncedAt, DeadAt,      *)
(* GhostDetected, logging and telemetry, none of which a guard reads.      *)
(*                                                                         *)
(* An operator named Op_<Slip>, above Op, is Op with a mistake a change of *)
(* the code could introduce; Op is replaced by it to see that the property *)
(* about Op can fail.                                                      *)
(***************************************************************************)
EXTENDS Integers, FiniteSets

CONSTANTS
  Workers,            \* worker IDs
  NoWorker,           \* nil locked_by
  Syncs,              \* sync IDs
  MaxDeltas,          \* deltas are numbered 1..MaxDeltas
  MaxJobs,            \* bound on the jobs created
  MaxTime,            \* bound on the clock
  MaxCount,           \* bound on attempt_count
  LockFors,           \* the positive lease durations callers ask for
  Delays,             \* how far ahead callers put available_at
  MaxAttemptsInputs,  \* MaxAttempts given to Create, 0 when left unset
  BatchLimits         \* the positive limits of ClaimNextBatch

ASSUME JobStoreAssumption ==
  /\ NoWorker \notin Workers
  /\ MaxDeltas \in Nat
  /\ MaxJobs \in Nat
  /\ MaxTime \in Nat
  /\ MaxCount \in Nat
  /\ LockFors \subseteq Nat \ {0}
  /\ Delays \subseteq Nat
  /\ MaxAttemptsInputs \subseteq Nat
  /\ BatchLimits \subseteq Nat \ {0}

VARIABLES
  now,         \* the store's clock
  nextID,      \* number of the job created last
  jobs,        \* jobs[n]: the job with ID "job-n"
  jobByDelta   \* jobByDelta[d]: the outbox job mapped to delta d, 0 if none

storeVars == <<now, nextID, jobs, jobByDelta>>

NoTime   == -1         \* nil locked_until: like a past deadline, never live
NoDelta  == 0          \* nil DeltaID
DefaultMaxAttempts == 5

DeltaIDs == 1..MaxDeltas
JobIDs   == 1..MaxJobs
Origins  == {"outbox", "manual"}  \* manual stands for every non-outbox origin
States   == {"pending", "processing", "retrying", "synced", "dead"}

Job == [sync : Syncs, origin : Origins, delta : DeltaIDs \cup {NoDelta},
        state : States, attempts : 0..MaxCount, maxAttempts : Nat \ {0},
        availableAt : Nat, createdAt : Nat,
        lockedBy : Workers \cup {NoWorker}, lockedUntil : Nat \cup {NoTime}]

(* Type invariant: the store's maps hold well-formed rows. *)
TypeOK ==
  /\ now \in 0..MaxTime
  /\ nextID \in 0..MaxJobs
  /\ jobs \in [1..nextID -> Job]
  /\ jobByDelta \in [DeltaIDs -> 0..nextID]

Init ==
  /\ now = 0
  /\ nextID = 0
  /\ jobs = [j \in 1..0 |-> j]
  /\ jobByDelta = [d \in DeltaIDs |-> 0]
-----------------------------------------------------------------------------
(* IDs compare as strings: "job-10" sorts before "job-2".  Exact below 100. *)
IDBefore(m, n) ==
  LET padded(k) == IF k < 10 THEN 10 * k ELSE k
  IN  \/ padded(m) < padded(n)
      \/ padded(m) = padded(n) /\ m < n

(* The claim order: available_at, then created_at, then ID. *)
Before_IgnoresAvailability(i, j) == IDBefore(i, j)
Before(i, j) ==
  LET a == jobs[i]
      b == jobs[j]
  IN  \/ a.availableAt < b.availableAt
      \/ /\ a.availableAt = b.availableAt
         /\ \/ a.createdAt < b.createdAt
            \/ a.createdAt = b.createdAt /\ IDBefore(i, j)

Live(j) == jobs[j].state = "processing" /\ jobs[j].lockedUntil > now

(* A processing job whose lease is missing or not after now. *)
Expired(j) == jobs[j].state = "processing" /\ jobs[j].lockedUntil <= now

Claimable_IgnoresLease(j, s) ==
  /\ jobs[j].sync = s
  /\ \/ jobs[j].state \in {"pending", "retrying"} /\ jobs[j].availableAt <= now
     \/ jobs[j].state = "processing"
Claimable(j, s) ==
  /\ jobs[j].sync = s
  /\ \/ jobs[j].state \in {"pending", "retrying"} /\ jobs[j].availableAt <= now
     \/ Expired(j)

Owned_IgnoresExpiry(j, w) == jobs[j].state = "processing" /\ jobs[j].lockedBy = w
Owned_Anyone(j, w) == Live(j)
Owned(j, w) == Live(j) /\ jobs[j].lockedBy = w
-----------------------------------------------------------------------------
(* Create and createLocked.  The caller leaves State empty and CreatedAt    *)
(* zero (pending, now); MaxAttempts and AvailableAt it may set.             *)

CreateAllowed_Remaps(o, d) == o = "outbox" => d # NoDelta
CreateAllowed(o, d) == o = "outbox" => d # NoDelta /\ jobByDelta[d] = 0

NewJob_NoDefault(s, o, d, m, at) ==
  [sync |-> s, origin |-> o, delta |-> d, state |-> "pending", attempts |-> 0,
   maxAttempts |-> m, availableAt |-> at, createdAt |-> now,
   lockedBy |-> NoWorker, lockedUntil |-> NoTime]
NewJob(s, o, d, m, at) ==
  [sync |-> s, origin |-> o, delta |-> d, state |-> "pending", attempts |-> 0,
   maxAttempts |-> IF m = 0 THEN DefaultMaxAttempts ELSE m,
   availableAt |-> at, createdAt |-> now,
   lockedBy |-> NoWorker, lockedUntil |-> NoTime]

Create(s, o, d, m, delay) ==
  /\ nextID < MaxJobs
  /\ CreateAllowed(o, d)
  /\ nextID' = nextID + 1
  /\ jobs' = [j \in 1..nextID' |-> IF j = nextID'
                THEN NewJob(s, o, d, m, now + delay) ELSE jobs[j]]
  /\ jobByDelta' = IF o = "outbox" THEN [jobByDelta EXCEPT ![d] = nextID']
                                   ELSE jobByDelta
  /\ UNCHANGED now
-----------------------------------------------------------------------------
(* Claims.  attempt_count is not touched, also when an expired lease is     *)
(* taken over.                                                              *)

(* An update of one row. *)
Put(j, job) ==
  /\ jobs' = [jobs EXCEPT ![j] = job]
  /\ UNCHANGED <<now, nextID, jobByDelta>>

Leased(job, w, d) ==
  [job EXCEPT !.state = "processing", !.lockedBy = w, !.lockedUntil = now + d]

ClaimableJobs(s) == {j \in 1..nextID : Claimable(j, s)}

ClaimNext(s, w, d) ==
  \E j \in ClaimableJobs(s) :
    /\ \A i \in ClaimableJobs(s) \ {j} : Before(j, i)
    /\ Put(j, Leased(jobs[j], w, d))

(* The first n of the claimable jobs, or all of them when they are fewer. *)
FirstClaimable(C, s, n) ==
  /\ C \subseteq ClaimableJobs(s)
  /\ C # {}
  /\ \/ Cardinality(C) = n
     \/ Cardinality(C) < n /\ C = ClaimableJobs(s)
  /\ \A i \in C, j \in ClaimableJobs(s) \ C : Before(i, j)

ClaimNextBatch(s, w, n, d) ==
  \E C \in SUBSET (1..nextID) :
    /\ FirstClaimable(C, s, n)
    /\ jobs' = [j \in 1..nextID |->
                  IF j \in C THEN Leased(jobs[j], w, d) ELSE jobs[j]]
    /\ UNCHANGED <<now, nextID, jobByDelta>>
-----------------------------------------------------------------------------
(* Updates by the lease's owner (updateOwned).                              *)

Unlocked_KeepsDeadline(job) == [job EXCEPT !.lockedBy = NoWorker]
Unlocked(job) == [job EXCEPT !.lockedBy = NoWorker, !.lockedUntil = NoTime]

RenewLease(j, w, d) ==
  /\ Owned(j, w)
  /\ Put(j, [jobs[j] EXCEPT !.lockedUntil = now + d])

MarkSynced(j, w) ==
  /\ Owned(j, w)
  /\ Put(j, Unlocked([jobs[j] EXCEPT !.state = "synced"]))

MarkRetrying(j, w, delay) ==
  /\ Owned(j, w)
  /\ jobs[j].attempts < MaxCount
  /\ Put(j, Unlocked([jobs[j] EXCEPT !.state = "retrying",
                       !.attempts = jobs[j].attempts + 1,
                       !.availableAt = now + delay]))

RequeueClaimed(j, w, delay) ==
  /\ Owned(j, w)
  /\ Put(j, Unlocked([jobs[j] EXCEPT !.state = "retrying",
                       !.availableAt = now + delay]))

MarkDead(j, w) ==
  /\ Owned(j, w)
  /\ jobs[j].attempts < MaxCount
  /\ Put(j, Unlocked([jobs[j] EXCEPT !.state = "dead",
                       !.attempts = jobs[j].attempts + 1]))
-----------------------------------------------------------------------------
(* Operator actions: only on an expired lease, whoever owns it.  A forced   *)
(* release leaves the job processing, without an owner.                     *)

ForceReleaseExpiredLease(j) ==
  /\ Expired(j)
  /\ Put(j, Unlocked(jobs[j]))

RequeueExpiredLease(j, delay) ==
  /\ Expired(j)
  /\ Put(j, Unlocked([jobs[j] EXCEPT !.state = "retrying",
                       !.availableAt = now + delay]))
-----------------------------------------------------------------------------
(* Time passes between calls. *)
Tick ==
  /\ now < MaxTime
  /\ now' = now + 1
  /\ UNCHANGED <<nextID, jobs, jobByDelta>>

(* Calls on jobs that exist: those that name a worker, and an operator's. *)
WorkerCall(w) ==
  \/ \E s \in Syncs, t \in LockFors : ClaimNext(s, w, t)
  \/ \E s \in Syncs, n \in BatchLimits, t \in LockFors : ClaimNextBatch(s, w, n, t)
  \/ \E j \in 1..nextID, t \in LockFors : RenewLease(j, w, t)
  \/ \E j \in 1..nextID : MarkSynced(j, w) \/ MarkDead(j, w)
  \/ \E j \in 1..nextID, b \in Delays : MarkRetrying(j, w, b) \/ RequeueClaimed(j, w, b)

OperatorCall ==
  \/ \E j \in 1..nextID : ForceReleaseExpiredLease(j)
  \/ \E j \in 1..nextID, b \in Delays : RequeueExpiredLease(j, b)

Call == (\E w \in Workers : WorkerCall(w)) \/ OperatorCall

Next ==
  \/ \E s \in Syncs, o \in Origins, d \in DeltaIDs \cup {NoDelta},
        m \in MaxAttemptsInputs, b \in Delays : Create(s, o, d, m, b)
  \/ Call
  \/ Tick

Spec == Init /\ [][Next]_storeVars
-----------------------------------------------------------------------------
(* Safety.                                                                  *)

(* The two halves of a lease are set and cleared together, and only a       *)
(* processing job carries one: a finished or queued job that kept half of   *)
(* its lock would be invisible to claims or wrongly owned when claimed.     *)
LeaseWellFormed ==
  \A j \in 1..nextID :
    /\ jobs[j].lockedBy # NoWorker <=> jobs[j].lockedUntil # NoTime
    /\ jobs[j].lockedBy # NoWorker => jobs[j].state = "processing"

(* The map from deltas to outbox jobs and the jobs agree in both            *)
(* directions, so a delta has at most one outbox job however often a        *)
(* dispatcher and direct callers of Create race for it.                     *)
OneOutboxJobPerDelta ==
  /\ \A d \in DeltaIDs : jobByDelta[d] # 0 =>
        /\ jobs[jobByDelta[d]].origin = "outbox"
        /\ jobs[jobByDelta[d]].delta = d
  /\ \A j \in 1..nextID : jobs[j].origin = "outbox" =>
        /\ jobs[j].delta # NoDelta
        /\ jobByDelta[jobs[j].delta] = j

(* A synced or dead job never changes again, whichever worker, stale        *)
(* heartbeat or operator acts on it late.                                   *)
FinishedStaysFinished ==
  [][\A j \in 1..nextID : jobs[j].state \in {"synced", "dead"} =>
        jobs'[j] = jobs[j]]_storeVars

(* A live lease is its holder's alone.  No call of another worker, whether  *)
(* a claim, a batch or the late report of a lost lease, and no operator     *)
(* changes the job, and no step gives it to another worker.  Claims,        *)
(* updates and operator actions all test expiry on their own to make this   *)
(* so, and updates the owner besides.                                       *)
LiveLeaseKept ==
  [][\A j \in 1..nextID : Live(j) /\ jobs'[j] # jobs[j] =>
       /\ \A w \in Workers \ {jobs[j].lockedBy} : ~WorkerCall(w)
       /\ ~OperatorCall
       /\ \/ jobs'[j].state # "processing"
          \/ jobs'[j].lockedBy = jobs[j].lockedBy]_storeVars

(* Claims follow the queue: no step claims job j and leaves behind a job of *)
(* the same sync that has been claimable for longer (or as long, and was    *)
(* created earlier), one job at a time or in batches.                       *)
ClaimsInOrder ==
  [][LET waitsLonger(i, j) ==
           \/ jobs[i].availableAt < jobs[j].availableAt
           \/ /\ jobs[i].availableAt = jobs[j].availableAt
              /\ jobs[i].createdAt < jobs[j].createdAt
         claimed(j) == jobs'[j].lockedUntil > now
     IN  \A s \in Syncs : \A i, j \in ClaimableJobs(s) :
           waitsLonger(i, j) /\ claimed(j) => claimed(i)]_storeVars
-----------------------------------------------------------------------------
(* The job store implements the abstract lease protocol.                    *)

(* Where one row is in the life of its job. *)
Phase(job) ==
  IF job.state = "processing"
    THEN IF job.lockedUntil > now THEN "held" ELSE "lapsed"
    ELSE IF job.state \in {"pending", "retrying"} THEN "queued" ELSE job.state

statusBar   == [j \in JobIDs |-> IF j <= nextID THEN Phase(jobs[j])
                                                ELSE "absent"]
holderBar   == [j \in JobIDs |-> IF j <= nextID /\ Live(j)
                                  THEN jobs[j].lockedBy ELSE NoWorker]
attemptsBar == [j \in JobIDs |-> IF j <= nextID THEN jobs[j].attempts ELSE 0]

Lease == INSTANCE JobLease WITH Jobs <- JobIDs, status <- statusBar,
                                holder <- holderBar, attempts <- attemptsBar

(* Every step of the store is a step of JobLease or changes nothing there:  *)
(* a job is granted only while nobody holds it, a held one ends in one of   *)
(* the outcomes its holder may report, and attempt_count grows by one with  *)
(* a failed attempt and with nothing else.  The rows do not show who made   *)
(* the call; that is LiveLeaseKept's.                                       *)
ImplementsJobLease == Lease!LeaseSpec
=============================================================================
