--------------------------- MODULE JobStore_proofs ---------------------------
(***************************************************************************)
(* Theorems about the in-memory job store and, from "The in-memory outbox" *)
(* on, about the outbox built on it, for every value of their constants.   *)
(*                                                                         *)
(* JobStep says what any step can do to one job; that Next implies it is   *)
(* shown once, action by action, and everything about leases follows from  *)
(* it.  RecordStep and StageStep say the same of enqueues and dispatches.  *)
(***************************************************************************)
EXTENDS MemoryOutbox, FiniteSetTheorems, TLAPS

(* A job is released with an outcome: by its owner, or by an operator. *)
Outcome(j, state, at, failures) ==
  Unlocked([jobs[j] EXCEPT !.state = state, !.availableAt = at,
                           !.attempts = jobs[j].attempts + failures])

Kept(j)     == jobs'[j] = jobs[j]
Claimed(j, w, t) ==
  /\ jobs[j].state \in {"pending", "retrying"} \/ Expired(j)
  /\ jobs'[j] = Leased(jobs[j], w, t)
Renewed(j)  == /\ Live(j)
               /\ \E t \in LockFors :
                    jobs'[j] = [jobs[j] EXCEPT !.lockedUntil = now + t]
Orphaned(j) == Expired(j) /\ jobs'[j] = Unlocked(jobs[j])

(* Which outcomes the owner of a live lease and an operator may record. *)
MayEnd(j, state, failures) ==
  \/ Live(j) /\ state = "retrying"
  \/ Live(j) /\ state = "synced" /\ failures = 0
  \/ Live(j) /\ state = "dead" /\ failures = 1
  \/ Expired(j) /\ state = "retrying" /\ failures = 0

EndStates == {"synced", "retrying", "dead"}

Ended(j) ==
  \E state \in EndStates, at \in Nat, failures \in {0, 1} :
    /\ MayEnd(j, state, failures)
    /\ jobs[j].attempts + failures \in 0..MaxCount
    /\ jobs'[j] = Outcome(j, state, at, failures)

JobStep(j) ==
  \/ Kept(j) \/ Renewed(j) \/ Ended(j) \/ Orphaned(j)
  \/ \E w \in Workers, t \in LockFors : Claimed(j, w, t)

(* Steps other than Create leave the set of jobs and their mapping alone. *)
SameJobs ==
  /\ now' = now /\ nextID' = nextID /\ jobByDelta' = jobByDelta
  /\ jobs' = [j \in 1..nextID |-> jobs'[j]]

(* Such a step claims a set of jobs, or updates one. *)
ClaimSet(C, w, t) ==
  \A j \in 1..nextID : IF j \in C THEN Claimed(j, w, t) ELSE Kept(j)
Update(k) ==
  /\ Renewed(k) \/ Ended(k) \/ Orphaned(k)
  /\ \A i \in (1..nextID) \ {k} : Kept(i)

CallStep ==
  /\ SameJobs
  /\ \/ \E C \in SUBSET (1..nextID), w \in Workers, t \in LockFors :
          ClaimSet(C, w, t)
     \/ \E k \in 1..nextID : Update(k)

(* A job of the store keeps its type under an update of one job. *)
LEMMA UnlockedJob ==
  ASSUME NEW job \in Job
  PROVE  Unlocked(job) \in Job
BY JobStoreAssumption DEF Unlocked, Job, NoTime

(* A claim leaves a well-formed row.                                      *)
LEMMA LeasedJob ==
  ASSUME TypeOK, NEW job \in Job, NEW w \in Workers, NEW t \in LockFors
  PROVE  Leased(job, w, t) \in Job
<1>1. now + t \in Nat
  BY JobStoreAssumption DEF TypeOK
<1>2. QED
  BY <1>1 DEF Leased, Job, States

(* Recording an outcome leaves a well-formed row.                         *)
LEMMA OutcomeJob ==
  ASSUME TypeOK, NEW j \in 1..nextID, NEW state \in States, NEW at \in Nat,
         NEW failures \in Nat, jobs[j].attempts + failures \in 0..MaxCount
  PROVE  Outcome(j, state, at, failures) \in Job
<1>1. jobs[j] \in Job
  BY DEF TypeOK
<1>2. [jobs[j] EXCEPT !.state = state, !.availableAt = at,
                      !.attempts = jobs[j].attempts + failures] \in Job
  BY <1>1 DEF Job
<1>3. QED
  BY <1>2, UnlockedJob DEF Outcome

(* Every row of a step that keeps the jobs makes one of the row steps.    *)
LEMMA CallJobStep ==
  ASSUME CallStep, NEW j \in 1..nextID
  PROVE  JobStep(j)
BY DEF CallStep, ClaimSet, Update, JobStep

(* ClaimNext claims a set of one job.                                     *)
LEMMA ClaimNextStep ==
  ASSUME TypeOK, NEW s, NEW w \in Workers, NEW t \in LockFors,
         ClaimNext(s, w, t)
  PROVE  CallStep
<1>1. PICK j \in ClaimableJobs(s) : Put(j, Leased(jobs[j], w, t))
  BY DEF ClaimNext
<1>2. j \in 1..nextID /\ Claimed(j, w, t)
  BY <1>1 DEF ClaimableJobs, Claimable, Claimed, Put, TypeOK
<1>3. \A i \in (1..nextID) \ {j} : Kept(i)
  BY <1>1 DEF Kept, Put, TypeOK
<1>4. ClaimSet({j}, w, t)
  BY <1>2, <1>3 DEF ClaimSet
<1>5. SameJobs
  BY <1>1 DEF SameJobs, Put, TypeOK
<1>6. QED
  BY <1>2, <1>4, <1>5 DEF CallStep

(* ClaimNextBatch claims the set it selected.                             *)
LEMMA ClaimNextBatchStep ==
  ASSUME TypeOK, NEW s, NEW w \in Workers, NEW n, NEW t \in LockFors,
         ClaimNextBatch(s, w, n, t)
  PROVE  CallStep
<1>1. PICK C \in SUBSET (1..nextID) :
        /\ C \subseteq ClaimableJobs(s)
        /\ jobs' = [j \in 1..nextID |->
                      IF j \in C THEN Leased(jobs[j], w, t) ELSE jobs[j]]
  BY DEF ClaimNextBatch, FirstClaimable
<1>2. ClaimSet(C, w, t)
  BY <1>1 DEF ClaimSet, ClaimableJobs, Claimable, Claimed, Kept
<1>3. SameJobs
  BY <1>1 DEF SameJobs, ClaimNextBatch
<1>4. QED
  BY <1>2, <1>3 DEF CallStep

(* A method that puts one new row is an Update. *)
LEMMA PutStep ==
  ASSUME TypeOK, NEW k \in 1..nextID, NEW job, Put(k, job),
         jobs'[k] = job => Renewed(k) \/ Ended(k) \/ Orphaned(k)
  PROVE  CallStep
<1>1. jobs'[k] = job /\ SameJobs
  BY DEF Put, SameJobs, TypeOK
<1>2. \A i \in (1..nextID) \ {k} : Kept(i)
  BY DEF Kept, Put, TypeOK
<1>3. QED
  BY <1>1, <1>2 DEF CallStep, Update

(* RenewLease moves the deadline of a live lease and nothing else.        *)
LEMMA RenewLeaseStep ==
  ASSUME TypeOK, NEW k \in 1..nextID, NEW w, NEW t \in LockFors,
         RenewLease(k, w, t)
  PROVE  CallStep
<1>1. Put(k, [jobs[k] EXCEPT !.lockedUntil = now + t]) /\ Live(k)
  BY DEF RenewLease, Owned
<1>2. QED
  BY <1>1, PutStep DEF Renewed

(* ForceReleaseExpiredLease only unlocks an expired job.                  *)
LEMMA ForceReleaseStep ==
  ASSUME TypeOK, NEW k \in 1..nextID, ForceReleaseExpiredLease(k)
  PROVE  CallStep
BY PutStep DEF ForceReleaseExpiredLease, Orphaned

(* A method that records an outcome in one row is an Update.              *)
LEMMA EndStep ==
  ASSUME TypeOK, NEW k \in 1..nextID, NEW state \in EndStates,
         NEW at \in Nat, NEW failures \in {0, 1},
         MayEnd(k, state, failures),
         jobs[k].attempts + failures \in 0..MaxCount,
         Put(k, Outcome(k, state, at, failures))
  PROVE  CallStep
BY PutStep DEF Ended

(* The five updates that end a lease are instances of EndStep. *)
LEMMA MarkSyncedStep ==
  ASSUME TypeOK, NEW k \in 1..nextID, NEW w, MarkSynced(k, w)
  PROVE  CallStep
<1>1. /\ jobs[k] \in Job
      /\ jobs[k].availableAt \in Nat
      /\ jobs[k].attempts + 0 \in 0..MaxCount
      /\ jobs[k].attempts + 0 = jobs[k].attempts
  BY JobStoreAssumption DEF TypeOK, Job
<1>2. [jobs[k] EXCEPT !.state = "synced"]
        = [jobs[k] EXCEPT !.state = "synced",
             !.availableAt = jobs[k].availableAt,
             !.attempts = jobs[k].attempts + 0]
  BY <1>1 DEF Job
<1>3. Put(k, Outcome(k, "synced", jobs[k].availableAt, 0))
  BY <1>2 DEF MarkSynced, Outcome
<1>4. QED
  BY <1>1, <1>3, EndStep DEF MarkSynced, Owned, MayEnd, EndStates

(* MarkDead ends a live lease and counts a failure.                       *)
LEMMA MarkDeadStep ==
  ASSUME TypeOK, NEW k \in 1..nextID, NEW w, MarkDead(k, w)
  PROVE  CallStep
<1>1. /\ jobs[k] \in Job
      /\ jobs[k].availableAt \in Nat
      /\ jobs[k].attempts + 1 \in 0..MaxCount
  BY JobStoreAssumption DEF TypeOK, Job, MarkDead
<1>2. [jobs[k] EXCEPT !.state = "dead", !.attempts = jobs[k].attempts + 1]
        = [jobs[k] EXCEPT !.state = "dead",
             !.availableAt = jobs[k].availableAt,
             !.attempts = jobs[k].attempts + 1]
  BY <1>1 DEF Job
<1>3. Put(k, Outcome(k, "dead", jobs[k].availableAt, 1))
  BY <1>2 DEF MarkDead, Outcome
<1>4. QED
  BY <1>1, <1>3, EndStep DEF MarkDead, Owned, MayEnd, EndStates

(* MarkRetrying ends a live lease and counts a failure.                   *)
LEMMA MarkRetryingStep ==
  ASSUME TypeOK, NEW k \in 1..nextID, NEW w, NEW b \in Delays,
         MarkRetrying(k, w, b)
  PROVE  CallStep
<1>1. /\ jobs[k] \in Job
      /\ now + b \in Nat
      /\ jobs[k].attempts + 1 \in 0..MaxCount
  BY SMTT(30), JobStoreAssumption DEF TypeOK, Job, MarkRetrying
<1>2. [jobs[k] EXCEPT !.state = "retrying", !.attempts = jobs[k].attempts + 1,
                      !.availableAt = now + b]
        = [jobs[k] EXCEPT !.state = "retrying", !.availableAt = now + b,
                          !.attempts = jobs[k].attempts + 1]
  BY <1>1 DEF Job
<1>3. Put(k, Outcome(k, "retrying", now + b, 1))
  BY <1>2 DEF MarkRetrying, Outcome
<1>4. QED
  BY <1>1, <1>3, EndStep DEF MarkRetrying, Owned, MayEnd, EndStates

(* RequeueClaimed and RequeueExpiredLease put the job back and count nothing. *)
LEMMA RequeueStep ==
  ASSUME TypeOK, NEW k \in 1..nextID, NEW w, NEW b \in Delays,
         RequeueClaimed(k, w, b) \/ RequeueExpiredLease(k, b)
  PROVE  CallStep
<1>1. /\ jobs[k] \in Job
      /\ now + b \in Nat
      /\ jobs[k].attempts + 0 \in 0..MaxCount
      /\ jobs[k].attempts + 0 = jobs[k].attempts
  BY SMTT(30), JobStoreAssumption DEF TypeOK, Job
<1>2. [jobs[k] EXCEPT !.state = "retrying", !.availableAt = now + b]
        = [jobs[k] EXCEPT !.state = "retrying", !.availableAt = now + b,
                          !.attempts = jobs[k].attempts + 0]
  BY <1>1 DEF Job
<1>3. Put(k, Outcome(k, "retrying", now + b, 0))
  BY <1>2 DEF RequeueClaimed, RequeueExpiredLease, Outcome
<1>4. MayEnd(k, "retrying", 0)
  BY DEF RequeueClaimed, RequeueExpiredLease, Owned, MayEnd
<1>5. QED
  BY <1>1, <1>3, <1>4, EndStep DEF EndStates

(* A step creates a job, lets time pass, or is a CallStep. *)
Creation == \E s \in Syncs, o \in Origins, d \in DeltaIDs \cup {NoDelta},
               m \in MaxAttemptsInputs, b \in Delays : Create(s, o, d, m, b)

(* Every call on existing jobs claims a set of them or updates one.       *)
LEMMA CallCases ==
  ASSUME TypeOK, Call
  PROVE  CallStep
<1>1. CASE \E s \in Syncs, w \in Workers, t \in LockFors : ClaimNext(s, w, t)
  BY <1>1, ClaimNextStep
<1>2. CASE \E s \in Syncs, w \in Workers, n \in BatchLimits, t \in LockFors :
              ClaimNextBatch(s, w, n, t)
  BY <1>2, ClaimNextBatchStep
<1>3. CASE \E j \in 1..nextID, w \in Workers, t \in LockFors : RenewLease(j, w, t)
  BY <1>3, RenewLeaseStep
<1>4. CASE \E j \in 1..nextID, w \in Workers : MarkSynced(j, w) \/ MarkDead(j, w)
  BY <1>4, MarkSyncedStep, MarkDeadStep
<1>5. CASE \E j \in 1..nextID, w \in Workers, b \in Delays :
              MarkRetrying(j, w, b) \/ RequeueClaimed(j, w, b)
  BY <1>5, MarkRetryingStep, RequeueStep
<1>6. CASE \E j \in 1..nextID : ForceReleaseExpiredLease(j)
  BY <1>6, ForceReleaseStep
<1>7. CASE \E j \in 1..nextID, b \in Delays : RequeueExpiredLease(j, b)
  <2>1. PICK j \in 1..nextID, b \in Delays : RequeueExpiredLease(j, b)
    BY <1>7
  <2>2. QED
    BY <2>1, RequeueStep
<1>8. QED
  BY <1>1, <1>2, <1>3, <1>4, <1>5, <1>6, <1>7 DEF Call, WorkerCall, OperatorCall

(* Every step creates a job, passes time, or is a call on existing jobs.  *)
LEMMA NextCases ==
  ASSUME TypeOK, Next
  PROVE  Creation \/ Tick \/ CallStep
BY CallCases DEF Next, Creation
-----------------------------------------------------------------------------
(* Type correctness: no operation, in any order, leaves a malformed row.   *)

(* No row step leaves a malformed row.                                    *)
LEMMA JobStepType ==
  ASSUME TypeOK, NEW j \in 1..nextID, JobStep(j)
  PROVE  jobs'[j] \in Job
<1> jobs[j] \in Job
  BY DEF TypeOK
<1>1. CASE Kept(j)
  BY <1>1 DEF Kept
<1>2. CASE \E w \in Workers, t \in LockFors : Claimed(j, w, t)
  BY <1>2, LeasedJob DEF Claimed
<1>3. CASE Renewed(j)
  <2>1. PICK t \in LockFors : jobs'[j] = [jobs[j] EXCEPT !.lockedUntil = now + t]
    BY <1>3 DEF Renewed
  <2>2. now + t \in Nat
    BY JobStoreAssumption DEF TypeOK
  <2>3. QED
    BY <2>1, <2>2 DEF Job
<1>4. CASE Ended(j)
  <2>1. PICK state \in EndStates, at \in Nat,
             failures \in {0, 1} :
               /\ jobs[j].attempts + failures \in 0..MaxCount
               /\ jobs'[j] = Outcome(j, state, at, failures)
    BY <1>4 DEF Ended
  <2>2. state \in States /\ failures \in Nat
    BY DEF States, EndStates
  <2>3. QED
    BY <2>1, <2>2, OutcomeJob
<1>5. CASE Orphaned(j)
  BY <1>5, UnlockedJob DEF Orphaned
<1>6. QED
  BY <1>1, <1>2, <1>3, <1>4, <1>5 DEF JobStep

(* Create appends one queued job and touches no other. *)
LEMMA CreateStep ==
  ASSUME TypeOK, NEW s \in Syncs, NEW o \in Origins,
         NEW d \in DeltaIDs \cup {NoDelta}, NEW m \in MaxAttemptsInputs,
         NEW b \in Delays, Create(s, o, d, m, b)
  PROVE  /\ nextID' = nextID + 1 /\ nextID' \in 1..MaxJobs
         /\ now' = now
         /\ jobs' \in [1..nextID' -> Job]
         /\ \A j \in 1..nextID : jobs'[j] = jobs[j]
         /\ jobs'[nextID'] = NewJob(s, o, d, m, now + b)
<1>1. nextID' = nextID + 1 /\ nextID' \in 1..MaxJobs /\ now' = now
  BY JobStoreAssumption DEF Create, TypeOK
<1>2. now + b \in Nat /\ now \in Nat
  BY JobStoreAssumption DEF TypeOK
<1>3. NewJob(s, o, d, m, now + b) \in Job
  BY <1>2, JobStoreAssumption
  DEF NewJob, Job, States, DefaultMaxAttempts, NoTime
<1>4. jobs' = [j \in 1..nextID' |-> IF j = nextID'
                 THEN NewJob(s, o, d, m, now + b) ELSE jobs[j]]
  BY DEF Create
<1>5. \A j \in 1..nextID' : j = nextID' \/ j \in 1..nextID
  BY <1>1 DEF TypeOK
<1>6. \A j \in 1..nextID : j \in 1..nextID' /\ j # nextID'
  BY <1>1 DEF TypeOK
<1>7. \A j \in 1..nextID : jobs[j] \in Job
  BY DEF TypeOK
<1>8. nextID' \in 1..nextID'
  BY <1>1
<1>9. QED
  BY <1>1, <1>3, <1>4, <1>5, <1>6, <1>7, <1>8

(* Every step keeps the store's maps well formed.                         *)
LEMMA TypeStep == TypeOK /\ [Next]_storeVars => TypeOK'
<1> SUFFICES ASSUME TypeOK, [Next]_storeVars
             PROVE  TypeOK'
  OBVIOUS
<1>1. CASE Creation
  <2>1. PICK s \in Syncs, o \in Origins, d \in DeltaIDs \cup {NoDelta},
             m \in MaxAttemptsInputs, b \in Delays : Create(s, o, d, m, b)
    BY <1>1 DEF Creation
  <2>2. jobByDelta' \in [DeltaIDs -> 0..nextID']
    <3>1. \A e \in DeltaIDs : jobByDelta[e] \in 0..nextID'
      BY <2>1, CreateStep DEF TypeOK
    <3>2. nextID' \in 0..nextID'
      BY <2>1, CreateStep, JobStoreAssumption
    <3>3. QED
      BY <2>1, <3>1, <3>2 DEF Create, TypeOK
  <2>3. now' = now /\ nextID' \in 0..MaxJobs /\ jobs' \in [1..nextID' -> Job]
    BY <2>1, CreateStep, JobStoreAssumption
  <2>4. QED
    BY <2>2, <2>3 DEF TypeOK
<1>2. CASE Tick
  BY <1>2, JobStoreAssumption DEF Tick, TypeOK
<1>3. CASE CallStep
  <2>1. \A j \in 1..nextID : jobs'[j] \in Job
    BY <1>3, CallJobStep, JobStepType
  <2>2. QED
    BY <1>3, <2>1 DEF CallStep, SameJobs, TypeOK
<1>4. CASE UNCHANGED storeVars
  BY <1>4 DEF storeVars, TypeOK
<1>5. QED
  BY <1>1, <1>2, <1>3, <1>4, NextCases

(* The empty store is well formed.                                        *)
LEMMA InitType == Init => TypeOK
<1> SUFFICES ASSUME Init PROVE TypeOK
  OBVIOUS
<1>1. 1..0 = {}
  OBVIOUS
<1>2. jobs \in [1..nextID -> Job]
  BY <1>1 DEF Init
<1>3. QED
  BY <1>2, JobStoreAssumption DEF Init, TypeOK

(* Every reachable store is well typed. *)
THEOREM TypeCorrect == Spec => []TypeOK
BY InitType, TypeStep, PTL DEF Spec
-----------------------------------------------------------------------------
(* Leases are well formed: TypeOK makes the invariant inductive.            *)

(* Every step sets or clears the two halves of a lease together.          *)
LEMMA LeaseStep == TypeOK /\ LeaseWellFormed /\ [Next]_storeVars => LeaseWellFormed'
<1> SUFFICES ASSUME TypeOK, LeaseWellFormed, [Next]_storeVars
             PROVE  LeaseWellFormed'
  OBVIOUS
<1> DEFINE Good(job) == /\ job.lockedBy # NoWorker <=> job.lockedUntil # NoTime
                        /\ job.lockedBy # NoWorker => job.state = "processing"
<1>1. \A j \in 1..nextID : Good(jobs[j])
  BY DEF LeaseWellFormed
<1>2. CASE Creation
  <2>1. PICK s \in Syncs, o \in Origins, d \in DeltaIDs \cup {NoDelta},
             m \in MaxAttemptsInputs, b \in Delays : Create(s, o, d, m, b)
    BY <1>2 DEF Creation
  <2>2. Good(NewJob(s, o, d, m, now + b))
    BY DEF NewJob
  <2>3. \A j \in 1..nextID' : j = nextID' \/ j \in 1..nextID
    BY <2>1, CreateStep DEF TypeOK
  <2>4. \A j \in 1..nextID' : Good(jobs'[j])
    BY <2>1, <2>2, <2>3, <1>1, CreateStep
  <2>5. QED
    BY <2>4 DEF LeaseWellFormed
<1>3. CASE CallStep
  <2>1. ASSUME NEW j \in 1..nextID PROVE Good(jobs'[j])
    <3>0. jobs[j] \in Job /\ Good(jobs[j]) /\ JobStep(j)
      BY <1>1, <1>3, CallJobStep DEF TypeOK
    <3>1. CASE Kept(j)
      BY <3>0, <3>1 DEF Kept
    <3>2. CASE \E w \in Workers, t \in LockFors : Claimed(j, w, t)
      <4>1. PICK w \in Workers, t \in LockFors : jobs'[j] = Leased(jobs[j], w, t)
        BY <3>2 DEF Claimed
      <4>2. w # NoWorker /\ now + t # NoTime
        BY JobStoreAssumption DEF NoTime, TypeOK
      <4>3. QED
        BY <3>0, <4>1, <4>2 DEF Leased, Job
    <3>3. CASE Renewed(j)
      <4>1. PICK t \in LockFors : jobs'[j] = [jobs[j] EXCEPT !.lockedUntil = now + t]
        BY <3>3 DEF Renewed
      <4>2. now + t # NoTime /\ jobs[j].lockedUntil # NoTime
        BY <3>3, JobStoreAssumption DEF NoTime, TypeOK, Renewed, Live
      <4>3. QED
        BY <3>0, <4>1, <4>2 DEF Job
    <3>4. CASE Ended(j)
      BY <3>0, <3>4 DEF Ended, Outcome, Unlocked, Job, EndStates
    <3>5. CASE Orphaned(j)
      BY <3>0, <3>5 DEF Orphaned, Unlocked, Job
    <3>6. QED
      BY <3>0, <3>1, <3>2, <3>3, <3>4, <3>5 DEF JobStep
  <2>2. QED
    BY <1>3, <2>1 DEF LeaseWellFormed, CallStep, SameJobs
<1>4. CASE Tick \/ UNCHANGED storeVars
  BY <1>1, <1>4 DEF Tick, storeVars, LeaseWellFormed
<1>5. QED
  BY <1>2, <1>3, <1>4, NextCases

(* In every reachable store the two halves of a lease go together, on       *)
(* processing jobs only.                                                    *)
THEOREM LeasesAreWellFormed == Spec => []LeaseWellFormed
<1>1. Init => LeaseWellFormed
  BY DEF Init, LeaseWellFormed
<1>2. QED
  BY <1>1, LeaseStep, TypeCorrect, PTL DEF Spec
-----------------------------------------------------------------------------
(* The map from deltas to outbox jobs.                                      *)

(* No row step changes where a job came from.                             *)
LEMMA JobStepIdentity ==
  ASSUME TypeOK, NEW j \in 1..nextID, JobStep(j)
  PROVE  jobs'[j].origin = jobs[j].origin /\ jobs'[j].delta = jobs[j].delta
BY DEF JobStep, Kept, Claimed, Renewed, Ended, Orphaned, Leased, Outcome,
       Unlocked, TypeOK, Job

(* Every step keeps the delta map and the jobs in agreement.              *)
LEMMA OutboxStep ==
  TypeOK /\ OneOutboxJobPerDelta /\ [Next]_storeVars => OneOutboxJobPerDelta'
<1> SUFFICES ASSUME TypeOK, OneOutboxJobPerDelta, [Next]_storeVars
             PROVE  OneOutboxJobPerDelta'
  OBVIOUS
<1>0. \A d \in DeltaIDs : jobByDelta[d] # 0 => jobByDelta[d] \in 1..nextID
  BY DEF TypeOK
<1>1. CASE Creation
  <2>1. PICK s \in Syncs, o \in Origins, d \in DeltaIDs \cup {NoDelta},
             m \in MaxAttemptsInputs, b \in Delays : Create(s, o, d, m, b)
    BY <1>1 DEF Creation
  <2>0. /\ nextID' = nextID + 1
        /\ \A j \in 1..nextID : jobs'[j] = jobs[j]
        /\ jobs'[nextID'] = NewJob(s, o, d, m, now + b)
    BY <2>1, CreateStep
  <2>2. /\ nextID' = nextID + 1 /\ nextID \in Nat
        /\ \A j \in 1..nextID : jobs'[j] = jobs[j]
        /\ jobs'[nextID'].origin = o /\ jobs'[nextID'].delta = d
    BY <2>0 DEF NewJob, TypeOK
  <2>3. \A j \in 1..nextID' : j = nextID' \/ j \in 1..nextID
    BY <2>2
  <2>4. \A j \in 1..nextID : jobs[j].origin = "outbox" => jobs[j].delta \in DeltaIDs
    BY DEF OneOutboxJobPerDelta, TypeOK, Job
  <2>5. CASE o = "outbox"
    <3>1. d \in DeltaIDs /\ d # NoDelta /\ jobByDelta[d] = 0
      BY <2>1, <2>5 DEF Create, CreateAllowed, NoDelta, DeltaIDs
    <3>2. jobByDelta' = [jobByDelta EXCEPT ![d] = nextID']
      BY <2>1, <2>5 DEF Create
    <3>3. /\ jobByDelta'[d] = nextID'
          /\ \A e \in DeltaIDs \ {d} : jobByDelta'[e] = jobByDelta[e]
      BY <3>1, <3>2 DEF TypeOK
    <3>4. ASSUME NEW e \in DeltaIDs, jobByDelta'[e] # 0
          PROVE  /\ jobs'[jobByDelta'[e]].origin = "outbox"
                 /\ jobs'[jobByDelta'[e]].delta = e
      <4>1. CASE e = d
        BY <4>1, <3>3, <2>2, <2>5
      <4>2. CASE e # d
        BY <4>2, <3>3, <3>4, <2>2, <1>0 DEF OneOutboxJobPerDelta
      <4>3. QED
        BY <4>1, <4>2
    <3>5. ASSUME NEW j \in 1..nextID', jobs'[j].origin = "outbox"
          PROVE  /\ jobs'[j].delta # NoDelta
                 /\ jobByDelta'[jobs'[j].delta] = j
      <4>1. CASE j = nextID'
        BY <4>1, <3>1, <3>3, <2>2
      <4>2. CASE j \in 1..nextID
        <5>1. /\ jobs[j].delta \in DeltaIDs /\ jobs[j].delta # NoDelta
              /\ jobByDelta[jobs[j].delta] = j
          BY <4>2, <3>5, <2>2, <2>4 DEF OneOutboxJobPerDelta
        <5>2. jobs[j].delta # d
          BY <5>1, <3>1, <4>2
        <5>3. QED
          BY <5>1, <5>2, <3>3, <2>2, <4>2
      <4>3. QED
        BY <4>1, <4>2, <2>3
    <3>6. QED
      BY <3>4, <3>5 DEF OneOutboxJobPerDelta
  <2>6. CASE o # "outbox"
    <3>1. jobByDelta' = jobByDelta
      BY <2>1, <2>6 DEF Create
    <3>2. QED
      BY <3>1, <2>2, <2>3, <2>6, <1>0 DEF OneOutboxJobPerDelta
  <2>7. QED
    BY <2>5, <2>6
<1>2. CASE CallStep
  <2>1. /\ nextID' = nextID /\ jobByDelta' = jobByDelta
        /\ \A j \in 1..nextID : /\ jobs'[j].origin = jobs[j].origin
                                /\ jobs'[j].delta = jobs[j].delta
    BY <1>2, CallJobStep, JobStepIdentity DEF CallStep, SameJobs
  <2>2. QED
    BY <2>1, <1>0 DEF OneOutboxJobPerDelta
<1>3. CASE Tick \/ UNCHANGED storeVars
  BY <1>3 DEF Tick, storeVars, OneOutboxJobPerDelta
<1>4. QED
  BY <1>1, <1>2, <1>3, NextCases

(* However direct creations race, a delta never has two outbox jobs.        *)
THEOREM OutboxJobsAreUnique == Spec => []OneOutboxJobPerDelta
<1>1. Init => OneOutboxJobPerDelta
  BY DEF Init, OneOutboxJobPerDelta
<1>2. QED
  BY <1>1, OutboxStep, TypeCorrect, PTL DEF Spec
-----------------------------------------------------------------------------
(* What no step does, whatever it is called with.                           *)

(* A live job is neither expired nor claimable.                            *)
LEMMA LiveIsTaken ==
  ASSUME TypeOK, NEW j \in 1..nextID, Live(j)
  PROVE  /\ ~Expired(j) /\ jobs[j].state = "processing" /\ jobs[j] \in Job
         /\ \A s : j \notin ClaimableJobs(s)
<1>1. jobs[j] \in Job
  BY DEF TypeOK
<1>2. now \in Nat /\ (jobs[j].lockedUntil \in Nat \/ jobs[j].lockedUntil = NoTime)
  BY <1>1, JobStoreAssumption DEF TypeOK, Job
<1>3. ~Expired(j) /\ jobs[j].state = "processing"
  BY <1>2 DEF Live, Expired, NoTime
<1>4. QED
  BY <1>1, <1>3 DEF ClaimableJobs, Claimable

(* A worker's calls change no job that another worker holds.               *)
LEMMA StrangersKeep ==
  ASSUME TypeOK, NEW w \in Workers, WorkerCall(w),
         NEW j \in 1..nextID, Live(j), jobs[j].lockedBy # w
  PROVE  Kept(j)
<1>1. ASSUME NEW k \in 1..nextID, NEW job, Put(k, job), k # j
      PROVE  Kept(j)
  BY <1>1 DEF Put, Kept, TypeOK
<1>2. ASSUME NEW k \in 1..nextID, NEW job, Put(k, job), Owned(k, w)
      PROVE  Kept(j)
  BY <1>1, <1>2 DEF Owned
<1>3. CASE \E s \in Syncs, t \in LockFors : ClaimNext(s, w, t)
  <2>1. PICK s \in Syncs, t \in LockFors : ClaimNext(s, w, t)
    BY <1>3
  <2>2. PICK k \in ClaimableJobs(s) : Put(k, Leased(jobs[k], w, t))
    BY <2>1 DEF ClaimNext
  <2>3. k \in 1..nextID /\ k # j
    BY LiveIsTaken DEF ClaimableJobs
  <2>4. QED
    BY <1>1, <2>2, <2>3
<1>4. CASE \E s \in Syncs, n \in BatchLimits, t \in LockFors : ClaimNextBatch(s, w, n, t)
  <2>1. PICK s \in Syncs, t \in LockFors, C \in SUBSET (1..nextID) :
          /\ C \subseteq ClaimableJobs(s)
          /\ jobs' = [i \in 1..nextID |->
                        IF i \in C THEN Leased(jobs[i], w, t) ELSE jobs[i]]
    BY <1>4 DEF ClaimNextBatch, FirstClaimable
  <2>2. j \notin C
    BY <2>1, LiveIsTaken
  <2>3. QED
    BY <2>1, <2>2 DEF Kept
<1>5. CASE \E k \in 1..nextID, t \in LockFors : RenewLease(k, w, t)
  BY <1>2, <1>5 DEF RenewLease
<1>6. CASE \E k \in 1..nextID : MarkSynced(k, w) \/ MarkDead(k, w)
  BY <1>2, <1>6 DEF MarkSynced, MarkDead
<1>7. CASE \E k \in 1..nextID, b \in Delays :
             MarkRetrying(k, w, b) \/ RequeueClaimed(k, w, b)
  BY <1>2, <1>7 DEF MarkRetrying, RequeueClaimed
<1>8. QED
  BY <1>3, <1>4, <1>5, <1>6, <1>7 DEF WorkerCall

(* An operator's calls change no job that somebody holds.                  *)
LEMMA OperatorsKeep ==
  ASSUME TypeOK, OperatorCall, NEW j \in 1..nextID, Live(j)
  PROVE  Kept(j)
<1>1. PICK k \in 1..nextID : Expired(k) /\ \E job : Put(k, job)
  BY DEF OperatorCall, ForceReleaseExpiredLease, RequeueExpiredLease
<1>2. k # j
  BY <1>1, LiveIsTaken
<1>3. QED
  BY <1>1, <1>2 DEF Put, Kept, TypeOK

(* A live lease is its holder's alone: no call of another worker and no    *)
(* operator changes its job, and no step gives it to another worker.       *)
THEOREM LiveLeasesAreKept == Spec => LiveLeaseKept
<1> DEFINE HoldersOnly ==
      \A j \in 1..nextID : Live(j) /\ jobs'[j] # jobs[j] =>
        /\ \A w \in Workers \ {jobs[j].lockedBy} : ~WorkerCall(w)
        /\ ~OperatorCall
        /\ \/ jobs'[j].state # "processing"
           \/ jobs'[j].lockedBy = jobs[j].lockedBy
<1>1. TypeOK /\ [Next]_storeVars => [HoldersOnly]_storeVars
  <2> SUFFICES ASSUME TypeOK, Next, NEW j \in 1..nextID, Live(j), ~Kept(j)
               PROVE  /\ \A w \in Workers \ {jobs[j].lockedBy} : ~WorkerCall(w)
                      /\ ~OperatorCall
                      /\ \/ jobs'[j].state # "processing"
                         \/ jobs'[j].lockedBy = jobs[j].lockedBy
    BY DEF Kept
  <2>1. (\A w \in Workers \ {jobs[j].lockedBy} : ~WorkerCall(w)) /\ ~OperatorCall
    BY StrangersKeep, OperatorsKeep
  <2>2. CallStep
    <3>1. ~Creation
      BY CreateStep DEF Creation, Kept
    <3>2. ~Tick
      BY DEF Tick, Kept
    <3>3. QED
      BY <3>1, <3>2, NextCases
  <2>3. Renewed(j) \/ Ended(j)
    BY <2>2, LiveIsTaken, CallJobStep DEF JobStep, Claimed, Orphaned
  <2>4. \/ jobs'[j].state # "processing"
        \/ jobs'[j].lockedBy = jobs[j].lockedBy
    BY <2>3, LiveIsTaken DEF Renewed, Ended, Outcome, Unlocked, Job, EndStates
  <2>5. QED
    BY <2>1, <2>4
<1>2. QED
  BY <1>1, TypeCorrect, PTL DEF Spec, LiveLeaseKept

(* No step changes a synced or dead job. *)
THEOREM FinishedJobsStay == Spec => FinishedStaysFinished
<1>1. ASSUME TypeOK, [Next]_storeVars
      PROVE  [\A j \in 1..nextID : jobs[j].state \in {"synced", "dead"} =>
                 jobs'[j] = jobs[j]]_storeVars
  <2> SUFFICES ASSUME Next, NEW j \in 1..nextID, jobs[j].state \in {"synced", "dead"}
               PROVE  jobs'[j] = jobs[j]
    BY <1>1
  <2>1. CASE Creation
    BY <2>1, <1>1, CreateStep DEF Creation
  <2>2. CASE Tick
    BY <2>2 DEF Tick
  <2>3. CASE CallStep
    BY <2>3, CallJobStep DEF JobStep, Kept, Claimed, Renewed, Ended, MayEnd,
       Orphaned, Live, Expired
  <2>4. QED
    BY <2>1, <2>2, <2>3, <1>1, NextCases
<1>2. QED
  BY <1>1, TypeCorrect, PTL DEF Spec, FinishedStaysFinished
-----------------------------------------------------------------------------
(* The order of claims.                                                     *)

(* A job that can be claimed has no deadline after now.                     *)
LEMMA ClaimableIsFree ==
  ASSUME TypeOK, LeaseWellFormed, NEW s, NEW j \in ClaimableJobs(s)
  PROVE  /\ j \in 1..nextID /\ jobs[j] \in Job /\ ~Live(j)
         /\ ~(jobs[j].lockedUntil > now)
<1>1. j \in 1..nextID /\ jobs[j] \in Job
  BY DEF ClaimableJobs, TypeOK
<1>2. now \in Nat
  BY JobStoreAssumption DEF TypeOK
<1>3. CASE Expired(j)
  BY <1>1, <1>2, <1>3 DEF Expired, Live, Job, NoTime
<1>4. CASE jobs[j].state \in {"pending", "retrying"}
  <2>1. jobs[j].lockedUntil = NoTime
    BY <1>1, <1>4 DEF LeaseWellFormed
  <2>2. QED
    BY <1>1, <1>2, <1>4, <2>1 DEF Live, NoTime
<1>5. QED
  BY <1>3, <1>4 DEF ClaimableJobs, Claimable

(* Calls other than claims give no claimable job a deadline.                *)
LEMMA OnlyClaimsClaim ==
  ASSUME TypeOK, LeaseWellFormed, Call, NEW s, NEW j \in ClaimableJobs(s),
         jobs'[j].lockedUntil > now,
         ~\E r \in Syncs, w \in Workers, t \in LockFors : ClaimNext(r, w, t),
         ~\E r \in Syncs, w \in Workers, n \in BatchLimits, t \in LockFors :
             ClaimNextBatch(r, w, n, t)
  PROVE  FALSE
<1> /\ j \in 1..nextID /\ jobs[j] \in Job /\ ~Live(j) /\ ~(jobs[j].lockedUntil > now)
    /\ now \in Nat
  BY ClaimableIsFree, JobStoreAssumption DEF TypeOK
<1>1. ASSUME NEW k \in 1..nextID, NEW job, Put(k, job), Live(k) \/ job.lockedUntil = NoTime
      PROVE  FALSE
  <2>1. jobs'[j] = jobs[j] \/ (k = j /\ jobs'[j] = job)
    BY <1>1 DEF Put, TypeOK
  <2>2. QED
    BY <1>1, <2>1 DEF NoTime
<1>2. \A job \in Job : Unlocked(job).lockedUntil = NoTime
  BY DEF Unlocked, Job
<1>3. CASE \E k \in 1..nextID, w \in Workers, t \in LockFors : RenewLease(k, w, t)
  BY <1>1, <1>3 DEF RenewLease, Owned
<1>4. CASE \E k \in 1..nextID, w \in Workers : MarkSynced(k, w) \/ MarkDead(k, w)
  BY <1>1, <1>4 DEF MarkSynced, MarkDead, Owned
<1>5. CASE \E k \in 1..nextID, w \in Workers, b \in Delays :
             MarkRetrying(k, w, b) \/ RequeueClaimed(k, w, b)
  BY <1>1, <1>5 DEF MarkRetrying, RequeueClaimed, Owned
<1>6. CASE \E k \in 1..nextID : ForceReleaseExpiredLease(k)
  <2>1. PICK k \in 1..nextID : Put(k, Unlocked(jobs[k]))
    BY <1>6 DEF ForceReleaseExpiredLease
  <2>2. QED
    BY <1>1, <1>2, <2>1 DEF TypeOK
<1>7. CASE \E k \in 1..nextID, b \in Delays : RequeueExpiredLease(k, b)
  <2>1. PICK k \in 1..nextID, b \in Delays :
          Put(k, Unlocked([jobs[k] EXCEPT !.state = "retrying", !.availableAt = now + b]))
    BY <1>7 DEF RequeueExpiredLease
  <2>2. now + b \in Nat /\ jobs[k] \in Job
    BY JobStoreAssumption DEF TypeOK
  <2>3. [jobs[k] EXCEPT !.state = "retrying", !.availableAt = now + b] \in Job
    BY <2>2 DEF Job, States
  <2>4. QED
    BY <1>1, <1>2, <2>1, <2>3
<1>8. QED
  BY <1>3, <1>4, <1>5, <1>6, <1>7 DEF Call, WorkerCall, OperatorCall

(* A claim takes the jobs of its sync that have been claimable longest: no  *)
(* claimable job that waits longer than a claimed one is passed over.       *)
THEOREM ClaimsFollowTheQueue == Spec => ClaimsInOrder
<1> DEFINE WaitsLonger(i, j) == \/ jobs[i].availableAt < jobs[j].availableAt
                                \/ /\ jobs[i].availableAt = jobs[j].availableAt
                                   /\ jobs[i].createdAt < jobs[j].createdAt
           Taken(j) == jobs'[j].lockedUntil > now
           InOrder == \A s \in Syncs : \A i, j \in ClaimableJobs(s) :
                        WaitsLonger(i, j) /\ Taken(j) => Taken(i)
<1>1. ASSUME TypeOK, LeaseWellFormed, [Next]_storeVars PROVE [InOrder]_storeVars
  <2> SUFFICES ASSUME Next, NEW s \in Syncs, NEW i \in ClaimableJobs(s),
                      NEW j \in ClaimableJobs(s), WaitsLonger(i, j), Taken(j)
               PROVE  Taken(i)
    BY <1>1
  <2>0. /\ i \in 1..nextID /\ j \in 1..nextID
        /\ jobs[i] \in Job /\ jobs[j] \in Job
        /\ ~(jobs[j].lockedUntil > now)
        /\ now \in Nat
    BY <1>1, ClaimableIsFree, JobStoreAssumption DEF TypeOK
  <2>1. ~Before(j, i) /\ i # j
    BY <2>0 DEF Before, Job
  <2>2. ASSUME NEW r, NEW k \in 1..nextID, Claimable(k, r), k = j PROVE r = s
    BY <2>2 DEF ClaimableJobs, Claimable
  <2>3. CASE \E r \in Syncs, w \in Workers, t \in LockFors : ClaimNext(r, w, t)
    <3>1. PICK r \in Syncs, w \in Workers, t \in LockFors : ClaimNext(r, w, t)
      BY <2>3
    <3>2. PICK k \in ClaimableJobs(r) :
            /\ \A h \in ClaimableJobs(r) \ {k} : Before(k, h)
            /\ Put(k, Leased(jobs[k], w, t))
      BY <3>1 DEF ClaimNext
    <3>3. k = j
      BY <1>1, <2>0, <3>2 DEF Put, TypeOK
    <3>4. r = s
      BY <2>2, <3>2, <3>3 DEF ClaimableJobs
    <3>5. QED
      BY <2>1, <3>2, <3>3, <3>4
  <2>4. CASE \E r \in Syncs, w \in Workers, n \in BatchLimits, t \in LockFors :
               ClaimNextBatch(r, w, n, t)
    <3>1. PICK r \in Syncs, w \in Workers, n \in BatchLimits, t \in LockFors :
            ClaimNextBatch(r, w, n, t)
      BY <2>4
    <3>2. PICK C \in SUBSET (1..nextID) :
            /\ FirstClaimable(C, r, n)
            /\ jobs' = [h \in 1..nextID |->
                          IF h \in C THEN Leased(jobs[h], w, t) ELSE jobs[h]]
      BY <3>1 DEF ClaimNextBatch
    <3>3. j \in C
      BY <2>0, <3>2
    <3>4. r = s
      BY <2>2, <3>2, <3>3 DEF FirstClaimable, ClaimableJobs
    <3>5. i \in C
      BY <2>1, <3>2, <3>3, <3>4 DEF FirstClaimable
    <3>6. jobs'[i].lockedUntil = now + t /\ t \in Nat \ {0}
      BY <2>0, <3>2, <3>5, JobStoreAssumption DEF Leased, Job
    <3>7. QED
      BY <2>0, <3>6
  <2>5. CASE Creation
    <3>1. jobs'[j] = jobs[j]
      BY <1>1, <2>0, <2>5, CreateStep DEF Creation
    <3>2. QED
      BY <2>0, <3>1
  <2>6. CASE Tick
    BY <2>0, <2>6 DEF Tick
  <2>7. QED
    BY <1>1, <2>3, <2>4, <2>5, <2>6, OnlyClaimsClaim DEF Next, Creation
<1>2. QED
  BY <1>1, TypeCorrect, LeasesAreWellFormed, PTL DEF Spec, ClaimsInOrder
-----------------------------------------------------------------------------
(* The store implements JobLease: every step maps to a step or a stutter.   *)

(* Create adds one job to the abstract queue.                             *)
LEMMA CreationRefines ==
  ASSUME TypeOK, Creation
  PROVE  Lease!Add({nextID'})
<1>1. PICK s \in Syncs, o \in Origins, d \in DeltaIDs \cup {NoDelta},
           m \in MaxAttemptsInputs, b \in Delays : Create(s, o, d, m, b)
  BY DEF Creation
<1>2. /\ nextID' = nextID + 1 /\ nextID' \in 1..MaxJobs /\ now' = now
      /\ \A j \in 1..nextID : jobs'[j] = jobs[j]
      /\ jobs'[nextID'] = NewJob(s, o, d, m, now + b)
  BY <1>1, CreateStep
<1>3. nextID \in Nat /\ nextID' \in JobIDs /\ ~(nextID' <= nextID)
  BY <1>2 DEF TypeOK, JobIDs
<1>4. \A j \in JobIDs \ {nextID'} : j <= nextID' <=> j <= nextID
  BY <1>2, <1>3 DEF JobIDs
<1>5. \A j \in JobIDs : j <= nextID => jobs'[j] = jobs[j]
  BY <1>2, <1>3 DEF JobIDs
<1>6. ASSUME NEW j \in JobIDs
      PROVE  /\ statusBar'[j] = IF j = nextID' THEN "queued" ELSE statusBar[j]
             /\ holderBar'[j] = holderBar[j]
             /\ attemptsBar'[j] = attemptsBar[j]
  <2>1. CASE j = nextID'
    BY <2>1, <1>2, <1>3
    DEF statusBar, holderBar, attemptsBar, Phase, Live, NewJob
  <2>2. CASE j # nextID'
    BY <2>2, <1>2, <1>4, <1>5
    DEF statusBar, holderBar, attemptsBar, Phase, Live
  <2>3. QED
    BY <2>1, <2>2
<1>7. statusBar[nextID'] = "absent"
  BY <1>3 DEF statusBar, Phase
<1>8. statusBar' = [j \in JobIDs |-> IF j \in {nextID'} THEN "queued" ELSE statusBar[j]]
  BY <1>6 DEF statusBar, Phase
<1>9. holderBar' = holderBar /\ attemptsBar' = attemptsBar
  BY <1>6 DEF holderBar, attemptsBar
<1>10. QED
  BY <1>7, <1>8, <1>9 DEF Lease!Add

(* The leases that end with a tick of the clock lapse together.           *)
LEMMA TickRefines ==
  ASSUME TypeOK, Tick
  PROVE  Lease!Lapse({j \in JobIDs : statusBar[j] = "held" /\ statusBar'[j] # "held"})
<1> DEFINE C == {j \in JobIDs : statusBar[j] = "held" /\ statusBar'[j] # "held"}
<1>1. /\ now \in Nat /\ now' = now + 1 /\ jobs' = jobs /\ nextID' = nextID
      /\ nextID \in Nat
  BY JobStoreAssumption DEF Tick, TypeOK
<1>2. \A j \in JobIDs : j <= nextID =>
        jobs[j] \in Job /\ (jobs[j].lockedUntil \in Nat \/ jobs[j].lockedUntil = NoTime)
  BY <1>1 DEF TypeOK, JobIDs, Job
<1>3. ASSUME NEW j \in JobIDs
      PROVE  /\ statusBar'[j] = IF j \in C THEN "lapsed" ELSE statusBar[j]
             /\ holderBar'[j] = IF j \in C THEN NoWorker ELSE holderBar[j]
             /\ attemptsBar'[j] = attemptsBar[j]
  <2>1. CASE j <= nextID /\ Live(j)
    <3>1. statusBar[j] = "held"
      BY <2>1 DEF statusBar, Phase, Live
    <3>2. statusBar'[j] = IF jobs[j].lockedUntil > now' THEN "held" ELSE "lapsed"
      BY <2>1, <1>1 DEF statusBar, Phase, Live
    <3>3. holderBar'[j] = IF jobs[j].lockedUntil > now' THEN holderBar[j] ELSE NoWorker
      BY <2>1, <1>1 DEF holderBar, Live
    <3>4. attemptsBar'[j] = attemptsBar[j]
      BY <1>1 DEF attemptsBar
    <3>5. j \in C <=> ~(jobs[j].lockedUntil > now')
      BY <3>1, <3>2
    <3>6. QED
      BY <3>1, <3>2, <3>3, <3>4, <3>5
  <2>2. CASE j <= nextID /\ ~Live(j)
    <3>1. ~(jobs[j].state = "processing" /\ jobs[j].lockedUntil > now')
      BY <2>2, <1>1, <1>2 DEF Live, NoTime
    <3>2. statusBar'[j] = statusBar[j]
      BY <2>2, <3>1, <1>1 DEF statusBar, Phase, Live
    <3>3. holderBar'[j] = holderBar[j] /\ attemptsBar'[j] = attemptsBar[j]
      BY <2>2, <3>1, <1>1 DEF holderBar, attemptsBar, Live
    <3>4. QED
      BY <3>2, <3>3
  <2>3. CASE ~(j <= nextID)
    BY <2>3, <1>1 DEF statusBar, holderBar, attemptsBar, Phase
  <2>4. QED
    BY <2>1, <2>2, <2>3
<1> HIDE DEF C
<1>4. statusBar' = [j \in JobIDs |-> IF j \in C THEN "lapsed" ELSE statusBar[j]]
  BY <1>3 DEF statusBar, Phase
<1>5. holderBar' = [j \in JobIDs |-> IF j \in C THEN NoWorker ELSE holderBar[j]]
  BY <1>3 DEF holderBar
<1>6. attemptsBar' = attemptsBar
  BY <1>3 DEF attemptsBar
<1>7. \A j \in C : statusBar[j] = "held"
  BY DEF C
<1>8. QED
  BY <1>4, <1>5, <1>6, <1>7 DEF Lease!Lapse, C

(* A row that does not change looks the same to JobLease at the same time. *)
LEMMA SameRow ==
  ASSUME NEW j \in JobIDs, nextID' = nextID, now' = now,
         j <= nextID => jobs'[j] = jobs[j]
  PROVE  /\ statusBar'[j] = statusBar[j]
         /\ holderBar'[j] = holderBar[j]
         /\ attemptsBar'[j] = attemptsBar[j]
<1>1. CASE j <= nextID
  BY <1>1 DEF statusBar, holderBar, attemptsBar, Phase, Live
<1>2. CASE ~(j <= nextID)
  BY <1>2 DEF statusBar, holderBar, attemptsBar, Phase
<1>3. QED
  BY <1>1, <1>2

(* A claim grants its jobs: pending, retrying and expired ones wait.      *)
LEMMA ClaimRefines ==
  ASSUME TypeOK, SameJobs, NEW C \in SUBSET (1..nextID), NEW w \in Workers,
         NEW t \in LockFors, ClaimSet(C, w, t)
  PROVE  Lease!Grant(C, w)
<1>1. nextID' = nextID /\ now' = now /\ now \in Nat /\ now + t > now
      /\ nextID \in 0..MaxJobs
  BY JobStoreAssumption DEF SameJobs, TypeOK
<1>2. \A j \in 1..nextID : jobs[j] \in Job
  BY DEF TypeOK
<1>3. \A j \in JobIDs : j <= nextID <=> j \in 1..nextID
  BY <1>1 DEF JobIDs
<1>4. \A j \in C : j \in JobIDs
  BY <1>1, JobStoreAssumption DEF JobIDs
<1>5. ASSUME NEW j \in C
      PROVE  /\ statusBar[j] \in {"queued", "lapsed"}
             /\ statusBar'[j] = "held"
             /\ holderBar'[j] = w
             /\ attemptsBar'[j] = attemptsBar[j]
  <2>1. /\ jobs[j].state \in {"pending", "retrying"} \/ Expired(j)
        /\ jobs'[j] = Leased(jobs[j], w, t)
    BY DEF ClaimSet, Claimed
  <2>2. /\ jobs'[j].state = "processing" /\ jobs'[j].lockedBy = w
        /\ jobs'[j].lockedUntil = now + t /\ jobs'[j].attempts = jobs[j].attempts
    BY <2>1, <1>2 DEF Leased, Job
  <2>3. jobs[j].lockedUntil \in Nat \/ jobs[j].lockedUntil = NoTime
    BY <1>2 DEF Job
  <2>4. statusBar[j] \in {"queued", "lapsed"}
    BY <2>1, <2>3, <1>1, <1>3, <1>4 DEF statusBar, Phase, Expired, NoTime
  <2>5. statusBar'[j] = "held" /\ holderBar'[j] = w
    BY <2>2, <1>1, <1>3, <1>4 DEF statusBar, holderBar, Phase, Live
  <2>6. attemptsBar'[j] = attemptsBar[j]
    BY <2>2, <1>1, <1>3, <1>4 DEF attemptsBar
  <2>7. QED
    BY <2>4, <2>5, <2>6
<1>6. ASSUME NEW j \in JobIDs, j \notin C
      PROVE  /\ statusBar'[j] = statusBar[j]
             /\ holderBar'[j] = holderBar[j]
             /\ attemptsBar'[j] = attemptsBar[j]
  <2>1. j <= nextID => jobs'[j] = jobs[j]
    BY <1>3, <1>6 DEF ClaimSet, Kept
  <2>2. QED
    BY <2>1, <1>1, SameRow
<1>7. statusBar' = [j \in JobIDs |-> IF j \in C THEN "held" ELSE statusBar[j]]
  BY <1>5, <1>6 DEF statusBar, Phase
<1>8. holderBar' = [j \in JobIDs |-> IF j \in C THEN w ELSE holderBar[j]]
  BY <1>5, <1>6 DEF holderBar
<1>9. attemptsBar' = attemptsBar
  BY <1>5, <1>6 DEF attemptsBar
<1>10. QED
  BY <1>5, <1>7, <1>8, <1>9 DEF Lease!Grant, Lease!Waiting

(* A renewal or forced release is a stutter, the other updates settle,    *)
(* kill, retry, release or recall their job.                              *)
LEMMA UpdateRefines ==
  ASSUME TypeOK, LeaseWellFormed, SameJobs, NEW k \in 1..nextID, Update(k)
  PROVE  [Lease!LeaseNext]_(Lease!leaseVars)
<1>1. nextID' = nextID /\ now' = now /\ now \in Nat /\ nextID \in 0..MaxJobs
  BY JobStoreAssumption DEF SameJobs, TypeOK
<1>2. jobs[k] \in Job /\ k \in JobIDs /\ k <= nextID
      /\ (jobs[k].lockedUntil \in Nat \/ jobs[k].lockedUntil = NoTime)
  BY <1>1, JobStoreAssumption DEF TypeOK, JobIDs, Job
<1>3. ASSUME NEW j \in JobIDs, j # k
      PROVE  /\ statusBar'[j] = statusBar[j]
             /\ holderBar'[j] = holderBar[j]
             /\ attemptsBar'[j] = attemptsBar[j]
  <2>1. j <= nextID => jobs'[j] = jobs[j]
    BY <1>1, <1>3 DEF Update, Kept, JobIDs
  <2>2. QED
    BY <2>1, <1>1, SameRow
<1>4. ASSUME statusBar'[k] = statusBar[k], holderBar'[k] = holderBar[k],
             attemptsBar'[k] = attemptsBar[k]
      PROVE  UNCHANGED Lease!leaseVars
  <2>1. statusBar' = statusBar
    BY <1>3, <1>4 DEF statusBar, Phase
  <2>2. holderBar' = holderBar
    BY <1>3, <1>4 DEF holderBar
  <2>3. attemptsBar' = attemptsBar
    BY <1>3, <1>4 DEF attemptsBar
  <2>4. QED
    BY <2>1, <2>2, <2>3 DEF Lease!leaseVars
<1>5. CASE Renewed(k)
  <2>1. PICK t \in LockFors : jobs'[k] = [jobs[k] EXCEPT !.lockedUntil = now + t]
    BY <1>5 DEF Renewed
  <2>2. now + t > now
    BY <1>1, JobStoreAssumption
  <2>3. /\ jobs'[k].state = "processing" /\ jobs[k].state = "processing"
        /\ jobs'[k].lockedUntil > now /\ jobs[k].lockedUntil > now
        /\ jobs'[k].lockedBy = jobs[k].lockedBy
        /\ jobs'[k].attempts = jobs[k].attempts
    BY <1>5, <1>2, <2>1, <2>2 DEF Renewed, Live, Job
  <2>4. QED
    BY <1>1, <1>2, <1>4, <2>3 DEF statusBar, holderBar, attemptsBar, Phase, Live
<1>6. CASE Orphaned(k)
  <2>1. /\ jobs'[k].state = "processing" /\ jobs[k].state = "processing"
        /\ ~(jobs'[k].lockedUntil > now) /\ ~(jobs[k].lockedUntil > now)
        /\ jobs'[k].attempts = jobs[k].attempts
    BY <1>6, <1>1, <1>2 DEF Orphaned, Expired, Unlocked, Job, NoTime
  <2>2. QED
    BY <1>1, <1>2, <1>4, <2>1 DEF statusBar, holderBar, attemptsBar, Phase, Live
<1>7. CASE Ended(k)
  <2>1. PICK state \in EndStates, at \in Nat, failures \in {0, 1} :
          /\ MayEnd(k, state, failures)
          /\ jobs[k].attempts + failures \in 0..MaxCount
          /\ jobs'[k] = Outcome(k, state, at, failures)
    BY <1>7 DEF Ended
  <2> DEFINE q == IF state = "retrying" THEN "queued" ELSE state
  <2>2. /\ jobs'[k].state = state /\ state # "processing" /\ state # "pending"
        /\ jobs'[k].attempts = jobs[k].attempts + failures
    BY <2>1, <1>2 DEF Outcome, Unlocked, Job, EndStates
  <2>3. /\ statusBar'[k] = q
        /\ holderBar'[k] = NoWorker
        /\ attemptsBar'[k] = attemptsBar[k] + failures
    BY <2>2, <1>1, <1>2 DEF statusBar, holderBar, attemptsBar, Phase, Live
  <2>4. statusBar' = [statusBar EXCEPT ![k] = q]
    BY <2>3, <1>2, <1>3 DEF statusBar, Phase
  <2>5. holderBar' = [holderBar EXCEPT ![k] = NoWorker]
    BY <2>3, <1>2, <1>3 DEF holderBar
  <2>6. attemptsBar' = [attemptsBar EXCEPT ![k] = @ + failures]
    BY <2>3, <1>2, <1>3 DEF attemptsBar
  <2>7. attemptsBar[k] + failures <= MaxCount
    BY <2>1, <1>2, JobStoreAssumption DEF attemptsBar
  <2>8. CASE Live(k)
    <3> DEFINE w == jobs[k].lockedBy
    <3>1. w \in Workers
      BY <2>8, <1>1, <1>2 DEF LeaseWellFormed, Live, Job, NoTime
    <3>2. Lease!Holds(k, w)
      BY <2>8, <1>2 DEF Lease!Holds, statusBar, holderBar, Phase, Live
    <3>3. Lease!End(k, w, q, failures)
      BY <3>2, <2>4, <2>5, <2>6, <2>7 DEF Lease!End
    <3>4. \/ q = "queued" /\ failures \in {0, 1}
          \/ q = "synced" /\ failures = 0
          \/ q = "dead" /\ failures = 1
      BY <2>1, <2>8, <1>2 DEF MayEnd, Live, Expired, NoTime
    <3>5. \/ Lease!Settle(k, w) \/ Lease!Kill(k, w)
          \/ Lease!Retry(k, w) \/ Lease!Release(k, w)
      BY <3>3, <3>4 DEF Lease!Settle, Lease!Kill, Lease!Retry, Lease!Release
    <3>6. QED
      BY <3>1, <3>5, <1>2 DEF Lease!LeaseNext
  <2>9. CASE ~Live(k)
    <3>1. Expired(k) /\ q = "queued" /\ failures = 0
      BY <2>1, <2>9 DEF MayEnd
    <3>2. /\ jobs[k].state = "processing" /\ ~(jobs[k].lockedUntil > now)
      BY <3>1, <1>1, <1>2 DEF Expired, NoTime
    <3>3. statusBar[k] = "lapsed" /\ holderBar[k] = NoWorker
      BY <3>2, <2>9, <1>2 DEF statusBar, holderBar, Phase
    <3>4. attemptsBar'[k] = attemptsBar[k]
      BY <2>2, <3>1, <1>1, <1>2 DEF attemptsBar, Job
    <3>5. holderBar' = holderBar
      BY <2>3, <3>3, <1>3 DEF holderBar
    <3>6. attemptsBar' = attemptsBar
      BY <3>4, <1>3 DEF attemptsBar
    <3>7. Lease!Recall(k)
      BY <3>1, <3>3, <3>5, <3>6, <2>4 DEF Lease!Recall
    <3>8. QED
      BY <3>7, <1>2 DEF Lease!LeaseNext
  <2>10. QED
    BY <2>8, <2>9
<1>8. QED
  BY <1>5, <1>6, <1>7 DEF Update

(* Every step of the store is a step of JobLease or a stutter.            *)
LEMMA StepRefines ==
  TypeOK /\ LeaseWellFormed /\ [Next]_storeVars
    => [Lease!LeaseNext]_(Lease!leaseVars)
<1> SUFFICES ASSUME TypeOK, LeaseWellFormed, [Next]_storeVars
             PROVE  [Lease!LeaseNext]_(Lease!leaseVars)
  OBVIOUS
<1>1. CASE Creation
  <2>1. nextID' \in JobIDs
    BY <1>1, CreateStep DEF Creation, JobIDs
  <2>2. {nextID'} \in SUBSET JobIDs
    BY <2>1
  <2>3. QED
    BY <1>1, <2>2, CreationRefines DEF Lease!LeaseNext
<1>2. CASE Tick
  BY <1>2, TickRefines DEF Lease!LeaseNext
<1>3. CASE CallStep
  <2>1. SUBSET (1..nextID) \subseteq SUBSET JobIDs
    BY JobStoreAssumption DEF TypeOK, JobIDs
  <2>2. CASE \E C \in SUBSET (1..nextID), w \in Workers, t \in LockFors :
               ClaimSet(C, w, t)
    BY <1>3, <2>1, <2>2, ClaimRefines DEF CallStep, Lease!LeaseNext
  <2>3. CASE \E k \in 1..nextID : Update(k)
    BY <1>3, <2>3, UpdateRefines DEF CallStep
  <2>4. QED
    BY <1>3, <2>2, <2>3 DEF CallStep
<1>4. CASE UNCHANGED storeVars
  BY <1>4 DEF storeVars, Lease!leaseVars, statusBar, holderBar, attemptsBar,
     Phase, Live
<1>5. QED
  BY <1>1, <1>2, <1>3, <1>4, NextCases

(* The empty store maps to a queue without jobs.                          *)
LEMMA InitRefines == Init => Lease!LeaseInit
<1> SUFFICES ASSUME Init PROVE Lease!LeaseInit
  OBVIOUS
<1>1. \A j \in JobIDs : ~(j <= nextID)
  BY JobStoreAssumption DEF Init, JobIDs
<1>2. QED
  BY <1>1 DEF Lease!LeaseInit, statusBar, holderBar, attemptsBar, Phase

(* The store promises the workers exactly the abstract lease protocol. *)
THEOREM StoreImplementsJobLease == Spec => ImplementsJobLease
<1>1. QED
  BY InitRefines, StepRefines, TypeCorrect, LeasesAreWellFormed, PTL
  DEF Spec, ImplementsJobLease, Lease!LeaseSpec
-----------------------------------------------------------------------------
(* The in-memory outbox.                                                    *)

(* A job maps a delta of its own sync. *)
MappedAlike ==
  \A d \in DeltaIDs : jobByDelta[d] # 0 =>
    d <= nextDelta /\ jobs[jobByDelta[d]].sync = deltas[d].sync

RowsInv == RowsConsistent /\ MappedAlike

(* What a step of the job store leaves of its rows, and of the delta map.   *)
LEMMA CallKeepsMapping ==
  ASSUME TypeOK, CallStep
  PROVE  /\ nextID' = nextID /\ jobByDelta' = jobByDelta /\ now' = now
         /\ \A j \in 1..nextID : /\ jobs'[j].sync = jobs[j].sync
                                 /\ jobs'[j].origin = jobs[j].origin
                                 /\ jobs'[j].delta = jobs[j].delta
<1>1. ASSUME NEW j \in 1..nextID
      PROVE  /\ jobs'[j].sync = jobs[j].sync
             /\ jobs'[j].origin = jobs[j].origin
             /\ jobs'[j].delta = jobs[j].delta
  <2>1. JobStep(j) /\ jobs[j] \in Job
    BY CallJobStep DEF TypeOK
  <2>2. QED
    BY ZenonT(30), <2>1 DEF JobStep, Kept, Claimed, Renewed, Ended, Orphaned, Outcome, Unlocked, Leased, Job
<1>2. QED
  BY <1>1 DEF CallStep, SameJobs

(* The queue order of deltas is strict. *)
LEMMA PendingOrderIsStrict ==
  ASSUME OutboxTypeOK, NEW d \in 1..nextDelta
  PROVE  ~PendingBefore(d, d)
<1>1. deltas[d] \in Delta /\ d \in Nat /\ nextDelta \in Nat
  BY MemoryOutboxAssumption, JobStoreAssumption DEF OutboxTypeOK
<1>2. ~IDBefore(d, d)
  BY <1>1 DEF IDBefore
<1>3. QED
  BY <1>1, <1>2 DEF PendingBefore, Delta

(* A list of a finite set in a strict order counts each element once.       *)
LEMMA ListIsOneToOne ==
  ASSUME OutboxTypeOK, NEW S \in SUBSET (1..nextDelta),
         NEW q \in [1..Cardinality(S) -> S],
         \A d \in S : \E i \in DOMAIN q : q[i] = d,
         \A h, i \in DOMAIN q : h < i => PendingBefore(q[h], q[i])
  PROVE  /\ Cardinality(S) \in Nat
         /\ \A d \in S : (CHOOSE i \in 1..Cardinality(S) : q[i] = d) \in 1..Cardinality(S)
         /\ \A d \in S : q[CHOOSE i \in 1..Cardinality(S) : q[i] = d] = d
         /\ \A i \in 1..Cardinality(S) : (CHOOSE h \in 1..Cardinality(S) : q[h] = q[i]) = i
<1> DEFINE n == Cardinality(S)
<1>1. n \in Nat
  <2>1. nextDelta \in Int /\ 1 \in Int
    BY JobStoreAssumption DEF OutboxTypeOK
  <2>2. IsFiniteSet(1..nextDelta)
    BY <2>1, FS_Interval
  <2>3. QED
    BY <2>2, FS_Subset, FS_CardinalityType
<1>2. \A d \in S : \E i \in 1..n : q[i] = d
  OBVIOUS
<1>3. \A h, i \in 1..n : q[h] = q[i] => h = i
  <2>1. \A h, i \in 1..n : h < i => PendingBefore(q[h], q[i])
    OBVIOUS
  <2>2. \A h \in 1..n : ~PendingBefore(q[h], q[h])
    BY PendingOrderIsStrict
  <2>3. QED
    BY <1>1, <2>1, <2>2
<1> HIDE DEF n
<1>4. QED
  BY <1>1, <1>2, <1>3 DEF n
-----------------------------------------------------------------------------
(* What an enqueue does, alone or in a batch: it adds pending deltas, each  *)
(* with a slot of the dedup map that was free.                              *)
NewIDs == (nextDelta + 1)..nextDelta'

RecordStep ==
  /\ UNCHANGED <<storeVars, marked>>
  /\ nextDelta' \in nextDelta..MaxDeltas
  /\ deltas' \in [1..nextDelta' -> Delta]
  /\ \A d \in 1..nextDelta : deltas'[d] = deltas[d]
  /\ \A d \in NewIDs :
       /\ deltas'[d].state = "pending"
       /\ deltas'[d].window # NoWindow =>
            dedup'[<<deltas'[d].window, deltas'[d].key>>] = d
  /\ dedup' \in [Windows \X Keys -> 0..nextDelta']
  /\ \A w \in Windows, k \in Keys :
       \/ dedup'[<<w, k>>] = dedup[<<w, k>>]
       \/ /\ dedup[<<w, k>>] = 0 /\ dedup'[<<w, k>>] \in NewIDs
          /\ deltas'[dedup'[<<w, k>>]].window = w /\ deltas'[dedup'[<<w, k>>]].key = k

(* Enqueue builds a well-formed delta.                                      *)
LEMMA NewDeltaTyped ==
  ASSUME OutboxTypeOK, NEW s \in Syncs, NEW k \in Keys,
         NEW w \in Windows \cup {NoWindow}, NEW age \in Ages, age <= now
  PROVE  NewDelta(s, k, w, now - age) \in Delta
<1>1. now \in Nat /\ now - age \in Nat
  BY MemoryOutboxAssumption, JobStoreAssumption DEF OutboxTypeOK, TypeOK
<1>2. QED
  BY <1>1 DEF NewDelta, Delta

(* Enqueue records one delta and, with a window, its slot.                  *)
LEMMA EnqueueRecords ==
  ASSUME OutboxTypeOK, NEW s \in Syncs, NEW k \in Keys,
         NEW w \in Windows \cup {NoWindow}, NEW age \in Ages, age <= now,
         Enqueue(s, k, w, age)
  PROVE  RecordStep
<1> DEFINE new == NewDelta(s, k, w, now - age)
<1>1. new \in Delta /\ new.state = "pending" /\ new.window = w /\ new.key = k
  BY NewDeltaTyped DEF NewDelta
<1> HIDE DEF new
<1>2. /\ nextDelta \in Nat /\ MaxDeltas \in Nat /\ nextDelta' = nextDelta + 1
      /\ nextDelta' \in nextDelta..MaxDeltas
  BY JobStoreAssumption DEF OutboxTypeOK, Enqueue
<1>3. deltas' = [d \in 1..nextDelta' |-> IF d = nextDelta' THEN new ELSE deltas[d]]
  BY DEF Enqueue, new
<1>4. \A d \in 1..nextDelta : deltas[d] \in Delta
  BY DEF OutboxTypeOK
<1>5. \A d \in 1..nextDelta' : d = nextDelta' \/ d \in 1..nextDelta
  BY <1>2
<1>6. deltas' \in [1..nextDelta' -> Delta]
  BY <1>1, <1>3, <1>4, <1>5
<1>7. \A d \in 1..nextDelta : deltas'[d] = deltas[d]
  BY <1>2, <1>3
<1>8. NewIDs = {nextDelta'} /\ deltas'[nextDelta'] = new
  BY <1>2, <1>3 DEF NewIDs
<1>9. UNCHANGED <<storeVars, marked>>
  BY DEF Enqueue
<1>10. CASE w = NoWindow
  <2>1. dedup' = dedup
    BY <1>10 DEF Enqueue
  <2>2. dedup' \in [Windows \X Keys -> 0..nextDelta']
    BY <1>2, <2>1 DEF OutboxTypeOK
  <2>3. QED
    BY <1>1, <1>2, <1>6, <1>7, <1>8, <1>9, <1>10, <2>1, <2>2 DEF RecordStep
<1>11. CASE w \in Windows
  <2>1. w # NoWindow /\ <<w, k>> \in Windows \X Keys
    BY <1>11, MemoryOutboxAssumption
  <2>2. dedup' = [dedup EXCEPT ![<<w, k>>] = nextDelta'] /\ dedup[<<w, k>>] = 0
    BY <2>1 DEF Enqueue, Duplicate
  <2>3. \A vk \in Windows \X Keys : dedup[vk] \in 0..nextDelta'
    BY <1>2 DEF OutboxTypeOK
  <2>4. dedup' \in [Windows \X Keys -> 0..nextDelta']
    <3>1. dedup \in [Windows \X Keys -> 0..nextDelta'] /\ nextDelta' \in 0..nextDelta'
      BY <1>2, <2>3 DEF OutboxTypeOK
    <3>2. QED
      BY <2>1, <2>2, <3>1
  <2>5. dedup'[<<w, k>>] = nextDelta'
    BY <2>1, <2>2 DEF OutboxTypeOK
  <2>6. \A v \in Windows, l \in Keys : v # w \/ l # k => dedup'[<<v, l>>] = dedup[<<v, l>>]
    BY <2>2 DEF OutboxTypeOK
  <2>7. QED
    BY <1>1, <1>2, <1>6, <1>7, <1>8, <1>9, <2>1, <2>2, <2>4, <2>5, <2>6 DEF RecordStep
<1>12. QED
  BY <1>10, <1>11

(* The inserted items of a batch have keys of their own, none of which has  *)
(* a delta in the window.                                                   *)
LEMMA BatchKeysDiffer ==
  ASSUME OutboxTypeOK, NEW items \in Batches, NEW w \in Windows,
         NEW q \in [1..Cardinality(Fresh(items, w)) -> Fresh(items, w)],
         \A h, i \in DOMAIN q : h < i => q[h] < q[i]
  PROVE  /\ Cardinality(Fresh(items, w)) \in Nat
         /\ \A i \in 1..Cardinality(Fresh(items, w)) :
              /\ items[q[i]][1] \in Syncs /\ items[q[i]][2] \in Keys
              /\ dedup[<<w, items[q[i]][2]>>] = 0
         /\ \A h, i \in 1..Cardinality(Fresh(items, w)) :
              items[q[h]][2] = items[q[i]][2] => h = i
<1> DEFINE n == Cardinality(Fresh(items, w))
<1>1. PICK m \in 1..MaxBatch : items \in [1..m -> Syncs \X Keys]
  BY DEF Batches
<1>2. m \in Nat /\ DOMAIN items = 1..m
  <2>1. m \in Nat
    BY MemoryOutboxAssumption
  <2>2. QED
    BY <1>1, <2>1
<1>3. Fresh(items, w) \subseteq 1..m /\ n \in Nat
  <2>1. Fresh(items, w) \subseteq 1..m
    BY <1>2 DEF Fresh
  <2>2. IsFiniteSet(1..m)
    <3>1. 1 \in Int /\ m \in Int
      BY <1>2
    <3>2. QED
      BY <3>1, FS_Interval
  <2>3. QED
    BY <2>1, <2>2, FS_Subset, FS_CardinalityType
<1>4. w # NoWindow
  BY MemoryOutboxAssumption
<1>5. \A i \in 1..n : /\ q[i] \in Fresh(items, w) /\ q[i] \in 1..m
                      /\ items[q[i]] \in Syncs \X Keys
  BY <1>1, <1>3
<1>6. \A h, i \in 1..n : h < i => q[h] < q[i]
  OBVIOUS
<1> HIDE DEF n
<1>7. \A h, i \in 1..n : items[q[h]][2] = items[q[i]][2] => ~(h < i)
  <2> SUFFICES ASSUME NEW h \in 1..n, NEW i \in 1..n, h < i
               PROVE  items[q[h]][2] # items[q[i]][2]
    OBVIOUS
  <2>1. q[h] \in 1..m /\ q[i] \in 1..m /\ q[h] < q[i]
    BY <1>5, <1>6
  <2>2. q[h] \in 1..(q[i] - 1)
    BY <1>2, <2>1
  <2>3. QED
    BY <1>5, <2>2 DEF Fresh
<1>8. \A i \in 1..n : /\ items[q[i]][1] \in Syncs /\ items[q[i]][2] \in Keys
                      /\ dedup[<<w, items[q[i]][2]>>] = 0
  BY <1>4, <1>5 DEF Fresh, Duplicate
<1>9. \A h, i \in 1..n : items[q[h]][2] = items[q[i]][2] => h = i
  <2>1. \A h, i \in 1..n : h < i \/ i < h \/ h = i
    BY <1>3
  <2>2. QED
    BY <1>7, <2>1
<1>10. QED
  BY <1>3, <1>8, <1>9 DEF n

(* EnqueueBatch records its fresh items under consecutive IDs.              *)
LEMMA BatchRecords ==
  ASSUME OutboxTypeOK, NEW items \in Batches, NEW w \in Windows,
         NEW age \in Ages, age <= now, EnqueueBatch(items, w, age)
  PROVE  RecordStep
<1> DEFINE n == Cardinality(Fresh(items, w))
<1>1. PICK q \in [1..n -> Fresh(items, w)] :
        /\ \A h, i \in DOMAIN q : h < i => q[h] < q[i]
        /\ nextDelta + n <= MaxDeltas
        /\ nextDelta' = nextDelta + n
        /\ deltas' = [d \in 1..nextDelta' |->
             IF d <= nextDelta THEN deltas[d]
             ELSE NewDelta(items[q[d - nextDelta]][1], items[q[d - nextDelta]][2], w, now - age)]
        /\ dedup' = [vk \in Windows \X Keys |->
             IF vk[1] = w /\ \E i \in 1..n : items[q[i]][2] = vk[2]
               THEN nextDelta + (CHOOSE i \in 1..n : items[q[i]][2] = vk[2])
               ELSE dedup[vk]]
        /\ UNCHANGED <<marked, storeVars>>
  BY DEF EnqueueBatch, Lists
<1> DEFINE sync(i) == items[q[i]][1]
           key(i)  == items[q[i]][2]
           pos(k)  == CHOOSE i \in 1..n : key(i) = k
<1>2. /\ n \in Nat
      /\ \A i \in 1..n : sync(i) \in Syncs /\ key(i) \in Keys /\ dedup[<<w, key(i)>>] = 0
      /\ \A h, i \in 1..n : key(h) = key(i) => h = i
  BY <1>1, BatchKeysDiffer
<1>3. \A i \in 1..n : pos(key(i)) = i
  BY <1>2
<1>4. \A i \in 1..n : NewDelta(sync(i), key(i), w, now - age) \in Delta
  BY <1>2, NewDeltaTyped
<1>5. /\ nextDelta \in Nat /\ MaxDeltas \in Nat /\ nextDelta' = nextDelta + n
      /\ nextDelta' \in nextDelta..MaxDeltas /\ nextDelta' \in Nat
  BY <1>1, <1>2, JobStoreAssumption DEF OutboxTypeOK
<1>6. w # NoWindow
  BY MemoryOutboxAssumption
<1>7. deltas' = [d \in 1..nextDelta' |->
        IF d <= nextDelta THEN deltas[d]
        ELSE NewDelta(sync(d - nextDelta), key(d - nextDelta), w, now - age)]
  BY <1>1
<1>8. dedup' = [vk \in Windows \X Keys |->
        IF vk[1] = w /\ \E i \in 1..n : key(i) = vk[2]
          THEN nextDelta + pos(vk[2]) ELSE dedup[vk]]
  BY <1>1
<1>9. UNCHANGED <<storeVars, marked>>
  BY <1>1
<1> HIDE DEF n, sync, key, pos
<1>10. \A d \in 1..nextDelta' : d \in 1..nextDelta \/ (~(d <= nextDelta) /\ d - nextDelta \in 1..n)
  BY <1>2, <1>5
<1>11. \A d \in 1..nextDelta : deltas'[d] = deltas[d]
  BY <1>2, <1>5, <1>7
<1>12. \A d \in NewIDs : /\ d \in 1..nextDelta' /\ ~(d <= nextDelta) /\ d - nextDelta \in 1..n
                         /\ nextDelta + (d - nextDelta) = d
  BY <1>2, <1>5 DEF NewIDs
<1>13. \A d \in NewIDs :
         deltas'[d] = NewDelta(sync(d - nextDelta), key(d - nextDelta), w, now - age)
  BY <1>7, <1>12
<1>14. deltas' \in [1..nextDelta' -> Delta]
  <2>1. \A d \in 1..nextDelta : deltas[d] \in Delta
    BY DEF OutboxTypeOK
  <2>2. \A d \in 1..nextDelta : d <= nextDelta
    BY <1>5
  <2>3. QED
    BY <1>4, <1>7, <1>10, <2>1, <2>2
<1>15. \A i \in 1..n : /\ nextDelta + i \in NewIDs /\ (nextDelta + i) - nextDelta = i
                       /\ nextDelta + i \in 0..nextDelta'
  BY <1>2, <1>5 DEF NewIDs
<1>16. \A i \in 1..n : dedup'[<<w, key(i)>>] = nextDelta + i
  <2> SUFFICES ASSUME NEW i \in 1..n PROVE dedup'[<<w, key(i)>>] = nextDelta + i
    OBVIOUS
  <2>1. <<w, key(i)>> \in Windows \X Keys /\ <<w, key(i)>>[1] = w /\ <<w, key(i)>>[2] = key(i)
    BY <1>2
  <2>2. dedup'[<<w, key(i)>>] = nextDelta + pos(key(i))
    BY <1>8, <2>1
  <2>3. QED
    BY <1>3, <2>2
<1>17. ASSUME NEW v \in Windows, NEW k \in Keys, ~(v = w /\ \E i \in 1..n : key(i) = k)
       PROVE  dedup'[<<v, k>>] = dedup[<<v, k>>]
  <2>1. <<v, k>> \in Windows \X Keys /\ <<v, k>>[1] = v /\ <<v, k>>[2] = k
    OBVIOUS
  <2>2. QED
    BY <1>8, <1>17, <2>1
<1>18. \A i \in 1..n : /\ deltas'[nextDelta + i].state = "pending"
                       /\ deltas'[nextDelta + i].window = w
                       /\ deltas'[nextDelta + i].key = key(i)
  <2> SUFFICES ASSUME NEW i \in 1..n
               PROVE  /\ deltas'[nextDelta + i].state = "pending"
                      /\ deltas'[nextDelta + i].window = w
                      /\ deltas'[nextDelta + i].key = key(i)
    OBVIOUS
  <2> DEFINE d == nextDelta + i
  <2>1. d \in NewIDs /\ d - nextDelta = i
    BY <1>15
  <2> HIDE DEF d
  <2>2. deltas'[d] = NewDelta(sync(d - nextDelta), key(d - nextDelta), w, now - age)
    BY <1>13, <2>1
  <2>3. QED
    BY <2>1, <2>2 DEF d, NewDelta
<1>19. \A d \in NewIDs : /\ deltas'[d].state = "pending"
                         /\ dedup'[<<deltas'[d].window, deltas'[d].key>>] = d
  BY <1>12, <1>16, <1>18
<1>20. \A v \in Windows, k \in Keys :
         \/ dedup'[<<v, k>>] = dedup[<<v, k>>]
         \/ /\ dedup[<<v, k>>] = 0 /\ dedup'[<<v, k>>] \in NewIDs
            /\ deltas'[dedup'[<<v, k>>]].window = v /\ deltas'[dedup'[<<v, k>>]].key = k
  <2> SUFFICES ASSUME NEW i \in 1..n
               PROVE  /\ dedup[<<w, key(i)>>] = 0 /\ dedup'[<<w, key(i)>>] \in NewIDs
                      /\ deltas'[dedup'[<<w, key(i)>>]].window = w
                      /\ deltas'[dedup'[<<w, key(i)>>]].key = key(i)
    BY <1>17
  <2>1. QED
    BY <1>2, <1>15, <1>16, <1>18
<1>21. dedup' \in [Windows \X Keys -> 0..nextDelta']
  <2>1. \A v \in Windows, k \in Keys : dedup'[<<v, k>>] \in 0..nextDelta'
    <3> SUFFICES ASSUME NEW v \in Windows, NEW k \in Keys
                 PROVE  dedup'[<<v, k>>] \in 0..nextDelta'
      OBVIOUS
    <3>1. dedup[<<v, k>>] \in 0..nextDelta'
      BY <1>5 DEF OutboxTypeOK
    <3>2. NewIDs \subseteq 0..nextDelta'
      BY <1>5 DEF NewIDs
    <3>3. QED
      BY <1>20, <3>1, <3>2
  <2>2. \A vk \in Windows \X Keys : vk = <<vk[1], vk[2]>> /\ vk[1] \in Windows /\ vk[2] \in Keys
    OBVIOUS
  <2>3. \A vk \in Windows \X Keys : dedup'[vk] \in 0..nextDelta'
    BY <2>1, <2>2
  <2>4. dedup' = [vk \in Windows \X Keys |-> dedup'[vk]]
    BY <1>8
  <2>5. QED
    BY <2>3, <2>4
<1>22. QED
  BY <1>5, <1>9, <1>11, <1>14, <1>19, <1>20, <1>21 DEF RecordStep
-----------------------------------------------------------------------------
(* What a dispatch does: it takes the first pending deltas C of a sync and  *)
(* gives each that has no job a new one.                                    *)
NewJobs == (nextID + 1)..nextID'

StageStep(s, C) ==
  /\ UNCHANGED <<now, nextDelta, dedup, marked>>
  /\ C \subseteq PendingDeltas(s)
  /\ C # {}
  /\ \A c \in C, d \in PendingDeltas(s) \ C : PendingBefore(c, d)
  /\ nextID' \in nextID..MaxJobs
  /\ jobs' \in [1..nextID' -> Job]
  /\ \A j \in 1..nextID : jobs'[j] = jobs[j]
  /\ \A j \in NewJobs : /\ jobs'[j].origin = "outbox" /\ jobs'[j].sync = s
                        /\ jobs'[j].delta \in ToStage(C)
                        /\ jobs'[j].lockedBy = NoWorker /\ jobs'[j].lockedUntil = NoTime
                        /\ jobByDelta'[jobs'[j].delta] = j
  /\ jobByDelta' \in [DeltaIDs -> 0..nextID']
  /\ \A d \in DeltaIDs \ ToStage(C) : jobByDelta'[d] = jobByDelta[d]
  /\ \A d \in ToStage(C) : jobByDelta'[d] \in NewJobs /\ jobs'[jobByDelta'[d]].delta = d
  /\ deltas' = [d \in 1..nextDelta |-> IF d \in C
                  THEN [deltas[d] EXCEPT !.state = "dispatched"] ELSE deltas[d]]

(* DispatchPending stages the first pending deltas of a sync.               *)
LEMMA DispatchStages ==
  ASSUME OutboxTypeOK, NEW s \in Syncs, NEW m \in PullLimits, DispatchPending(s, m)
  PROVE  \E C \in SUBSET (1..nextDelta) : StageStep(s, C)
<1>a. PICK C \in SUBSET PendingDeltas(s) :
        /\ FirstPending(C, s, m)
        /\ \E q \in [1..Cardinality(ToStage(C)) -> ToStage(C)] :
             /\ \A d \in ToStage(C) : \E i \in DOMAIN q : q[i] = d
             /\ \A h, i \in DOMAIN q : h < i => PendingBefore(q[h], q[i])
             /\ nextID + Cardinality(ToStage(C)) <= MaxJobs
             /\ nextID' = nextID + Cardinality(ToStage(C))
             /\ jobs' = [j \in 1..nextID' |-> IF j <= nextID THEN jobs[j]
                           ELSE NewJob(s, "outbox", q[j - nextID], 0, now)]
             /\ jobByDelta' = [d \in DeltaIDs |-> IF d \in ToStage(C)
                           THEN nextID + (CHOOSE i \in 1..Cardinality(ToStage(C)) : q[i] = d)
                           ELSE jobByDelta[d]]
             /\ deltas' = [d \in 1..nextDelta |-> IF d \in C
                           THEN [deltas[d] EXCEPT !.state = "dispatched"]
                           ELSE deltas[d]]
             /\ UNCHANGED <<now, nextDelta, dedup, marked>>
  BY DEF DispatchPending, Dispatched, Lists
<1> DEFINE S      == ToStage(C)
           k      == Cardinality(S)
<1>1. PICK q \in [1..k -> S] :
        /\ \A d \in S : \E i \in DOMAIN q : q[i] = d
        /\ \A h, i \in DOMAIN q : h < i => PendingBefore(q[h], q[i])
        /\ nextID + k <= MaxJobs
        /\ nextID' = nextID + k
        /\ jobs' = [j \in 1..nextID' |-> IF j <= nextID THEN jobs[j]
                      ELSE NewJob(s, "outbox", q[j - nextID], 0, now)]
        /\ jobByDelta' = [d \in DeltaIDs |-> IF d \in S
                      THEN nextID + (CHOOSE i \in 1..k : q[i] = d) ELSE jobByDelta[d]]
        /\ deltas' = [d \in 1..nextDelta |-> IF d \in C
                      THEN [deltas[d] EXCEPT !.state = "dispatched"] ELSE deltas[d]]
        /\ UNCHANGED <<now, nextDelta, dedup, marked>>
  BY <1>a
<1> DEFINE pos(d) == CHOOSE i \in 1..k : q[i] = d
           new(i) == NewJob(s, "outbox", q[i], 0, now)
<1>2. C \subseteq 1..nextDelta /\ S \subseteq C /\ S \subseteq 1..nextDelta /\ S \subseteq DeltaIDs
  <2>1. nextDelta \in Nat /\ MaxDeltas \in Nat /\ nextDelta <= MaxDeltas
    BY JobStoreAssumption DEF OutboxTypeOK
  <2>2. PendingDeltas(s) \subseteq 1..nextDelta /\ 1..nextDelta \subseteq DeltaIDs
    BY <2>1 DEF PendingDeltas, DeltaIDs
  <2>3. S \subseteq C
    BY DEF ToStage
  <2>4. QED
    BY <2>2, <2>3
<1>3. /\ k \in Nat
      /\ \A d \in S : pos(d) \in 1..k /\ q[pos(d)] = d
      /\ \A i \in 1..k : pos(q[i]) = i
  BY <1>1, <1>2, ListIsOneToOne
<1>4. /\ nextID' = nextID + k /\ nextID + k <= MaxJobs
      /\ jobs' = [j \in 1..nextID' |-> IF j <= nextID THEN jobs[j] ELSE new(j - nextID)]
      /\ jobByDelta' = [d \in DeltaIDs |-> IF d \in S THEN nextID + pos(d) ELSE jobByDelta[d]]
  BY <1>1
<1>5. \A i \in 1..k : q[i] \in S
  BY <1>1
<1>6. \A i \in 1..k : /\ new(i) \in Job
                      /\ new(i).origin = "outbox" /\ new(i).sync = s /\ new(i).delta = q[i]
                      /\ new(i).lockedBy = NoWorker /\ new(i).lockedUntil = NoTime
  <2>1. now \in Nat /\ 0 \in 0..MaxCount
    BY JobStoreAssumption DEF OutboxTypeOK, TypeOK
  <2>2. QED
    BY <1>2, <1>5, <2>1
    DEF NewJob, Job, Origins, States, DefaultMaxAttempts, NoTime
<1> HIDE DEF S, k, pos, new
<1>7. /\ nextID \in Nat /\ MaxJobs \in Nat
      /\ nextID' \in nextID..MaxJobs /\ nextID' \in Nat
  BY <1>3, <1>4, JobStoreAssumption DEF OutboxTypeOK, TypeOK
<1>8. \A j \in 1..nextID' : j \in 1..nextID \/ (~(j <= nextID) /\ j - nextID \in 1..k)
  BY <1>3, <1>4, <1>7
<1>9. \A j \in 1..nextID : j \in 1..nextID' /\ j <= nextID
  BY <1>3, <1>4, <1>7
<1>10. \A j \in 1..nextID : jobs[j] \in Job
  BY DEF OutboxTypeOK, TypeOK
<1>11. jobs' \in [1..nextID' -> Job]
  BY <1>4, <1>6, <1>8, <1>9, <1>10
<1>12. \A j \in 1..nextID : jobs'[j] = jobs[j]
  BY <1>4, <1>9
<1>13. \A i \in 1..k : nextID + i \in NewJobs /\ jobs'[nextID + i] = new(i)
  <2> SUFFICES ASSUME NEW i \in 1..k
               PROVE  nextID + i \in NewJobs /\ jobs'[nextID + i] = new(i)
    OBVIOUS
  <2>1. /\ nextID + i \in NewJobs /\ nextID + i \in 1..nextID'
        /\ ~(nextID + i <= nextID) /\ (nextID + i) - nextID = i
    BY <1>3, <1>4, <1>7 DEF NewJobs
  <2> DEFINE j == nextID + i
  <2>2. j \in 1..nextID' /\ ~(j <= nextID) /\ j - nextID = i
    BY <2>1
  <2> HIDE DEF j
  <2>3. jobs'[j] = new(j - nextID)
    BY <1>4, <2>2
  <2>4. jobs'[j] = new(i)
    BY <2>2, <2>3
  <2>5. QED
    BY <2>1, <2>4 DEF j
<1>14. \A d \in S : /\ jobByDelta'[d] = nextID + pos(d) /\ jobByDelta'[d] \in NewJobs
                    /\ jobs'[jobByDelta'[d]].delta = d
  <2> SUFFICES ASSUME NEW d \in S
               PROVE  /\ jobByDelta'[d] = nextID + pos(d) /\ jobByDelta'[d] \in NewJobs
                      /\ jobs'[jobByDelta'[d]].delta = d
    OBVIOUS
  <2>1. jobByDelta'[d] = nextID + pos(d)
    BY <1>2, <1>4
  <2>2. QED
    BY <1>3, <1>6, <1>13, <2>1
<1>15. \A d \in DeltaIDs \ S : jobByDelta'[d] = jobByDelta[d]
  BY <1>4
<1>16. jobByDelta' \in [DeltaIDs -> 0..nextID']
  <2>1. \A d \in DeltaIDs : jobByDelta[d] \in 0..nextID'
    BY <1>7 DEF OutboxTypeOK, TypeOK
  <2>2. \A j \in NewJobs : j \in 0..nextID'
    BY <1>7 DEF NewJobs
  <2>3. \A d \in DeltaIDs : jobByDelta'[d] \in 0..nextID'
    BY <1>14, <1>15, <2>1, <2>2
  <2>4. jobByDelta' = [d \in DeltaIDs |-> jobByDelta'[d]]
    BY <1>4
  <2>5. QED
    BY <2>3, <2>4
<1>17. \A j \in NewJobs : j - nextID \in 1..k /\ nextID + (j - nextID) = j
  BY <1>3, <1>4, <1>7 DEF NewJobs
<1>18. \A i \in 1..k : LET j == nextID + i
                       IN  /\ jobs'[j].origin = "outbox" /\ jobs'[j].sync = s
                           /\ jobs'[j].delta \in S
                           /\ jobs'[j].lockedBy = NoWorker /\ jobs'[j].lockedUntil = NoTime
                           /\ jobByDelta'[jobs'[j].delta] = j
  BY <1>3, <1>5, <1>6, <1>13, <1>14
<1>19. \A j \in NewJobs : /\ jobs'[j].origin = "outbox" /\ jobs'[j].sync = s
                          /\ jobs'[j].delta \in S
                          /\ jobs'[j].lockedBy = NoWorker /\ jobs'[j].lockedUntil = NoTime
                          /\ jobByDelta'[jobs'[j].delta] = j
  BY <1>17, <1>18
<1>20. \A c \in C, d \in PendingDeltas(s) \ C : PendingBefore(c, d)
  BY <1>a DEF FirstPending
<1>21. C # {}
  BY <1>a DEF FirstPending
<1>22. C \in SUBSET (1..nextDelta)
  BY <1>2
<1>23. StageStep(s, C)
  BY <1>1, <1>7, <1>11, <1>12, <1>14, <1>15, <1>16, <1>19, <1>20, <1>21 DEF StageStep, S
<1>24. QED
  BY <1>22, <1>23
-----------------------------------------------------------------------------
(* RowsInv is inductive; one lemma per kind of step.                        *)
LEMMA RecordKeepsRows ==
  ASSUME RowsInv, RecordStep
  PROVE  RowsInv'
<1> USE DEF RowsInv, RowsConsistent
<1>1. /\ nextDelta \in Nat /\ nextDelta' \in Nat /\ nextDelta <= nextDelta'
      /\ nextDelta' \in 0..MaxDeltas
  BY JobStoreAssumption DEF RecordStep, OutboxTypeOK
<1>2. \A d \in 1..nextDelta' : d \in 1..nextDelta \/ d \in NewIDs
  BY <1>1 DEF NewIDs
<1>3. 1..nextDelta \subseteq 1..nextDelta'
  BY <1>1
<1>4. /\ jobs' = jobs /\ jobByDelta' = jobByDelta /\ nextID' = nextID /\ now' = now
      /\ marked' = marked
  BY DEF RecordStep, storeVars
<1>5. OutboxTypeOK'
  <2>1. TypeOK'
    BY <1>4 DEF OutboxTypeOK, TypeOK
  <2>2. QED
    BY <1>1, <1>3, <1>4, <2>1 DEF OutboxTypeOK, RecordStep
<1>6. NoDeltaLost'
  <2> SUFFICES ASSUME NEW d \in 1..nextDelta', deltas'[d].state = "dispatched", d \notin marked
               PROVE  jobByDelta[d] # 0 /\ jobs[jobByDelta[d]].sync = deltas'[d].sync
    BY <1>4 DEF NoDeltaLost
  <2>1. d \in 1..nextDelta /\ deltas'[d] = deltas[d]
    BY <1>2 DEF RecordStep
  <2>2. QED
    BY <2>1 DEF NoDeltaLost
<1>7. OneDeltaPerWindow'
  <2>1. ASSUME NEW d \in 1..nextDelta', deltas'[d].window # NoWindow
        PROVE  dedup'[<<deltas'[d].window, deltas'[d].key>>] = d
    <3>1. CASE d \in NewIDs
      BY <2>1, <3>1 DEF RecordStep
    <3>2. CASE d \in 1..nextDelta
      <4>1. deltas'[d] = deltas[d] /\ deltas[d] \in Delta
        BY <3>2 DEF RecordStep, OutboxTypeOK
      <4>2. deltas[d].window \in Windows /\ deltas[d].key \in Keys
        BY <2>1, <4>1 DEF Delta
      <4>3. dedup[<<deltas[d].window, deltas[d].key>>] = d /\ d # 0
        BY <2>1, <1>1, <3>2, <4>1 DEF OneDeltaPerWindow
      <4>4. QED
        BY <4>1, <4>2, <4>3 DEF RecordStep
    <3>3. QED
      BY <1>2, <3>1, <3>2
  <2>2. ASSUME NEW w \in Windows, NEW k \in Keys, dedup'[<<w, k>>] # 0
        PROVE  deltas'[dedup'[<<w, k>>]].window = w /\ deltas'[dedup'[<<w, k>>]].key = k
    <3>1. CASE dedup'[<<w, k>>] = dedup[<<w, k>>]
      <4>1. dedup[<<w, k>>] \in 0..nextDelta
        BY DEF OutboxTypeOK
      <4>2. dedup[<<w, k>>] \in 1..nextDelta
        BY <1>1, <2>2, <3>1, <4>1
      <4>3. QED
        BY <2>2, <3>1, <4>2 DEF OneDeltaPerWindow, RecordStep
    <3>2. QED
      BY <3>1 DEF RecordStep
  <2>3. QED
    BY <2>1, <2>2 DEF OneDeltaPerWindow
<1>8. OneOutboxJobPerDelta'
  BY <1>4 DEF OneOutboxJobPerDelta
<1>9. MappedAlike'
  <2> SUFFICES ASSUME NEW d \in DeltaIDs, jobByDelta[d] # 0
               PROVE  d <= nextDelta' /\ jobs[jobByDelta[d]].sync = deltas'[d].sync
    BY <1>4 DEF MappedAlike
  <2>1. d \in 1..nextDelta /\ jobs[jobByDelta[d]].sync = deltas[d].sync
    BY <1>1, JobStoreAssumption DEF MappedAlike, DeltaIDs
  <2>2. QED
    BY <1>1, <2>1 DEF RecordStep
<1>10. QED
  BY <1>5, <1>6, <1>7, <1>8, <1>9

(* A dispatch: the new jobs are of the deltas staged, and of their sync.    *)
LEMMA StageKeepsRows ==
  ASSUME RowsInv, NEW s \in Syncs, NEW C \in SUBSET (1..nextDelta), StageStep(s, C)
  PROVE  RowsInv'
<1> USE DEF RowsInv, RowsConsistent
<1>1. /\ nextID \in Nat /\ nextID' \in Nat /\ nextID <= nextID' /\ nextID' \in 0..MaxJobs
      /\ nextDelta \in Nat /\ MaxDeltas \in Nat /\ nextDelta <= MaxDeltas
  BY JobStoreAssumption DEF StageStep, OutboxTypeOK, TypeOK
<1>2. \A j \in 1..nextID' : j \in 1..nextID \/ j \in NewJobs
  BY <1>1 DEF NewJobs
<1>3. 1..nextDelta \subseteq DeltaIDs /\ ToStage(C) \subseteq C
  BY <1>1 DEF DeltaIDs, ToStage
<1>4. /\ now' = now /\ nextDelta' = nextDelta /\ dedup' = dedup /\ marked' = marked
  BY DEF StageStep
<1>5. \A d \in 1..nextDelta : /\ deltas'[d] \in Delta
                              /\ deltas'[d].sync = deltas[d].sync
                              /\ deltas'[d].window = deltas[d].window
                              /\ deltas'[d].key = deltas[d].key
                              /\ d \notin C => deltas'[d] = deltas[d]
  <2> SUFFICES ASSUME NEW d \in 1..nextDelta
               PROVE  /\ deltas'[d] \in Delta
                      /\ deltas'[d].sync = deltas[d].sync
                      /\ deltas'[d].window = deltas[d].window
                      /\ deltas'[d].key = deltas[d].key
                      /\ d \notin C => deltas'[d] = deltas[d]
    OBVIOUS
  <2>1. /\ deltas[d] \in Delta
        /\ deltas'[d] = IF d \in C THEN [deltas[d] EXCEPT !.state = "dispatched"] ELSE deltas[d]
    BY DEF StageStep, OutboxTypeOK
  <2>2. QED
    BY <2>1 DEF Delta
<1>6. \A d \in C : deltas[d].sync = s /\ deltas[d].state = "pending"
  BY DEF StageStep, PendingDeltas
<1>7. OutboxTypeOK'
  <2>1. TypeOK'
    BY <1>1, <1>4 DEF StageStep, OutboxTypeOK, TypeOK
  <2>2. deltas' \in [1..nextDelta' -> Delta]
    BY <1>4, <1>5 DEF StageStep
  <2>3. QED
    BY <1>4, <2>1, <2>2 DEF OutboxTypeOK
<1>8. \A d \in DeltaIDs : jobByDelta[d] # 0 => jobByDelta[d] \in 1..nextID
  BY <1>1 DEF OutboxTypeOK, TypeOK
<1>9. \A d \in DeltaIDs : d \notin ToStage(C) => jobByDelta'[d] = jobByDelta[d]
  BY DEF StageStep
<1>10. \A d \in ToStage(C) :
         /\ jobByDelta'[d] \in NewJobs /\ jobByDelta'[d] # 0
         /\ jobs'[jobByDelta'[d]].delta = d /\ jobs'[jobByDelta'[d]].origin = "outbox"
         /\ jobs'[jobByDelta'[d]].sync = s
  BY <1>1 DEF StageStep, NewJobs
<1>11. MappedAlike'
  <2> SUFFICES ASSUME NEW d \in DeltaIDs, jobByDelta'[d] # 0
               PROVE  d <= nextDelta /\ jobs'[jobByDelta'[d]].sync = deltas'[d].sync
    BY <1>4 DEF MappedAlike
  <2>1. CASE d \in ToStage(C)
    <3>1. d \in C /\ d \in 1..nextDelta
      BY <1>3, <2>1
    <3>2. QED
      BY <1>1, <1>5, <1>6, <1>10, <2>1, <3>1
  <2>2. CASE d \notin ToStage(C)
    <3>1. jobByDelta'[d] = jobByDelta[d] /\ jobByDelta[d] \in 1..nextID
      BY <1>8, <1>9, <2>2
    <3>2. d <= nextDelta /\ jobs[jobByDelta[d]].sync = deltas[d].sync
      BY <3>1 DEF MappedAlike
    <3>3. d \in 1..nextDelta
      BY <1>1, <3>2 DEF DeltaIDs
    <3>4. jobs'[jobByDelta[d]] = jobs[jobByDelta[d]]
      BY <3>1 DEF StageStep
    <3>5. QED
      BY <1>5, <3>1, <3>2, <3>3, <3>4
  <2>3. QED
    BY <2>1, <2>2
<1>12. NoDeltaLost'
  <2> SUFFICES ASSUME NEW d \in 1..nextDelta, deltas'[d].state = "dispatched", d \notin marked
               PROVE  jobByDelta'[d] # 0
    BY <1>3, <1>4, <1>11 DEF NoDeltaLost, MappedAlike
  <2>1. CASE d \in ToStage(C)
    BY <1>10, <2>1
  <2>2. CASE d \notin ToStage(C)
    <3>1. d \in DeltaIDs /\ jobByDelta'[d] = jobByDelta[d]
      BY <1>3, <1>9, <2>2
    <3>2. CASE d \in C
      BY <2>2, <3>1, <3>2 DEF ToStage
    <3>3. CASE d \notin C
      BY <1>5, <3>1, <3>3 DEF NoDeltaLost
    <3>4. QED
      BY <3>2, <3>3
  <2>3. QED
    BY <2>1, <2>2
<1>13. OneDeltaPerWindow'
  <2>1. \A w \in Windows, k \in Keys : dedup[<<w, k>>] # 0 => dedup[<<w, k>>] \in 1..nextDelta
    BY <1>1 DEF OutboxTypeOK
  <2>2. QED
    BY <1>4, <1>5, <2>1 DEF OneDeltaPerWindow
<1>14. OneOutboxJobPerDelta'
  <2>1. ASSUME NEW d \in DeltaIDs, jobByDelta'[d] # 0
        PROVE  jobs'[jobByDelta'[d]].origin = "outbox" /\ jobs'[jobByDelta'[d]].delta = d
    <3>1. CASE d \notin ToStage(C)
      BY <1>8, <1>9, <2>1, <3>1 DEF OneOutboxJobPerDelta, StageStep
    <3>2. QED
      BY <1>10, <3>1
  <2>2. ASSUME NEW j \in 1..nextID', jobs'[j].origin = "outbox"
        PROVE  jobs'[j].delta # NoDelta /\ jobByDelta'[jobs'[j].delta] = j
    <3>1. CASE j \in NewJobs
      <4>1. jobs'[j].delta \in 1..nextDelta /\ jobByDelta'[jobs'[j].delta] = j
        BY <1>3, <3>1 DEF StageStep
      <4>2. QED
        BY <1>1, <4>1 DEF NoDelta
    <3>2. CASE j \in 1..nextID
      <4>1. jobs'[j] = jobs[j] /\ jobs[j] \in Job
        BY <3>2 DEF StageStep, OutboxTypeOK, TypeOK
      <4>2. jobs[j].delta # NoDelta /\ jobByDelta[jobs[j].delta] = j /\ jobs[j].delta \in DeltaIDs
        BY <2>2, <3>2, <4>1 DEF OneOutboxJobPerDelta, Job
      <4>3. jobs[j].delta \notin ToStage(C)
        BY <1>1, <3>2, <4>2 DEF ToStage
      <4>4. QED
        BY <1>9, <4>1, <4>2, <4>3
    <3>3. QED
      BY <1>2, <3>1, <3>2
  <2>3. QED
    BY <2>1, <2>2 DEF OneOutboxJobPerDelta
<1>15. QED
  BY <1>7, <1>11, <1>12, <1>13, <1>14

(* A delta marked by hand is excused from having a job.                     *)
LEMMA MarkKeepsRows ==
  ASSUME RowsInv, NEW e \in 1..nextDelta, MarkDispatched(e)
  PROVE  RowsInv'
<1> USE DEF RowsInv, RowsConsistent
<1>1. /\ now' = now /\ nextID' = nextID /\ jobs' = jobs /\ jobByDelta' = jobByDelta
      /\ nextDelta' = nextDelta /\ dedup' = dedup /\ marked' = marked \cup {e}
  BY DEF MarkDispatched, storeVars
<1>2. \A d \in 1..nextDelta : /\ deltas'[d] \in Delta
                              /\ deltas'[d].sync = deltas[d].sync
                              /\ deltas'[d].window = deltas[d].window
                              /\ deltas'[d].key = deltas[d].key
                              /\ d # e => deltas'[d] = deltas[d]
  <2> SUFFICES ASSUME NEW d \in 1..nextDelta
               PROVE  /\ deltas'[d] \in Delta
                      /\ deltas'[d].sync = deltas[d].sync
                      /\ deltas'[d].window = deltas[d].window
                      /\ deltas'[d].key = deltas[d].key
                      /\ d # e => deltas'[d] = deltas[d]
    OBVIOUS
  <2>1. /\ deltas[d] \in Delta
        /\ deltas'[d] = IF d = e THEN [deltas[d] EXCEPT !.state = "dispatched"] ELSE deltas[d]
    BY DEF MarkDispatched, OutboxTypeOK
  <2>2. QED
    BY <2>1 DEF Delta
<1>3. deltas' \in [1..nextDelta' -> Delta]
  BY <1>1, <1>2 DEF MarkDispatched, OutboxTypeOK
<1>4. OutboxTypeOK'
  BY <1>1, <1>3 DEF OutboxTypeOK, TypeOK
<1>5. NoDeltaLost'
  BY <1>1, <1>2 DEF NoDeltaLost
<1>6. OneDeltaPerWindow'
  <2>1. \A w \in Windows, k \in Keys : dedup[<<w, k>>] # 0 => dedup[<<w, k>>] \in 1..nextDelta
    BY JobStoreAssumption DEF OutboxTypeOK
  <2>2. QED
    BY <1>1, <1>2, <2>1 DEF OneDeltaPerWindow
<1>7. OneOutboxJobPerDelta'
  BY <1>1 DEF OneOutboxJobPerDelta
<1>8. MappedAlike'
  <2>1. \A d \in DeltaIDs : d <= nextDelta => d \in 1..nextDelta
    BY JobStoreAssumption DEF OutboxTypeOK, DeltaIDs
  <2>2. QED
    BY <1>1, <1>2, <2>1 DEF MappedAlike
<1>9. QED
  BY <1>4, <1>5, <1>6, <1>7, <1>8

(* Steps of the job store alone: what they keep of rows and map suffices.   *)
LEMMA StoreKeepsRows ==
  ASSUME RowsInv, UNCHANGED deltaVars, TypeOK', OneOutboxJobPerDelta',
         \A d \in DeltaIDs : jobByDelta[d] # 0 =>
           jobByDelta'[d] = jobByDelta[d] /\ jobs'[jobByDelta[d]].sync = jobs[jobByDelta[d]].sync,
         \A d \in DeltaIDs : jobByDelta'[d] # jobByDelta[d] =>
           d <= nextDelta /\ jobs'[jobByDelta'[d]].sync = deltas[d].sync
  PROVE  RowsInv'
<1> USE DEF RowsInv, RowsConsistent
<1>1. nextDelta' = nextDelta /\ deltas' = deltas /\ dedup' = dedup /\ marked' = marked
  BY DEF deltaVars
<1>2. 1..nextDelta \subseteq DeltaIDs
  BY JobStoreAssumption DEF OutboxTypeOK, DeltaIDs
<1>3. OutboxTypeOK' /\ OneDeltaPerWindow'
  BY <1>1 DEF OutboxTypeOK, OneDeltaPerWindow
<1>4. NoDeltaLost'
  BY <1>1, <1>2 DEF NoDeltaLost
<1>5. MappedAlike'
  BY <1>1 DEF MappedAlike
<1>6. QED
  BY <1>3, <1>4, <1>5

(* Calls on jobs that exist, and time.                                      *)
LEMMA CallKeepsRows ==
  ASSUME RowsInv, Call \/ Tick, UNCHANGED deltaVars
  PROVE  RowsInv'
<1>1. TypeOK /\ OneOutboxJobPerDelta /\ [Next]_storeVars
  BY DEF RowsInv, RowsConsistent, OutboxTypeOK, Next
<1>2. TypeOK' /\ OneOutboxJobPerDelta'
  BY <1>1, TypeStep, OutboxStep
<1>3. /\ jobByDelta' = jobByDelta
      /\ \A j \in 1..nextID : jobs'[j].sync = jobs[j].sync
  <2>1. CASE Tick
    BY <2>1 DEF Tick
  <2>2. CASE Call
    BY <1>1, <2>2, CallCases, CallKeepsMapping
  <2>3. QED
    BY <2>1, <2>2
<1>4. \A d \in DeltaIDs : jobByDelta[d] # 0 => jobByDelta[d] \in 1..nextID
  BY <1>1, JobStoreAssumption DEF TypeOK
<1>5. QED
  BY <1>2, <1>3, <1>4, StoreKeepsRows

(* A direct Create maps a delta that has no job yet.                        *)
LEMMA CreateForKeepsRows ==
  ASSUME RowsInv, NEW d \in 1..nextDelta, NEW m \in MaxAttemptsInputs, NEW b \in Delays,
         CreateFor(d, m, b)
  PROVE  /\ RowsInv'
         /\ UNCHANGED deltaVars
         /\ nextID' = nextID + 1 /\ jobByDelta[d] = 0 /\ jobByDelta'[d] = nextID'
         /\ \A e \in DeltaIDs \ {d} : jobByDelta'[e] = jobByDelta[e]
         /\ \A j \in 1..nextID : jobs'[j] = jobs[j]
<1>1. TypeOK /\ OneOutboxJobPerDelta /\ deltas[d] \in Delta /\ d \in DeltaIDs
  BY JobStoreAssumption DEF RowsInv, RowsConsistent, OutboxTypeOK, DeltaIDs
<1>2. deltas[d].sync \in Syncs /\ "outbox" \in Origins /\ d \in DeltaIDs \cup {NoDelta}
  BY <1>1 DEF Delta, Origins
<1>3. Create(deltas[d].sync, "outbox", d, m, b) /\ UNCHANGED deltaVars
  BY DEF CreateFor
<1>4. TypeOK' /\ OneOutboxJobPerDelta'
  <2>1. Next
    BY <1>2, <1>3 DEF Next
  <2>2. QED
    BY <1>1, <2>1, TypeStep, OutboxStep
<1>5. /\ nextID' = nextID + 1 /\ nextID \in Nat
      /\ \A j \in 1..nextID : jobs'[j] = jobs[j]
      /\ jobs'[nextID'].sync = deltas[d].sync
  <2>1. /\ nextID' = nextID + 1
        /\ \A j \in 1..nextID : jobs'[j] = jobs[j]
        /\ jobs'[nextID'] = NewJob(deltas[d].sync, "outbox", d, m, now + b)
    BY <1>1, <1>2, <1>3, CreateStep
  <2>2. QED
    BY <1>1, <2>1, JobStoreAssumption DEF NewJob, TypeOK
<1>6. jobByDelta[d] = 0 /\ jobByDelta' = [jobByDelta EXCEPT ![d] = nextID']
  BY <1>3 DEF Create, CreateAllowed
<1>7. jobByDelta'[d] = nextID' /\ \A e \in DeltaIDs \ {d} : jobByDelta'[e] = jobByDelta[e]
  BY <1>1, <1>6 DEF TypeOK
<1>8. \A e \in DeltaIDs : jobByDelta[e] # 0 => jobByDelta[e] \in 1..nextID /\ e # d
  BY <1>1, <1>6, JobStoreAssumption DEF TypeOK
<1>9. d <= nextDelta
  BY JobStoreAssumption DEF RowsInv, RowsConsistent, OutboxTypeOK
<1>10. RowsInv'
  BY <1>3, <1>4, <1>5, <1>7, <1>8, <1>9, StoreKeepsRows
<1>11. QED
  BY <1>3, <1>5, <1>6, <1>7, <1>10

(* A step of the outbox is one of these.                                    *)
LEMMA OutboxCases ==
  ASSUME RowsInv, OutboxNext
  PROVE  \/ RecordStep
         \/ \E s \in Syncs : \E C \in SUBSET (1..nextDelta) : StageStep(s, C)
         \/ \E d \in 1..nextDelta : MarkDispatched(d)
         \/ \E d \in 1..nextDelta, m \in MaxAttemptsInputs, b \in Delays : CreateFor(d, m, b)
         \/ (Call \/ Tick) /\ UNCHANGED deltaVars
<1> OutboxTypeOK
  BY DEF RowsInv, RowsConsistent
<1>1. CASE Producer
  <2>1. PICK age \in Ages :
          /\ age <= now
          /\ \/ \E s \in Syncs, k \in Keys, w \in Windows \cup {NoWindow} :
                  Enqueue(s, k, w, age)
             \/ \E items \in Batches, w \in Windows : EnqueueBatch(items, w, age)
    BY <1>1 DEF Producer
  <2>2. QED
    BY <2>1, EnqueueRecords, BatchRecords
<1>2. CASE \E s \in Syncs, n \in PullLimits : DispatchPending(s, n)
  BY <1>2, DispatchStages
<1>3. QED
  BY <1>1, <1>2 DEF OutboxNext

(* RowsInv is inductive.                                                    *)
LEMMA RowsStep == RowsInv /\ [OutboxNext]_outboxVars => RowsInv'
<1>1. ASSUME RowsInv, UNCHANGED outboxVars PROVE RowsInv'
  BY <1>1
  DEF outboxVars, storeVars, deltaVars, RowsInv, RowsConsistent, OutboxTypeOK, TypeOK,
      NoDeltaLost, OneDeltaPerWindow, OneOutboxJobPerDelta, MappedAlike
<1>2. ASSUME RowsInv, OutboxNext PROVE RowsInv'
  BY <1>2, OutboxCases, RecordKeepsRows, StageKeepsRows, MarkKeepsRows, CreateForKeepsRows,
     CallKeepsRows
<1>3. QED
  BY <1>1, <1>2

(* The empty stores agree.                                                  *)
LEMMA RowsInit == OutboxInit => RowsInv
<1> SUFFICES ASSUME OutboxInit PROVE RowsInv
  OBVIOUS
<1>1. TypeOK /\ 1..0 = {}
  BY InitType DEF OutboxInit
<1>2. /\ nextDelta = 0 /\ 1..nextDelta = {} /\ deltas = [d \in 1..0 |-> d] /\ marked = {}
      /\ nextID = 0 /\ 1..nextID = {} /\ jobByDelta = [d \in DeltaIDs |-> 0]
      /\ dedup = [wk \in Windows \X Keys |-> 0]
  BY <1>1 DEF OutboxInit, Init
<1>3. \A w \in Windows, k \in Keys : dedup[<<w, k>>] = 0
  BY <1>2
<1>4. \A d \in DeltaIDs : jobByDelta[d] = 0
  BY <1>2
<1>5. OutboxTypeOK
  BY <1>1, <1>2, JobStoreAssumption DEF OutboxTypeOK
<1>6. NoDeltaLost /\ OneDeltaPerWindow
  BY <1>2, <1>3 DEF NoDeltaLost, OneDeltaPerWindow
<1>7. OneOutboxJobPerDelta /\ MappedAlike
  BY <1>2, <1>4 DEF OneOutboxJobPerDelta, MappedAlike
<1>8. QED
  BY <1>5, <1>6, <1>7 DEF RowsInv, RowsConsistent

(* The in-memory deltas, dedup map, jobs and delta map always agree: no     *)
(* delta is dispatched without a job of its own sync, no key has two deltas *)
(* in a window, and no delta two jobs.                                      *)
THEOREM RowsAgree == OutboxSpec => []RowsConsistent
<1>1. RowsInv => RowsConsistent
  BY DEF RowsInv
<1>2. QED
  BY <1>1, RowsInit, RowsStep, PTL DEF OutboxSpec
-----------------------------------------------------------------------------
(* A dispatch marks no delta before one of its sync that occurred earlier.  *)
THEOREM DispatchFollowsTheQueue == OutboxSpec => DispatchesInOrder
<1> DEFINE InOrder == \A s \in Syncs : \A c, d \in PendingDeltas(s) :
                        /\ deltas[c].occurredAt < deltas[d].occurredAt
                        /\ deltas'[d].state = "dispatched"
                        /\ d \notin marked'
                        => deltas'[c].state = "dispatched"
<1>1. ASSUME RowsInv, [OutboxNext]_outboxVars PROVE [InOrder]_outboxVars
  <2> SUFFICES ASSUME OutboxNext, NEW s \in Syncs,
                      NEW c \in PendingDeltas(s), NEW d \in PendingDeltas(s),
                      deltas[c].occurredAt < deltas[d].occurredAt,
                      deltas'[d].state = "dispatched", d \notin marked'
               PROVE  deltas'[c].state = "dispatched"
    BY <1>1
  <2>1. /\ c \in 1..nextDelta /\ d \in 1..nextDelta
        /\ deltas[c].state = "pending" /\ deltas[d].state = "pending"
        /\ deltas[c].sync = s /\ deltas[d].sync = s
        /\ deltas[c] \in Delta /\ deltas[d] \in Delta
    BY <1>1 DEF PendingDeltas, RowsInv, RowsConsistent, OutboxTypeOK
  <2>2. CASE RecordStep
    BY <2>1, <2>2 DEF RecordStep
  <2>3. CASE \E r \in Syncs : \E C \in SUBSET (1..nextDelta) : StageStep(r, C)
    <3>1. PICK r \in Syncs, C \in SUBSET (1..nextDelta) : StageStep(r, C)
      BY <2>3
    <3>2. d \in C
      BY <2>1, <3>1 DEF StageStep
    <3>3. r = s
      BY <2>1, <3>1, <3>2 DEF StageStep, PendingDeltas
    <3>4. c \in C
      <4>1. ~PendingBefore(d, c)
        BY <2>1 DEF PendingBefore, Delta
      <4>2. QED
        BY <3>1, <3>2, <3>3, <4>1 DEF StageStep
    <3>5. deltas'[c] = [deltas[c] EXCEPT !.state = "dispatched"]
      BY <2>1, <3>1, <3>4 DEF StageStep
    <3>6. QED
      BY <2>1, <3>5 DEF Delta
  <2>4. CASE \E e \in 1..nextDelta : MarkDispatched(e)
    <3>1. PICK e \in 1..nextDelta : MarkDispatched(e)
      BY <2>4
    <3>2. e # d
      BY <3>1 DEF MarkDispatched
    <3>3. deltas'[d] = deltas[d]
      BY <1>1, <2>1, <3>1, <3>2 DEF MarkDispatched, RowsInv, RowsConsistent, OutboxTypeOK
    <3>4. QED
      BY <2>1, <3>3
  <2>5. CASE UNCHANGED deltaVars
    BY <2>1, <2>5 DEF deltaVars
  <2>6. QED
    BY <1>1, <2>2, <2>3, <2>4, <2>5, OutboxCases DEF CreateFor
<1>2. QED
  BY <1>1, RowsInit, RowsStep, PTL DEF OutboxSpec, DispatchesInOrder
-----------------------------------------------------------------------------
(* The refinement of Outbox.  What its variables are, delta by delta: of    *)
(* the jobs of a delta there is the one the map knows, or none.             *)
BarsShow ==
  /\ DOMAIN deltaStatusBar = DeltaIDs /\ deltaStatusBar = [d \in DeltaIDs |-> deltaStatusBar[d]]
  /\ DOMAIN deltaSlotBar = DeltaIDs /\ deltaSlotBar = [d \in DeltaIDs |-> deltaSlotBar[d]]
  /\ DOMAIN deltaJobsBar = DeltaIDs /\ deltaJobsBar = [d \in DeltaIDs |-> deltaJobsBar[d]]
  /\ \A d \in DeltaIDs :
       /\ deltaStatusBar[d] = IF d <= nextDelta THEN deltas[d].state ELSE "absent"
       /\ deltaSlotBar[d] = IF d <= nextDelta /\ deltas[d].window # NoWindow
                              THEN <<deltas[d].window, deltas[d].key>> ELSE <<>>
       /\ deltaJobsBar[d] = IF jobByDelta[d] = 0 THEN 0 ELSE 1
       /\ d <= nextDelta => d \in 1..nextDelta

(* BarsShow holds in every reachable state.                                 *)
LEMMA Bars == RowsInv => BarsShow
<1> SUFFICES ASSUME RowsInv PROVE BarsShow
  OBVIOUS
<1>1. ASSUME NEW d \in DeltaIDs
      PROVE  deltaJobsBar[d] = IF jobByDelta[d] = 0 THEN 0 ELSE 1
  <2> DEFINE J == {j \in 1..nextID : jobs[j].origin = "outbox" /\ jobs[j].delta = d}
  <2>1. deltaJobsBar[d] = Cardinality(J)
    BY DEF deltaJobsBar
  <2>2. /\ jobByDelta[d] \in 0..nextID /\ nextID \in Nat
        /\ \A j \in 1..nextID : jobs[j].origin = "outbox" => jobByDelta[jobs[j].delta] = j
        /\ jobByDelta[d] # 0 => /\ jobs[jobByDelta[d]].origin = "outbox"
                                /\ jobs[jobByDelta[d]].delta = d
    BY JobStoreAssumption DEF RowsInv, RowsConsistent, OutboxTypeOK, TypeOK, OneOutboxJobPerDelta
  <2>3. CASE jobByDelta[d] = 0
    <3>1. J = {}
      BY <2>2, <2>3
    <3>2. QED
      BY <2>1, <2>3, <3>1, FS_EmptySet
  <2>4. CASE jobByDelta[d] # 0
    <3>1. J = {jobByDelta[d]}
      BY <2>2, <2>4
    <3>2. QED
      BY <2>1, <2>4, <3>1, FS_Singleton
  <2>5. QED
    BY <2>3, <2>4
<1>2. \A d \in DeltaIDs : d <= nextDelta => d \in 1..nextDelta
  BY JobStoreAssumption DEF RowsInv, RowsConsistent, OutboxTypeOK, DeltaIDs
<1>3. QED
  BY <1>1, <1>2 DEF BarsShow, deltaStatusBar, deltaSlotBar, deltaJobsBar

(* An enqueue records the new deltas; their slots differ.                   *)
LEMMA RecordShows ==
  ASSUME RowsInv, RowsInv', BarsShow, BarsShow', RecordStep
  PROVE  [Delivery!DeliveryNext]_(Delivery!deliveryVars)
<1>1. /\ nextDelta \in Nat /\ nextDelta' \in Nat /\ nextDelta <= nextDelta'
      /\ nextDelta' <= MaxDeltas /\ MaxDeltas \in Nat
  BY JobStoreAssumption DEF RecordStep, RowsInv, RowsConsistent, OutboxTypeOK
<1>2. /\ NewIDs \subseteq DeltaIDs
      /\ \A d \in DeltaIDs : d \in NewIDs <=> d <= nextDelta' /\ ~(d <= nextDelta)
      /\ \A d \in DeltaIDs : d <= nextDelta => d <= nextDelta'
  BY <1>1 DEF NewIDs, DeltaIDs
<1>3. jobByDelta' = jobByDelta
  BY DEF RecordStep, storeVars
<1>4. deltaJobsBar' = deltaJobsBar
  BY <1>3 DEF BarsShow
<1>5. \A d \in DeltaIDs \ NewIDs : /\ deltaStatusBar'[d] = deltaStatusBar[d]
                                   /\ deltaSlotBar'[d] = deltaSlotBar[d]
  <2> SUFFICES ASSUME NEW d \in DeltaIDs \ NewIDs
               PROVE  deltaStatusBar'[d] = deltaStatusBar[d] /\ deltaSlotBar'[d] = deltaSlotBar[d]
    OBVIOUS
  <2>1. CASE d <= nextDelta
    <3>1. d \in 1..nextDelta /\ d <= nextDelta'
      BY <1>2, <2>1 DEF BarsShow
    <3>2. deltas'[d] = deltas[d]
      BY <3>1 DEF RecordStep
    <3>3. /\ deltaStatusBar[d] = deltas[d].state /\ deltaStatusBar'[d] = deltas'[d].state
          /\ deltaSlotBar[d] = IF deltas[d].window # NoWindow
                                 THEN <<deltas[d].window, deltas[d].key>> ELSE <<>>
          /\ deltaSlotBar'[d] = IF deltas'[d].window # NoWindow
                                  THEN <<deltas'[d].window, deltas'[d].key>> ELSE <<>>
      BY <2>1, <3>1 DEF BarsShow
    <3>4. QED
      BY <3>2, <3>3
  <2>2. CASE ~(d <= nextDelta)
    <3>1. ~(d <= nextDelta')
      BY <1>2, <2>2
    <3>2. QED
      BY <2>2, <3>1 DEF BarsShow
  <2>3. QED
    BY <2>1, <2>2
<1>6. \A d \in NewIDs : deltaStatusBar[d] = "absent" /\ deltaStatusBar'[d] = "pending"
  <2> SUFFICES ASSUME NEW d \in NewIDs
               PROVE  deltaStatusBar[d] = "absent" /\ deltaStatusBar'[d] = "pending"
    OBVIOUS
  <2>1. d \in DeltaIDs /\ d <= nextDelta' /\ ~(d <= nextDelta)
    BY <1>2
  <2>2. deltas'[d].state = "pending"
    BY DEF RecordStep
  <2>3. QED
    BY <2>1, <2>2 DEF BarsShow
<1>7. \A d \in DeltaIDs : deltaSlotBar'[d] \in (Windows \X Keys) \cup {<<>>}
  <2> SUFFICES ASSUME NEW d \in DeltaIDs, d <= nextDelta', deltas'[d].window # NoWindow
               PROVE  <<deltas'[d].window, deltas'[d].key>> \in Windows \X Keys
    <3>1. \A d \in DeltaIDs :
            deltaSlotBar'[d] = IF d <= nextDelta' /\ deltas'[d].window # NoWindow
                                THEN <<deltas'[d].window, deltas'[d].key>> ELSE <<>>
      BY DEF BarsShow
    <3>2. QED
      BY <3>1
  <2>1. deltas'[d] \in Delta
    BY <1>1 DEF BarsShow, RowsInv, RowsConsistent, OutboxTypeOK
  <2>2. QED
    BY <2>1 DEF Delta
<1>8. \A d, e \in DeltaIDs : deltaSlotBar'[d] # <<>> /\ deltaSlotBar'[e] = deltaSlotBar'[d] => d = e
  <2> SUFFICES ASSUME NEW d \in DeltaIDs, NEW e \in DeltaIDs, deltaSlotBar'[d] # <<>>,
                      deltaSlotBar'[e] = deltaSlotBar'[d]
               PROVE  d = e
    OBVIOUS
  <2>1. d \in 1..nextDelta' /\ deltas'[d].window # NoWindow
        /\ deltaSlotBar'[d] = <<deltas'[d].window, deltas'[d].key>>
    BY DEF BarsShow
  <2>2. e \in 1..nextDelta' /\ deltas'[e].window # NoWindow
        /\ deltaSlotBar'[e] = <<deltas'[e].window, deltas'[e].key>>
    BY DEF BarsShow
  <2>3. QED
    BY <2>1, <2>2 DEF RowsInv, RowsConsistent, OneDeltaPerWindow
<1>9. CASE NewIDs = {}
  <2>1. deltaStatusBar' = deltaStatusBar /\ deltaSlotBar' = deltaSlotBar
    BY <1>5, <1>9 DEF BarsShow
  <2>2. QED
    BY <1>4, <2>1 DEF Delivery!deliveryVars
<1>10. CASE NewIDs # {}
  <2>1. deltaStatusBar' = [d \in DeltaIDs |-> IF d \in NewIDs THEN "pending" ELSE deltaStatusBar[d]]
    BY <1>5, <1>6 DEF BarsShow
  <2>2. deltaSlotBar' \in [DeltaIDs -> (Windows \X Keys) \cup {<<>>}]
    BY <1>7 DEF BarsShow
  <2>3. NewIDs \cap Delivery!Recorded = {}
    BY <1>6 DEF Delivery!Recorded
  <2>4. Delivery!Recorded \subseteq DeltaIDs
    BY DEF Delivery!Recorded
  <2>5. Delivery!Record(NewIDs)
    BY <1>2, <1>4, <1>5, <1>8, <1>10, <2>1, <2>2, <2>3, <2>4 DEF Delivery!Record
  <2>6. QED
    BY <1>2, <2>5 DEF Delivery!DeliveryNext
<1>11. QED
  BY <1>9, <1>10

(* A dispatch takes its deltas out of the queue; each has one job then.     *)
LEMMA StageShows ==
  ASSUME RowsInv, RowsInv', BarsShow, BarsShow', NEW s \in Syncs,
         NEW C \in SUBSET (1..nextDelta), StageStep(s, C)
  PROVE  Delivery!DeliveryNext
<1>1. nextDelta \in Nat /\ nextDelta <= MaxDeltas /\ MaxDeltas \in Nat /\ nextID \in Nat
  BY JobStoreAssumption DEF RowsInv, RowsConsistent, OutboxTypeOK, TypeOK
<1>2. C \subseteq DeltaIDs /\ \A d \in C : d <= nextDelta
  BY <1>1 DEF DeltaIDs
<1>3. nextDelta' = nextDelta /\ C # {}
  BY DEF StageStep
<1>4. \A d \in 1..nextDelta : /\ deltas'[d].window = deltas[d].window
                              /\ deltas'[d].key = deltas[d].key
                              /\ deltas'[d].state = IF d \in C THEN "dispatched"
                                                    ELSE deltas[d].state
  <2> SUFFICES ASSUME NEW d \in 1..nextDelta
               PROVE  /\ deltas'[d].window = deltas[d].window
                      /\ deltas'[d].key = deltas[d].key
                      /\ deltas'[d].state = IF d \in C THEN "dispatched" ELSE deltas[d].state
    OBVIOUS
  <2>1. /\ deltas[d] \in Delta
        /\ deltas'[d] = IF d \in C THEN [deltas[d] EXCEPT !.state = "dispatched"] ELSE deltas[d]
    BY DEF StageStep, RowsInv, RowsConsistent, OutboxTypeOK
  <2>2. QED
    BY <2>1 DEF Delta
<1>5. \A d \in C : deltaStatusBar[d] = "pending"
  <2>1. \A d \in C : deltas[d].state = "pending"
    BY DEF StageStep, PendingDeltas
  <2>2. QED
    BY <1>2, <2>1 DEF BarsShow
<1>6. deltaStatusBar' = [d \in DeltaIDs |-> IF d \in C THEN "dispatched" ELSE deltaStatusBar[d]]
  <2>1. \A d \in DeltaIDs : deltaStatusBar'[d] = IF d \in C THEN "dispatched" ELSE deltaStatusBar[d]
    BY <1>2, <1>3, <1>4 DEF BarsShow
  <2>2. QED
    BY <2>1 DEF BarsShow
<1>7. deltaSlotBar' = deltaSlotBar
  <2>1. ASSUME NEW d \in DeltaIDs PROVE deltaSlotBar'[d] = deltaSlotBar[d]
    <3>1. CASE d <= nextDelta
      <4>1. d \in 1..nextDelta /\ d <= nextDelta'
        BY <1>3, <3>1 DEF BarsShow
      <4>2. deltas'[d].window = deltas[d].window /\ deltas'[d].key = deltas[d].key
        BY <1>4, <4>1
      <4>3. QED
        BY <3>1, <4>1, <4>2 DEF BarsShow
    <3>2. CASE ~(d <= nextDelta)
      BY <1>3, <3>2 DEF BarsShow
    <3>3. QED
      BY <3>1, <3>2
  <2>2. QED
    BY <2>1 DEF BarsShow
<1>8. \A d \in DeltaIDs : deltaJobsBar'[d] = IF d \in C THEN 1 ELSE deltaJobsBar[d]
  <2> SUFFICES ASSUME NEW d \in DeltaIDs
               PROVE  deltaJobsBar'[d] = IF d \in C THEN 1 ELSE deltaJobsBar[d]
    OBVIOUS
  <2>1. CASE d \in ToStage(C)
    <3>1. d \in C /\ jobByDelta'[d] \in NewJobs
      BY <2>1 DEF ToStage, StageStep
    <3>2. jobByDelta'[d] # 0
      BY <1>1, <3>1 DEF NewJobs
    <3>3. QED
      BY <3>1, <3>2 DEF BarsShow
  <2>2. CASE d \notin ToStage(C)
    <3>1. jobByDelta'[d] = jobByDelta[d] /\ (d \in C => jobByDelta[d] # 0)
      BY <2>2 DEF ToStage, StageStep
    <3>2. QED
      BY <3>1 DEF BarsShow
  <2>3. QED
    BY <2>1, <2>2
<1>9. deltaJobsBar' = [d \in DeltaIDs |-> IF d \in C THEN 1 ELSE deltaJobsBar[d]]
  BY <1>8 DEF BarsShow
<1>10. Delivery!Dispatch(C)
  BY <1>3, <1>5, <1>6, <1>7, <1>9 DEF Delivery!Dispatch
<1>11. QED
  BY <1>2, <1>10 DEF Delivery!DeliveryNext

(* Direct calls of MarkDispatched and Create are Mark and Map.              *)
LEMMA DirectCallsShow ==
  ASSUME RowsInv, RowsInv', BarsShow, BarsShow', NEW d \in 1..nextDelta,
         MarkDispatched(d)
           \/ \E m \in MaxAttemptsInputs, b \in Delays : CreateFor(d, m, b)
  PROVE  Delivery!DeliveryNext
<1>1. nextDelta \in Nat /\ nextDelta <= MaxDeltas /\ MaxDeltas \in Nat /\ nextID \in Nat
  BY JobStoreAssumption DEF RowsInv, RowsConsistent, OutboxTypeOK, TypeOK
<1>2. d \in DeltaIDs /\ d <= nextDelta
  BY <1>1 DEF DeltaIDs
<1>3. CASE MarkDispatched(d)
  <2>1. /\ deltas[d].state = "pending" /\ nextDelta' = nextDelta /\ jobByDelta' = jobByDelta
        /\ \A e \in 1..nextDelta : /\ deltas'[e].window = deltas[e].window
                                   /\ deltas'[e].key = deltas[e].key
                                   /\ deltas'[e].state = IF e = d THEN "dispatched"
                                                         ELSE deltas[e].state
    <3> SUFFICES ASSUME NEW e \in 1..nextDelta
                 PROVE  /\ deltas'[e].window = deltas[e].window
                        /\ deltas'[e].key = deltas[e].key
                        /\ deltas'[e].state = IF e = d THEN "dispatched" ELSE deltas[e].state
      BY <1>3 DEF MarkDispatched, storeVars
    <3>1. /\ deltas[e] \in Delta
          /\ deltas'[e] = IF e = d THEN [deltas[e] EXCEPT !.state = "dispatched"] ELSE deltas[e]
      BY <1>3 DEF MarkDispatched, RowsInv, RowsConsistent, OutboxTypeOK
    <3>2. QED
      BY <3>1 DEF Delta
  <2>2. deltaStatusBar[d] = "pending"
    BY <1>2, <2>1 DEF BarsShow
  <2>3. \A e \in DeltaIDs : deltaStatusBar'[e] = IF e = d THEN "dispatched" ELSE deltaStatusBar[e]
    BY <1>2, <2>1 DEF BarsShow
  <2>4. deltaStatusBar' = [deltaStatusBar EXCEPT ![d] = "dispatched"]
    BY <1>2, <2>3 DEF BarsShow
  <2>5. \A e \in DeltaIDs : deltaSlotBar'[e] = deltaSlotBar[e]
    BY SMTT(30), <2>1 DEF BarsShow
  <2>6. deltaSlotBar' = deltaSlotBar /\ deltaJobsBar' = deltaJobsBar
    BY <2>1, <2>5 DEF BarsShow
  <2>7. Delivery!Mark(d)
    BY <2>2, <2>4, <2>6 DEF Delivery!Mark
  <2>8. QED
    BY <1>2, <2>7 DEF Delivery!DeliveryNext
<1>4. CASE \E m \in MaxAttemptsInputs, b \in Delays : CreateFor(d, m, b)
  <2>1. /\ UNCHANGED deltaVars
        /\ nextID' = nextID + 1 /\ jobByDelta[d] = 0 /\ jobByDelta'[d] = nextID'
        /\ \A e \in DeltaIDs \ {d} : jobByDelta'[e] = jobByDelta[e]
    BY <1>4, CreateForKeepsRows
  <2>2. deltaStatusBar' = deltaStatusBar /\ deltaSlotBar' = deltaSlotBar
    BY SMTT(30), <2>1 DEF BarsShow, deltaVars
  <2>3. \A e \in DeltaIDs : deltaJobsBar'[e] = IF e = d THEN 1 ELSE deltaJobsBar[e]
    BY <1>1, <2>1 DEF BarsShow
  <2>4. deltaJobsBar[d] = 0 /\ deltaJobsBar' = [deltaJobsBar EXCEPT ![d] = 1]
    BY <1>2, <2>1, <2>3 DEF BarsShow
  <2>5. deltaStatusBar[d] # "absent"
    BY ZenonT(30), <1>2 DEF BarsShow, RowsInv, RowsConsistent, OutboxTypeOK, Delta
  <2>6. Delivery!Map(d)
    BY <1>2, <2>2, <2>4, <2>5 DEF Delivery!Map, Delivery!Recorded
  <2>7. QED
    BY <1>2, <2>6 DEF Delivery!DeliveryNext
<1>5. QED
  BY <1>3, <1>4

(* Every step of the outbox is a step of Outbox, or shows nothing.          *)
LEMMA DeliveryStep ==
  RowsInv /\ RowsInv' /\ [OutboxNext]_outboxVars
    => [Delivery!DeliveryNext]_(Delivery!deliveryVars)
<1> SUFFICES ASSUME RowsInv, RowsInv', [OutboxNext]_outboxVars
             PROVE  [Delivery!DeliveryNext]_(Delivery!deliveryVars)
  OBVIOUS
<1>1. BarsShow /\ BarsShow'
  BY Bars, PTL
<1>2. ASSUME UNCHANGED <<nextDelta, deltas, jobByDelta>>
      PROVE  UNCHANGED Delivery!deliveryVars
  <2>1. /\ deltaStatusBar' = deltaStatusBar /\ deltaSlotBar' = deltaSlotBar
        /\ deltaJobsBar' = deltaJobsBar
    BY <1>1, <1>2 DEF BarsShow
  <2>2. QED
    BY <2>1 DEF Delivery!deliveryVars
<1>3. CASE UNCHANGED outboxVars
  BY <1>2, <1>3 DEF outboxVars, storeVars, deltaVars
<1>4. CASE (Call \/ Tick) /\ UNCHANGED deltaVars
  <2>1. jobByDelta' = jobByDelta
    <3>1. CASE Tick
      BY <3>1 DEF Tick
    <3>2. CASE Call
      BY <3>2, CallCases, CallKeepsMapping DEF RowsInv, RowsConsistent, OutboxTypeOK
    <3>3. QED
      BY <1>4, <3>1, <3>2
  <2>2. QED
    BY <1>2, <1>4, <2>1 DEF deltaVars
<1>5. QED
  BY <1>1, <1>3, <1>4, OutboxCases, RecordShows, StageShows, DirectCallsShow

(* The empty stores are the empty outbox.                                   *)
LEMMA DeliveryInitially == OutboxInit => Delivery!DeliveryInit
<1> SUFFICES ASSUME OutboxInit PROVE Delivery!DeliveryInit
  OBVIOUS
<1>1. BarsShow /\ nextDelta = 0 /\ jobByDelta = [d \in DeltaIDs |-> 0]
  BY RowsInit, Bars DEF OutboxInit, Init
<1>2. \A d \in DeltaIDs : ~(d <= nextDelta)
  BY <1>1, JobStoreAssumption DEF DeltaIDs
<1>3. \A d \in DeltaIDs : /\ deltaStatusBar[d] = "absent" /\ deltaSlotBar[d] = <<>>
                          /\ deltaJobsBar[d] = 0
  BY <1>1, <1>2 DEF BarsShow
<1>4. QED
  BY <1>1, <1>3 DEF BarsShow, Delivery!DeliveryInit

(* The in-memory stores are an outbox: a delta leaves the queue with exactly *)
(* one job, unless it is marked by hand, and a dedup slot admits one delta.  *)
THEOREM MemoryImplementsOutbox == OutboxSpec => ImplementsOutbox
BY DeliveryInitially, DeliveryStep, RowsInit, RowsStep, PTL
DEF OutboxSpec, ImplementsOutbox, Delivery!DeliverySpec
=============================================================================
