------------------------ MODULE PostgresJobs_proofs ------------------------
(***************************************************************************)
(* Theorems about the PostgreSQL job store, for every number of clients,   *)
(* rows and clock skews.                                                   *)
(***************************************************************************)
EXTENDS PostgresJobs, FiniteSetTheorems, TLAPS

Queued(j) == jobs[j].state \in {"pending", "retrying"}

(* What a statement of client c can do to row j, with the reading it        *)
(* carries.                                                                 *)
Kept(j) == jobs'[j] = jobs[j]

Granted(j, c) ==
  /\ Queued(j) \/ Expired(j, reading[c])
  /\ jobs'[j].state = "processing" /\ jobs'[j].lockedBy = c
  /\ jobs'[j].lockedUntil \in Nat /\ jobs'[j].lockedUntil > reading[c]
  /\ jobs'[j].attempts = jobs[j].attempts

Renewed(j, c) ==
  /\ Owned(j, c, reading[c])
  /\ jobs'[j].state = "processing" /\ jobs'[j].lockedBy = c
  /\ jobs'[j].lockedUntil \in Nat /\ jobs'[j].lockedUntil > reading[c]
  /\ jobs'[j].attempts = jobs[j].attempts

Orphaned(j, c) ==
  /\ Expired(j, reading[c])
  /\ jobs'[j].state = "processing"
  /\ jobs'[j].lockedBy = NoWorker /\ jobs'[j].lockedUntil = NoTime
  /\ jobs'[j].attempts = jobs[j].attempts

Ended(j, c, failures) ==
  /\ \/ /\ Owned(j, c, reading[c])
        /\ \/ jobs'[j].state = "synced" /\ failures = 0
           \/ jobs'[j].state = "dead" /\ failures = 1
           \/ jobs'[j].state = "retrying"
     \/ Expired(j, reading[c]) /\ jobs'[j].state = "retrying" /\ failures = 0
  /\ jobs'[j].lockedBy = NoWorker /\ jobs'[j].lockedUntil = NoTime
  /\ jobs'[j].attempts = jobs[j].attempts + failures

Updated(j, c) ==
  Renewed(j, c) \/ Orphaned(j, c) \/ \E failures \in {0, 1} : Ended(j, c, failures)

(* A statement that changes rows updates the batch its client has locked,   *)
(* or one row nobody has locked, and ends the call.                         *)
RowsStep(c) ==
  /\ reading[c] # NoTime
  /\ now' = now /\ skew' = skew /\ nextID' = nextID
  /\ jobs' \in [1..nextID -> Row]
  /\ reading' = [reading EXCEPT ![c] = NoTime]
  /\ locked' = [locked EXCEPT ![c] = {}]
  /\ \/ \A j \in 1..nextID : IF j \in locked[c] THEN Granted(j, c) ELSE Kept(j)
     \/ \E k \in 1..nextID : /\ locked[c] = {}
                             /\ \A d \in Clients : k \notin locked[d]
                             /\ Updated(k, c)
                             /\ \A j \in (1..nextID) \ {k} : Kept(j)

(* Rows that claims have locked stay as claimable as they were found, and   *)
(* no row is locked twice.                                                  *)
LocksHold ==
  /\ \A c, d \in Clients : c # d => locked[c] \cap locked[d] = {}
  /\ \A c \in Clients : \A j \in locked[c] : Queued(j) \/ Expired(j, reading[c])

StoreInv == JobsTypeOK /\ LeaseWellFormed /\ LocksHold
-----------------------------------------------------------------------------
(* Readings and the deadlines computed from them are times.                 *)
LEMMA ReadingIsTime ==
  ASSUME JobsTypeOK, NEW c \in Clients, reading[c] # NoTime
  PROVE  /\ reading[c] \in Nat /\ reading[c] <= now + skew[c]
         /\ now \in Nat /\ skew[c] \in Nat
         /\ \A d \in LockFors : reading[c] + d \in Nat /\ reading[c] + d > reading[c]
         /\ \A b \in Delays : reading[c] + b \in Nat
<1>1. now \in Nat /\ skew[c] \in Nat
  BY PostgresJobsAssumption DEF JobsTypeOK
<1>2. reading[c] \in 0..(now + skew[c])
  BY DEF JobsTypeOK
<1>3. reading[c] \in Nat /\ reading[c] <= now + skew[c]
  BY <1>1, <1>2
<1>4. LockFors \subseteq Nat \ {0} /\ Delays \subseteq Nat
  BY PostgresJobsAssumption
<1>5. QED
  BY <1>1, <1>3, <1>4

(* The second half of a claim grants the rows it has locked.                *)
LEMMA ClaimIsRowsStep ==
  ASSUME StoreInv, NEW c \in Clients, NEW d \in LockFors, UpdateCandidates(c, d)
  PROVE  RowsStep(c)
<1>1. reading[c] # NoTime
  BY DEF StoreInv, JobsTypeOK, UpdateCandidates
<1>2. reading[c] + d \in Nat /\ reading[c] + d > reading[c]
  BY <1>1, ReadingIsTime DEF StoreInv
<1>3. ASSUME NEW j \in 1..nextID
      PROVE  /\ jobs'[j] \in Row
             /\ IF j \in locked[c] THEN Granted(j, c) ELSE Kept(j)
  <2>1. jobs[j] \in Row
    BY DEF StoreInv, JobsTypeOK
  <2>2. CASE j \in locked[c]
    <3>1. jobs'[j] = [jobs[j] EXCEPT !.state = "processing", !.lockedBy = c,
                                     !.lockedUntil = reading[c] + d]
      BY <2>2 DEF UpdateCandidates
    <3>2. QED
      BY <1>2, <2>1, <2>2, <3>1 DEF StoreInv, LocksHold, Granted, Row, States
  <2>3. CASE j \notin locked[c]
    BY <2>1, <2>3 DEF UpdateCandidates, Kept
  <2>4. QED
    BY <2>2, <2>3
<1>4. jobs' \in [1..nextID -> Row]
  BY <1>3 DEF UpdateCandidates
<1>5. QED
  BY <1>1, <1>3, <1>4 DEF RowsStep, UpdateCandidates, Return

(* So does an UPDATE of one row, when it makes one of the changes above.    *)
LEMMA UpdateIsRowsStep ==
  ASSUME StoreInv, NEW c \in Clients, NEW k \in 1..nextID, NEW row \in Row,
         reading[c] # NoTime, locked[c] = {}, UpdateRow(c, k, row),
         jobs'[k] = row => Updated(k, c)
  PROVE  RowsStep(c)
<1>1. jobs' = [jobs EXCEPT ![k] = row] /\ jobs \in [1..nextID -> Row]
  BY DEF UpdateRow, StoreInv, JobsTypeOK
<1>2. jobs'[k] = row /\ \A j \in (1..nextID) \ {k} : Kept(j)
  BY <1>1 DEF Kept
<1>3. jobs' \in [1..nextID -> Row]
  BY <1>1
<1>4. QED
  BY <1>2, <1>3 DEF RowsStep, UpdateRow, Return

(* Each of the store's updates does.                                        *)
LEMMA OwnerIsRowsStep ==
  ASSUME StoreInv, NEW c \in Clients, NEW k \in 1..nextID, locked[c] = {},
         \/ MarkSynced(c, k) \/ MarkDead(c, k) \/ ForceReleaseExpiredLease(c, k)
         \/ \E d \in LockFors : RenewLease(c, k, d)
         \/ \E b \in Delays : \/ MarkRetrying(c, k, b) \/ RequeueClaimed(c, k, b)
                              \/ RequeueExpiredLease(c, k, b)
  PROVE  RowsStep(c)
<1>1. /\ jobs[k] \in Row /\ jobs[k].attempts + 0 = jobs[k].attempts
      /\ jobs[k].attempts < MaxCount => jobs[k].attempts + 1 \in 0..MaxCount
  BY PostgresJobsAssumption DEF StoreInv, JobsTypeOK, Row
<1>2. ASSUME MarkSynced(c, k) PROVE RowsStep(c)
  <2> DEFINE row == Unlocked([jobs[k] EXCEPT !.state = "synced"])
  <2>1. /\ row \in Row /\ row.state = "synced" /\ row.lockedBy = NoWorker
        /\ row.lockedUntil = NoTime /\ row.attempts = jobs[k].attempts
    BY <1>1, <1>2 DEF Unlocked, Row, States
  <2>2. QED
    BY <1>1, <1>2, <2>1, UpdateIsRowsStep
    DEF MarkSynced, OwnerUpdates, Updated, Ended, Orphaned, Expired, Row
<1>3. ASSUME MarkDead(c, k) PROVE RowsStep(c)
  <2> DEFINE row == Unlocked([jobs[k] EXCEPT !.state = "dead",
                                     !.attempts = jobs[k].attempts + 1])
  <2>1. /\ row \in Row /\ row.state = "dead" /\ row.lockedBy = NoWorker
        /\ row.lockedUntil = NoTime /\ row.attempts = jobs[k].attempts + 1
    BY <1>1, <1>3 DEF Unlocked, Row, States, MarkDead
  <2>2. QED
    BY <1>1, <1>3, <2>1, UpdateIsRowsStep
    DEF MarkDead, OwnerUpdates, Updated, Ended, Orphaned, Expired, Row
<1>4. ASSUME ForceReleaseExpiredLease(c, k) PROVE RowsStep(c)
  <2> DEFINE row == Unlocked(jobs[k])
  <2>1. /\ row \in Row /\ row.state = jobs[k].state /\ row.lockedBy = NoWorker
        /\ row.lockedUntil = NoTime /\ row.attempts = jobs[k].attempts
    BY <1>1, <1>4 DEF Unlocked, Row, States
  <2>2. QED
    BY <1>1, <1>4, <2>1, UpdateIsRowsStep
    DEF ForceReleaseExpiredLease, OperatorUpdates, Updated, Ended, Orphaned, Expired, Row
<1>5. ASSUME NEW d \in LockFors, RenewLease(c, k, d) PROVE RowsStep(c)
  <2> DEFINE row == [jobs[k] EXCEPT !.lockedUntil = reading[c] + d]
  <2>1. reading[c] + d \in Nat /\ reading[c] + d > reading[c]
    BY <1>5, ReadingIsTime DEF RenewLease, OwnerUpdates, StoreInv
  <2>2. /\ row \in Row /\ row.state = jobs[k].state /\ row.lockedBy = jobs[k].lockedBy
        /\ row.lockedUntil = reading[c] + d /\ row.attempts = jobs[k].attempts
    BY <1>1, <2>1 DEF Row
  <2>3. QED
    BY <1>5, <2>1, <2>2, UpdateIsRowsStep
    DEF RenewLease, OwnerUpdates, Updated, Renewed, Owned, Active
<1>6. ASSUME NEW b \in Delays, MarkRetrying(c, k, b) PROVE RowsStep(c)
  <2> DEFINE row == Unlocked([jobs[k] EXCEPT !.state = "retrying",
                                     !.attempts = jobs[k].attempts + 1,
                                     !.availableAt = reading[c] + b])
  <2>1. reading[c] + b \in Nat
    BY <1>6, ReadingIsTime DEF MarkRetrying, OwnerUpdates, StoreInv
  <2>2. /\ row \in Row /\ row.state = "retrying" /\ row.lockedBy = NoWorker
        /\ row.lockedUntil = NoTime /\ row.attempts = jobs[k].attempts + 1
    BY <1>1, <1>6, <2>1 DEF Unlocked, Row, States, MarkRetrying
  <2>3. QED
    BY <1>1, <1>6, <2>2, UpdateIsRowsStep
    DEF MarkRetrying, OwnerUpdates, Updated, Ended, Row
<1>7. ASSUME NEW b \in Delays, RequeueClaimed(c, k, b) PROVE RowsStep(c)
  <2> DEFINE row == Unlocked([jobs[k] EXCEPT !.state = "retrying",
                                     !.availableAt = reading[c] + b])
  <2>1. reading[c] + b \in Nat
    BY <1>7, ReadingIsTime DEF RequeueClaimed, OwnerUpdates, StoreInv
  <2>2. /\ row \in Row /\ row.state = "retrying" /\ row.lockedBy = NoWorker
        /\ row.lockedUntil = NoTime /\ row.attempts = jobs[k].attempts
    BY <1>1, <1>7, <2>1 DEF Unlocked, Row, States
  <2>3. QED
    BY <1>1, <1>7, <2>2, UpdateIsRowsStep
    DEF RequeueClaimed, OwnerUpdates, Updated, Ended, Row
<1>8. ASSUME NEW b \in Delays, RequeueExpiredLease(c, k, b) PROVE RowsStep(c)
  <2> DEFINE row == Unlocked([jobs[k] EXCEPT !.state = "retrying",
                                     !.availableAt = reading[c] + b])
  <2>1. reading[c] + b \in Nat
    BY <1>8, ReadingIsTime DEF RequeueExpiredLease, OperatorUpdates, StoreInv
  <2>2. /\ row \in Row /\ row.state = "retrying" /\ row.lockedBy = NoWorker
        /\ row.lockedUntil = NoTime /\ row.attempts = jobs[k].attempts
    BY <1>1, <1>8, <2>1 DEF Unlocked, Row, States
  <2>3. QED
    BY <1>1, <1>8, <2>2, UpdateIsRowsStep
    DEF RequeueExpiredLease, OperatorUpdates, Updated, Ended, Row
<1>9. QED
  BY <1>2, <1>3, <1>4, <1>5, <1>6, <1>7, <1>8

(* Every step reads a clock, ends a call, passes time, creates a row, locks *)
(* the candidates of a claim, or changes rows as above.                     *)
Creates(c) == \E s \in Syncs, b \in Delays : Create(c, s, b)
Locks(c)   == \E s \in Syncs, n \in BatchLimits : LockCandidates(c, s, n)

(* The cases of a step. *)
LEMMA NextCases ==
  ASSUME StoreInv, JobsNext
  PROVE  \/ Tick
         \/ \E c \in Clients : \/ ReadClock(c) \/ Ends(c) \/ Creates(c) \/ Locks(c)
                               \/ RowsStep(c)
BY ClaimIsRowsStep, OwnerIsRowsStep DEF JobsNext, Statement, Creates, Locks

(* Create appends a pending row without a lease.                            *)
LEMMA CreateAppends ==
  ASSUME StoreInv, NEW c \in Clients, Creates(c)
  PROVE  /\ nextID' = nextID + 1 /\ nextID' \in 1..MaxJobs /\ now' = now /\ skew' = skew
         /\ jobs' \in [1..nextID' -> Row]
         /\ \A j \in 1..nextID : Kept(j)
         /\ jobs'[nextID'].state = "pending" /\ jobs'[nextID'].attempts = 0
         /\ jobs'[nextID'].lockedBy = NoWorker /\ jobs'[nextID'].lockedUntil = NoTime
         /\ Return(c)
<1>1. PICK s \in Syncs, b \in Delays : Create(c, s, b)
  BY DEF Creates
<1>2. nextID' = nextID + 1 /\ nextID' \in 1..MaxJobs /\ nextID \in Nat
  BY <1>1, PostgresJobsAssumption DEF Create, StoreInv, JobsTypeOK
<1>3. reading[c] \in Nat /\ reading[c] + b \in Nat
  BY <1>1, ReadingIsTime DEF Create, StoreInv
<1>4. NewRow(s, reading[c], b) \in Row
  BY <1>3, PostgresJobsAssumption DEF NewRow, Row, States, NoTime
<1>5. jobs' = [j \in 1..nextID' |->
                 IF j <= nextID THEN jobs[j] ELSE NewRow(s, reading[c], b)]
  BY <1>1 DEF Create
<1>6. \A j \in 1..nextID : jobs[j] \in Row
  BY DEF StoreInv, JobsTypeOK
<1>7. jobs' \in [1..nextID' -> Row] /\ \A j \in 1..nextID : Kept(j)
  BY <1>2, <1>4, <1>5, <1>6 DEF Kept
<1>8. jobs'[nextID'] = NewRow(s, reading[c], b)
  BY <1>2, <1>5
<1>9. QED
  BY <1>1, <1>2, <1>7, <1>8 DEF Create, NewRow

(* StoreInv is inductive. *)
LEMMA StoreInit == JobsInit => StoreInv
<1> SUFFICES ASSUME JobsInit PROVE StoreInv
  OBVIOUS
<1>1. 1..0 = {}
  OBVIOUS
<1>2. jobs \in [1..nextID -> Row]
  BY <1>1 DEF JobsInit
<1>3. QED
  BY <1>1, <1>2, PostgresJobsAssumption
  DEF JobsInit, StoreInv, JobsTypeOK, LeaseWellFormed, LocksHold

(* No step breaks the types, the leases or the locks.                       *)
LEMMA StoreStep == StoreInv /\ [JobsNext]_jobsVars => StoreInv'
<1> SUFFICES ASSUME StoreInv, [JobsNext]_jobsVars PROVE StoreInv'
  OBVIOUS
<1> USE DEF StoreInv
<1>0. /\ now \in Nat /\ nextID \in Nat /\ 1..nextID \subseteq 1..(nextID + 1)
      /\ \A c \in Clients : skew[c] \in Nat
  BY PostgresJobsAssumption DEF JobsTypeOK
<1>1. CASE Tick
  <2>1. now' \in 0..MaxTime /\ \A c \in Clients : now' + skew[c] >= now + skew[c]
    BY <1>0, <1>1, PostgresJobsAssumption DEF Tick, JobsTypeOK
  <2>2. \A c \in Clients : reading[c] \in 0..(now' + skew[c]) \cup {NoTime}
    BY <1>0, <1>1, <2>1, PostgresJobsAssumption DEF Tick, JobsTypeOK
  <2>3. QED
    BY <1>1, <2>1, <2>2
    DEF Tick, JobsTypeOK, LeaseWellFormed, LocksHold, Queued, Expired
<1>2. ASSUME NEW c \in Clients, ReadClock(c) PROVE StoreInv'
  <2>1. locked[c] = {} /\ now + skew[c] \in 0..(now + skew[c])
    BY <1>0, <1>2 DEF ReadClock, JobsTypeOK
  <2>2. \A d \in Clients : reading'[d] = IF d = c THEN now + skew[c] ELSE reading[d]
    BY <1>2 DEF ReadClock, JobsTypeOK
  <2>3. QED
    BY <1>2, <2>1, <2>2
    DEF ReadClock, JobsTypeOK, LeaseWellFormed, LocksHold, Queued, Expired
<1>3. ASSUME NEW c \in Clients, Return(c), now' = now, skew' = skew,
             nextID' \in {nextID, nextID + 1}, nextID' \in 0..MaxJobs,
             jobs' \in [1..nextID' -> Row],
             \A d \in Clients \ {c} : \A j \in locked[d] : Kept(j)
      PROVE  JobsTypeOK' /\ LocksHold'
  BY <1>0, <1>3 DEF Return, JobsTypeOK, LocksHold, Kept, Queued, Expired
<1>4. ASSUME NEW c \in Clients, Ends(c) PROVE StoreInv'
  BY <1>3, <1>4 DEF Ends, JobsTypeOK, Kept, LeaseWellFormed
<1>5. ASSUME NEW c \in Clients, Creates(c) PROVE StoreInv'
  <2>0. /\ nextID' = nextID + 1 /\ nextID' \in 0..MaxJobs
        /\ \A d \in Clients \ {c} : \A j \in locked[d] : Kept(j)
    BY <1>0, <1>5, CreateAppends, PostgresJobsAssumption DEF JobsTypeOK
  <2>1. JobsTypeOK' /\ LocksHold'
    BY <1>3, <1>5, <2>0, CreateAppends
  <2>2. \A j \in 1..nextID' : j = nextID' \/ j \in 1..nextID
    BY <1>0, <1>5, CreateAppends
  <2>3. LeaseWellFormed'
    BY <1>5, <2>2, CreateAppends DEF LeaseWellFormed, Kept
  <2>4. QED
    BY <2>1, <2>3
<1>6. ASSUME NEW c \in Clients, Locks(c) PROVE StoreInv'
  <2>1. PICK s \in Syncs, n \in BatchLimits : LockCandidates(c, s, n)
    BY <1>6 DEF Locks
  <2>2. PICK C \in SUBSET ClaimableRows(c, s) : locked' = [locked EXCEPT ![c] = C]
    BY <2>1 DEF LockCandidates
  <2>3. \A j \in C : /\ j \in 1..nextID /\ \A d \in Clients \ {c} : j \notin locked[d]
                     /\ Queued(j) \/ Expired(j, reading[c])
    BY <2>2 DEF ClaimableRows, Visible, Claimable, Queued
  <2>4. QED
    BY <2>1, <2>2, <2>3
    DEF LockCandidates, JobsTypeOK, LeaseWellFormed, LocksHold, Queued, Expired
<1>7. ASSUME NEW c \in Clients, RowsStep(c) PROVE StoreInv'
  <2>1. \A d \in Clients \ {c} : \A j \in locked[d] : Kept(j)
    BY <1>7 DEF RowsStep, JobsTypeOK, LocksHold
  <2>2. JobsTypeOK' /\ LocksHold'
    BY <1>3, <1>7, <2>1 DEF RowsStep, Return, JobsTypeOK
  <2>3. LeaseWellFormed'
    BY <1>7, PostgresJobsAssumption
    DEF RowsStep, LeaseWellFormed, Kept, Granted, Updated, Renewed, Orphaned, Ended, Owned,
        Active, NoTime
  <2>4. QED
    BY <2>2, <2>3
<1>8. CASE UNCHANGED jobsVars
  BY <1>8
  DEF jobsVars, JobsTypeOK, LeaseWellFormed, LocksHold, Queued, Expired
<1>9. QED
  BY <1>1, <1>2, <1>4, <1>5, <1>6, <1>7, <1>8, NextCases

(* StoreInv holds in every reachable state.                                 *)
LEMMA StoreInvariant == JobsSpec => []StoreInv
BY StoreInit, StoreStep, PTL DEF JobsSpec

(* A processing row is active or expired at any reading, never both.        *)
LEMMA ListsCover == JobsTypeOK => LeaseListsCover
<1> SUFFICES ASSUME JobsTypeOK, NEW t \in 0..MaxTime
             PROVE  /\ ListActiveLeases(t) \cup ListExpiredProcessingLeases(t)
                         = {j \in 1..nextID : jobs[j].state = "processing"}
                    /\ ListActiveLeases(t) \cap ListExpiredProcessingLeases(t) = {}
                    /\ ListNearExpiryLeases(t, 1)
                         = ListActiveLeases(t) \ ListActiveLeases(t + 1)
  BY DEF LeaseListsCover
<1>1. t \in Nat
  BY PostgresJobsAssumption
<1>2. \A j \in 1..nextID : jobs[j].lockedUntil \in Int
  BY DEF JobsTypeOK, Row, NoTime
<1>3. QED
  BY <1>1, <1>2
  DEF ListActiveLeases, ListExpiredProcessingLeases, ListNearExpiryLeases, Active, Expired

(* In every reachable store the rows are well-formed and workers, claims    *)
(* and operators agree on which of them are leased.                         *)
THEOREM LeasesAreConsistent == JobsSpec => []LeasesConsistent
<1>1. StoreInv => LeasesConsistent
  BY ListsCover DEF StoreInv, LeasesConsistent
<1>2. QED
  BY <1>1, StoreInvariant, PTL
-----------------------------------------------------------------------------
(* However late a statement runs, a row whose lease is unexpired by every   *)
(* clock is changed by its holder's own update only, and no finished row    *)
(* changes.                                                                 *)
THEOREM LateStatements == JobsSpec => LateCallsAreHarmless
<1> DEFINE EveryClock(j) == \A c \in Clients : Active(j, now + skew[c])
           HoldersOwn(j) ==
             LET w == jobs[j].lockedBy
             IN  /\ locked[w] = {}
                 /\ reading'[w] # reading[w]
                 /\ \/ jobs'[j].state # "processing"
                    \/ jobs'[j].lockedBy = w
           Safe == \A j \in 1..nextID : jobs'[j] # jobs[j] =>
                     /\ EveryClock(j) => HoldersOwn(j)
                     /\ jobs[j].state \notin {"synced", "dead"}
<1>1. StoreInv /\ [JobsNext]_jobsVars => [Safe]_jobsVars
  <2> SUFFICES ASSUME StoreInv, JobsNext PROVE Safe
    OBVIOUS
  <2>1. CASE Tick
    BY <2>1 DEF Tick
  <2>2. ASSUME NEW c \in Clients, ReadClock(c) \/ Ends(c) \/ Locks(c) PROVE Safe
    BY <2>2 DEF ReadClock, Ends, Locks, LockCandidates
  <2>3. ASSUME NEW c \in Clients, Creates(c) PROVE Safe
    BY <2>3, CreateAppends DEF Kept
  <2>4. ASSUME NEW c \in Clients, RowsStep(c) PROVE Safe
    <3> SUFFICES ASSUME NEW j \in 1..nextID, ~Kept(j)
                 PROVE  /\ EveryClock(j) => HoldersOwn(j)
                        /\ jobs[j].state \notin {"synced", "dead"}
      BY DEF Kept
    <3>1. ASSUME Expired(j, reading[c]) PROVE ~EveryClock(j)
      <4>1. jobs[j].lockedUntil \in Int
        BY DEF StoreInv, JobsTypeOK, Row, NoTime
      <4>2. /\ reading[c] \in Nat /\ reading[c] <= now + skew[c]
            /\ now \in Nat /\ skew[c] \in Nat
        BY <2>4, ReadingIsTime DEF RowsStep, StoreInv
      <4>3. ~Active(j, now + skew[c])
        BY <3>1, <4>1, <4>2 DEF Active, Expired
      <4>4. QED
        BY <4>3
    <3>2. reading'[c] # reading[c]
      BY <2>4 DEF RowsStep, StoreInv, JobsTypeOK
    <3>3. EveryClock(j) => jobs[j].state = "processing"
      BY DEF Active
    <3>4. CASE Granted(j, c)
      BY <3>1, <3>3, <3>4 DEF Granted, Queued, Expired
    <3>5. CASE Updated(j, c)
      <4>1. locked[c] = {} \/ Granted(j, c)
        BY <2>4 DEF RowsStep
      <4>2. CASE Expired(j, reading[c])
        BY <3>1, <4>2 DEF Expired
      <4>3. CASE Owned(j, c, reading[c])
        <5>1. jobs[j].state = "processing" /\ jobs[j].lockedBy = c
          BY <4>3 DEF Owned, Active
        <5>2. CASE Orphaned(j, c)
          BY <3>1, <5>1, <5>2 DEF Orphaned
        <5>3. CASE Renewed(j, c) \/ \E failures \in {0, 1} : Ended(j, c, failures)
          BY <3>2, <3>4, <4>1, <5>1, <5>3 DEF Renewed, Ended
        <5>4. QED
          BY <3>5, <5>2, <5>3 DEF Updated
      <4>4. QED
        BY <3>5, <4>2, <4>3 DEF Updated, Renewed, Orphaned, Ended
    <3>6. QED
      BY <2>4, <3>4, <3>5 DEF RowsStep
  <2>5. QED
    BY <2>1, <2>2, <2>3, <2>4, NextCases
<1>2. QED
  BY <1>1, StoreInvariant, PTL DEF JobsSpec, LateCallsAreHarmless

(* A claim passes over a job that waits longer only when another claim has  *)
(* locked that job.                                                         *)
THEOREM ClaimsFollowTheQueue == JobsSpec => ClaimsInOrder
<1> DEFINE WaitsLonger(i, j) == /\ jobs[i].sync = jobs[j].sync
                                /\ jobs[i].availableAt < jobs[j].availableAt
           InOrder == \A c \in Clients : \A j \in locked'[c] \ locked[c] :
             \A i \in 1..nextID :
               WaitsLonger(i, j) /\ Claimable(i, jobs[i].sync, reading[c]) =>
                 \E d \in Clients : i \in locked'[d]
<1>1. StoreInv /\ [JobsNext]_jobsVars => [InOrder]_jobsVars
  <2> SUFFICES ASSUME StoreInv, JobsNext, NEW c \in Clients,
                      NEW j \in locked'[c] \ locked[c], NEW i \in 1..nextID,
                      WaitsLonger(i, j), Claimable(i, jobs[i].sync, reading[c])
               PROVE  \E d \in Clients : i \in locked'[d]
    OBVIOUS
  <2>1. Locks(c)
    BY SMTT(30), NextCases
    DEF Tick, ReadClock, Ends, Creates, Create, Locks, LockCandidates, RowsStep, Return,
        StoreInv, JobsTypeOK
  <2>2. PICK s \in Syncs, n \in BatchLimits : LockCandidates(c, s, n)
    BY <2>1 DEF Locks
  <2>3. PICK C \in SUBSET ClaimableRows(c, s) :
          /\ \A k \in C, l \in ClaimableRows(c, s) \ C : Before(k, l)
          /\ locked' = [locked EXCEPT ![c] = C]
    BY <2>2 DEF LockCandidates
  <2>4. locked'[c] = C /\ \A d \in Clients \ {c} : locked'[d] = locked[d]
    BY <2>3 DEF StoreInv, JobsTypeOK
  <2>5. j \in ClaimableRows(c, s) /\ jobs[i].sync = s
    BY <2>3, <2>4 DEF ClaimableRows, Claimable
  <2>6. CASE i \in Visible(c)
    <3>1. i \in ClaimableRows(c, s)
      BY <2>5, <2>6 DEF ClaimableRows
    <3>2. ~Before(j, i)
      BY SMTT(30), <2>5 DEF Before, StoreInv, JobsTypeOK, Row, ClaimableRows, Visible
    <3>3. QED
      BY <2>3, <2>4, <3>1, <3>2
  <2>7. CASE i \notin Visible(c)
    BY <2>4, <2>7 DEF Visible
  <2>8. QED
    BY <2>6, <2>7
<1>2. QED
  BY <1>1, StoreInvariant, PTL DEF JobsSpec, ClaimsInOrder
-----------------------------------------------------------------------------
(* Refinement of JobLease.                                                  *)

(* A row that does not change looks the same at the same time.              *)
LEMMA SameRow ==
  ASSUME NEW j \in JobIDs, nextID' = nextID, now' = now, j <= nextID => Kept(j)
  PROVE  /\ statusBar'[j] = statusBar[j]
         /\ holderBar'[j] = holderBar[j]
         /\ attemptsBar'[j] = attemptsBar[j]
<1>1. CASE j <= nextID
  BY <1>1 DEF statusBar, holderBar, attemptsBar, Phase, Active, Kept
<1>2. CASE ~(j <= nextID)
  BY <1>2 DEF statusBar, holderBar, attemptsBar, Phase
<1>3. QED
  BY <1>1, <1>2

(* Create adds one job to the abstract queue.                               *)
LEMMA CreateRefines ==
  ASSUME StoreInv, NEW c \in Clients, Creates(c)
  PROVE  Lease!LeaseNext
<1>1. /\ nextID \in Nat /\ nextID' = nextID + 1 /\ nextID' \in JobIDs /\ now' = now
      /\ \A j \in 1..nextID : Kept(j)
  BY CreateAppends DEF JobIDs, StoreInv, JobsTypeOK
<1>2. \A j \in JobIDs : /\ j \in Nat /\ j >= 1
                        /\ j # nextID' => (j <= nextID' <=> j <= nextID)
                        /\ j <= nextID => jobs'[j] = jobs[j]
  BY <1>1 DEF JobIDs, Kept
<1>3. ASSUME NEW j \in JobIDs
      PROVE  /\ statusBar'[j] = IF j \in {nextID'} THEN "queued" ELSE statusBar[j]
             /\ holderBar'[j] = holderBar[j]
             /\ attemptsBar'[j] = attemptsBar[j]
  <2>1. CASE j = nextID'
    BY <1>1, <2>1, CreateAppends DEF statusBar, holderBar, attemptsBar, Phase, Active
  <2>2. CASE j # nextID'
    BY <1>1, <1>2, <2>2 DEF statusBar, holderBar, attemptsBar, Phase, Active
  <2>3. QED
    BY <2>1, <2>2
<1>4. statusBar[nextID'] = "absent"
  BY <1>1 DEF statusBar
<1>5. statusBar' = [j \in JobIDs |-> IF j \in {nextID'} THEN "queued" ELSE statusBar[j]]
  BY <1>3 DEF statusBar
<1>6. holderBar' = holderBar /\ attemptsBar' = attemptsBar
  BY <1>3 DEF holderBar, attemptsBar
<1>7. Lease!Add({nextID'})
  BY <1>4, <1>5, <1>6 DEF Lease!Add
<1>8. QED
  BY <1>1, <1>7 DEF Lease!LeaseNext

(* The leases that end with a tick of the clock lapse together.             *)
LEMMA TickRefines ==
  ASSUME StoreInv, Tick
  PROVE  Lease!LeaseNext
<1> DEFINE C == {j \in JobIDs : statusBar[j] = "held" /\ statusBar'[j] # "held"}
<1>1. now \in Nat /\ now' = now + 1 /\ jobs' = jobs /\ nextID' = nextID /\ nextID \in Nat
  BY PostgresJobsAssumption DEF Tick, StoreInv, JobsTypeOK
<1>2. \A j \in JobIDs : j <= nextID => jobs[j].lockedUntil \in Int
  BY <1>1 DEF StoreInv, JobsTypeOK, JobIDs, Row, NoTime
<1>3. ASSUME NEW j \in JobIDs
      PROVE  /\ statusBar'[j] = IF j \in C THEN "lapsed" ELSE statusBar[j]
             /\ holderBar'[j] = IF j \in C THEN NoWorker ELSE holderBar[j]
             /\ attemptsBar'[j] = attemptsBar[j]
  <2>1. CASE j <= nextID
    <3>1. CASE Active(j, now)
      BY <1>1, <1>2, <2>1, <3>1 DEF statusBar, holderBar, attemptsBar, Phase, Active
    <3>2. CASE ~Active(j, now)
      <4>1. ~Active(j, now')
        BY <1>1, <1>2, <2>1, <3>2 DEF Active
      <4>2. QED
        BY <1>1, <2>1, <3>2, <4>1 DEF statusBar, holderBar, attemptsBar, Phase, Active
    <3>3. QED
      BY <3>1, <3>2
  <2>2. CASE ~(j <= nextID)
    BY <1>1, <2>2 DEF statusBar, holderBar, attemptsBar, Phase
  <2>3. QED
    BY <2>1, <2>2
<1>4. \A j \in C : statusBar[j] = "held"
  OBVIOUS
<1> HIDE DEF C
<1>5. statusBar' = [j \in JobIDs |-> IF j \in C THEN "lapsed" ELSE statusBar[j]]
  BY <1>3 DEF statusBar
<1>6. holderBar' = [j \in JobIDs |-> IF j \in C THEN NoWorker ELSE holderBar[j]]
  BY <1>3 DEF holderBar
<1>7. attemptsBar' = attemptsBar
  BY <1>3 DEF attemptsBar
<1>8. Lease!Lapse(C) /\ C \in SUBSET JobIDs
  BY <1>4, <1>5, <1>6, <1>7 DEF Lease!Lapse, C
<1>9. QED
  BY <1>8 DEF Lease!LeaseNext

(* A claim whose reading is the time grants the rows it has locked.         *)
LEMMA ClaimRefines ==
  ASSUME StoreInv, NEW c \in Clients, RowsStep(c), reading[c] = now,
         \A j \in 1..nextID : IF j \in locked[c] THEN Granted(j, c) ELSE Kept(j)
  PROVE  Lease!LeaseNext
<1> DEFINE C == locked[c]
<1>1. /\ nextID' = nextID /\ now' = now /\ nextID \in 0..MaxJobs
      /\ C \subseteq 1..nextID /\ 1..nextID \subseteq JobIDs
  BY PostgresJobsAssumption DEF RowsStep, StoreInv, JobsTypeOK, JobIDs
<1>2. ASSUME NEW j \in C
      PROVE  /\ statusBar[j] \in {"queued", "lapsed"} /\ statusBar'[j] = "held"
             /\ holderBar'[j] = c /\ attemptsBar'[j] = attemptsBar[j]
  <2>1. Granted(j, c) /\ j \in 1..nextID /\ j \in JobIDs /\ j <= nextID
    BY <1>1
  <2>2. jobs[j].lockedUntil \in Int
    BY <2>1 DEF StoreInv, JobsTypeOK, Row, NoTime
  <2>3. now \in Nat
    BY PostgresJobsAssumption DEF StoreInv, JobsTypeOK
  <2>4. QED
    BY <1>1, <2>1, <2>2, <2>3
    DEF Granted, Queued, Expired, statusBar, holderBar, attemptsBar, Phase, Active
<1>3. ASSUME NEW j \in JobIDs \ C
      PROVE  /\ statusBar'[j] = statusBar[j] /\ holderBar'[j] = holderBar[j]
             /\ attemptsBar'[j] = attemptsBar[j]
  <2>1. j <= nextID => Kept(j)
    BY <1>1, <1>3 DEF JobIDs
  <2>2. QED
    BY <1>1, <1>3, <2>1, SameRow
<1> HIDE DEF C
<1>4. statusBar' = [j \in JobIDs |-> IF j \in C THEN "held" ELSE statusBar[j]]
  BY <1>2, <1>3 DEF statusBar
<1>5. holderBar' = [j \in JobIDs |-> IF j \in C THEN c ELSE holderBar[j]]
  BY <1>2, <1>3 DEF holderBar
<1>6. attemptsBar' = attemptsBar
  BY <1>1, <1>2, <1>3 DEF attemptsBar
<1>7. Lease!Grant(C, c) /\ C \in SUBSET JobIDs
  BY <1>1, <1>2, <1>4, <1>5, <1>6 DEF Lease!Grant, Lease!Waiting
<1>8. QED
  BY <1>7 DEF Lease!LeaseNext

(* An update whose reading is the time settles, kills, retries, releases or *)
(* recalls its job; a renewal or a forced release is a stutter.             *)
LEMMA UpdateRefines ==
  ASSUME StoreInv, NEW c \in Clients, RowsStep(c), reading[c] = now,
         NEW k \in 1..nextID, Updated(k, c), \A j \in (1..nextID) \ {k} : Kept(j)
  PROVE  [Lease!LeaseNext]_(Lease!leaseVars)
<1>1. /\ nextID' = nextID /\ now' = now /\ now \in Nat /\ nextID \in 0..MaxJobs
      /\ k \in JobIDs /\ k <= nextID
  BY PostgresJobsAssumption DEF RowsStep, StoreInv, JobsTypeOK, JobIDs
<1>2. /\ jobs[k].lockedUntil \in Int /\ jobs[k].attempts \in 0..MaxCount
      /\ jobs'[k].attempts \in 0..MaxCount
  <2>1. jobs[k] \in Row /\ jobs'[k] \in Row
    BY DEF RowsStep, StoreInv, JobsTypeOK
  <2>2. QED
    BY <2>1 DEF Row, NoTime
<1>3. ASSUME NEW j \in JobIDs, j # k
      PROVE  /\ statusBar'[j] = statusBar[j] /\ holderBar'[j] = holderBar[j]
             /\ attemptsBar'[j] = attemptsBar[j]
  <2>1. j <= nextID => Kept(j)
    BY <1>1, <1>3 DEF JobIDs
  <2>2. QED
    BY <1>1, <2>1, SameRow
<1>4. ASSUME statusBar'[k] = statusBar[k], holderBar'[k] = holderBar[k],
             attemptsBar'[k] = attemptsBar[k]
      PROVE  UNCHANGED Lease!leaseVars
  <2>1. statusBar' = statusBar
    BY <1>3, <1>4 DEF statusBar
  <2>2. holderBar' = holderBar
    BY <1>3, <1>4 DEF holderBar
  <2>3. attemptsBar' = attemptsBar
    BY <1>3, <1>4 DEF attemptsBar
  <2>4. QED
    BY <2>1, <2>2, <2>3 DEF Lease!leaseVars
<1>5. CASE Renewed(k, c) \/ Orphaned(k, c)
  BY <1>1, <1>2, <1>4, <1>5
  DEF Renewed, Orphaned, Owned, Active, Expired, NoTime, statusBar, holderBar, attemptsBar,
      Phase
<1>6. ASSUME NEW failures \in {0, 1}, Ended(k, c, failures) PROVE Lease!LeaseNext
  <2> DEFINE q == IF jobs'[k].state = "retrying" THEN "queued" ELSE jobs'[k].state
  <2>1. /\ statusBar'[k] = q /\ holderBar'[k] = NoWorker
        /\ attemptsBar'[k] = attemptsBar[k] + failures
        /\ attemptsBar[k] + failures <= MaxCount
    BY <1>1, <1>2, <1>6, PostgresJobsAssumption
    DEF Ended, statusBar, holderBar, attemptsBar, Phase, Active
  <2>2. statusBar' = [statusBar EXCEPT ![k] = q]
    BY <1>1, <1>3, <2>1 DEF statusBar
  <2>3. holderBar' = [holderBar EXCEPT ![k] = NoWorker]
    BY <1>1, <1>3, <2>1 DEF holderBar
  <2>4. attemptsBar' = [attemptsBar EXCEPT ![k] = @ + failures]
    BY <1>1, <1>3, <2>1 DEF attemptsBar
  <2>5. CASE Owned(k, c, reading[c])
    <3>1. Lease!Holds(k, c)
      BY <1>1, <2>5 DEF Lease!Holds, statusBar, holderBar, Phase, Owned, Active
    <3>2. Lease!End(k, c, q, failures)
      BY <2>1, <2>2, <2>3, <2>4, <3>1 DEF Lease!End
    <3>3. \/ q = "queued"
          \/ q = "synced" /\ failures = 0
          \/ q = "dead" /\ failures = 1
      <4>1. \/ jobs'[k].state = "synced" /\ failures = 0
            \/ jobs'[k].state = "dead" /\ failures = 1
            \/ jobs'[k].state = "retrying"
        BY <1>6 DEF Ended
      <4>2. QED
        BY <4>1
    <3>4. \/ Lease!Settle(k, c) \/ Lease!Kill(k, c)
          \/ Lease!Retry(k, c) \/ Lease!Release(k, c)
      BY <3>2, <3>3 DEF Lease!Settle, Lease!Kill, Lease!Retry, Lease!Release
    <3>5. QED
      BY <1>1, <3>4 DEF Lease!LeaseNext
  <2>6. CASE ~Owned(k, c, reading[c])
    <3>1. Expired(k, now) /\ q = "queued" /\ failures = 0
      BY <1>6, <2>6 DEF Ended
    <3>2. statusBar[k] = "lapsed" /\ holderBar[k] = NoWorker
      BY <1>1, <1>2, <3>1 DEF Expired, Active, statusBar, holderBar, Phase
    <3>3. holderBar' = holderBar /\ attemptsBar' = attemptsBar
      BY <1>2, <1>3, <2>1, <3>1, <3>2 DEF holderBar, attemptsBar
    <3>4. Lease!Recall(k)
      BY <2>2, <3>1, <3>2, <3>3 DEF Lease!Recall
    <3>5. QED
      BY <1>1, <3>4 DEF Lease!LeaseNext
  <2>7. QED
    BY <2>5, <2>6
<1>7. QED
  BY <1>5, <1>6 DEF Updated

(* A step taken while no reading is late is a step of JobLease or a stutter.*)
LEMMA StepRefines ==
  StoreInv /\ [JobsNext]_jobsVars
    => [ReadingsCurrent => Lease!LeaseNext]_(Lease!leaseVars)
<1> SUFFICES ASSUME StoreInv, [JobsNext]_jobsVars, ReadingsCurrent
             PROVE  [Lease!LeaseNext]_(Lease!leaseVars)
  OBVIOUS
<1>1. CASE Tick
  BY <1>1, TickRefines
<1>2. ASSUME NEW c \in Clients, Creates(c) PROVE Lease!LeaseNext
  BY <1>2, CreateRefines
<1>3. ASSUME NEW c \in Clients, RowsStep(c) PROVE [Lease!LeaseNext]_(Lease!leaseVars)
  <2>1. reading[c] = now
    BY <1>3 DEF RowsStep, ReadingsCurrent
  <2>2. QED
    BY <1>3, <2>1, ClaimRefines, UpdateRefines DEF RowsStep
<1>4. ASSUME NEW c \in Clients, ReadClock(c) \/ Ends(c) \/ Locks(c)
      PROVE  UNCHANGED <<now, nextID, jobs>>
  BY <1>4 DEF ReadClock, Ends, Locks, LockCandidates
<1>5. CASE UNCHANGED <<now, nextID, jobs>>
  BY <1>5 DEF Lease!leaseVars, statusBar, holderBar, attemptsBar, Phase, Active
<1>6. QED
  BY <1>1, <1>2, <1>3, <1>4, <1>5, NextCases DEF jobsVars

(* The empty table maps to a queue without jobs.                            *)
LEMMA InitRefines == JobsInit => Lease!LeaseInit
<1> SUFFICES ASSUME JobsInit PROVE Lease!LeaseInit
  OBVIOUS
<1>1. \A j \in JobIDs : ~(j <= nextID)
  BY PostgresJobsAssumption DEF JobsInit, JobIDs
<1>2. QED
  BY <1>1 DEF Lease!LeaseInit, statusBar, holderBar, attemptsBar, Phase

(* The statements, claims in two steps included, implement the lease        *)
(* protocol the workers rely on, but for calls whose reading is not the     *)
(* time.                                                                    *)
THEOREM StatementsImplementJobLease == JobsSpec => ImplementsJobLease
BY InitRefines, StepRefines, StoreInvariant, PTL DEF JobsSpec, ImplementsJobLease
=============================================================================
