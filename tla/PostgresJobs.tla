---------------------------- MODULE PostgresJobs ----------------------------
(***************************************************************************)
(* The PostgreSQL job store, pkg/connectors/postgres/job_store.go.         *)
(*                                                                         *)
(* A call reads the clock of its own process and then sends one statement  *)
(* that carries this reading; the statement may run later, and the clocks  *)
(* of processes may disagree.  A claim locks the rows it will take, skips  *)
(* the rows other claims have locked, and updates them before its locks    *)
(* are released: two steps.  An update of one row waits for its lock.      *)
(*                                                                         *)
(* A call that is rejected, cancelled, or claims nothing ends without an   *)
(* effect (Ends).  SQL's NULL deadline is NoTime: never later than any     *)
(* reading, as the predicates of the store treat it.                       *)
(***************************************************************************)
EXTENDS Integers, FiniteSets

CONSTANTS
  Clients,       \* callers with one call at a time; a worker's ID is its name
  NoWorker,      \* NULL locked_by
  Syncs,         \* sync IDs
  MaxJobs,       \* bound on the jobs created
  MaxTime,       \* bound on the clock
  MaxCount,      \* bound on attempt_count
  LockFors,      \* positive lease durations
  Delays,        \* how far ahead of a reading callers put available_at
  BatchLimits,   \* positive limits; 1 stands for ClaimNext
  Skews          \* how far the clocks of the callers may be ahead: each is
                 \* a function on Clients

ASSUME PostgresJobsAssumption ==
  /\ NoWorker \notin Clients
  /\ MaxJobs \in Nat /\ MaxTime \in Nat /\ MaxCount \in Nat
  /\ LockFors \subseteq Nat \ {0}
  /\ Delays \subseteq Nat
  /\ BatchLimits \subseteq Nat \ {0}
  /\ Skews \subseteq [Clients -> Nat]

VARIABLES
  skew,      \* skew[c]: how far the clock of c is ahead, in this behaviour
  now,       \* the time of the clocks that are not ahead
  nextID,    \* number of the row inserted last (uuidv7 IDs grow)
  jobs,      \* jobs[n]: the n-th row of deltaflow_sync_jobs
  reading,   \* reading[c]: what c's current call read from its clock
  locked     \* locked[c]: rows that c's claim has locked FOR UPDATE

jobsVars == <<skew, now, nextID, jobs, reading, locked>>

NoTime == -1
JobIDs == 1..MaxJobs
States == {"pending", "processing", "retrying", "synced", "dead"}

Row == [sync : Syncs, state : States, attempts : 0..MaxCount,
        availableAt : Nat, createdAt : Nat,
        lockedBy : Clients \cup {NoWorker}, lockedUntil : Nat \cup {NoTime}]

(* Type invariant. *)
JobsTypeOK ==
  /\ skew \in Skews
  /\ now \in 0..MaxTime
  /\ nextID \in 0..MaxJobs
  /\ jobs \in [1..nextID -> Row]
  /\ reading \in [Clients -> Nat \cup {NoTime}]
  /\ \A c \in Clients : reading[c] \in 0..(now + skew[c]) \cup {NoTime}
  /\ locked \in [Clients -> SUBSET (1..nextID)]
  /\ \A c \in Clients : locked[c] # {} => reading[c] # NoTime

JobsInit ==
  /\ skew \in Skews
  /\ now = 0
  /\ nextID = 0
  /\ jobs = [j \in 1..0 |-> j]
  /\ reading = [c \in Clients |-> NoTime]
  /\ locked = [c \in Clients |-> {}]
-----------------------------------------------------------------------------
(* Predicates of the statements, at a reading t of the clock.               *)

Active(j, t) == jobs[j].state = "processing" /\ jobs[j].lockedUntil > t

Expired_NotNull(j, t) ==
  /\ jobs[j].state = "processing"
  /\ jobs[j].lockedUntil # NoTime
  /\ jobs[j].lockedUntil <= t
Expired(j, t) == jobs[j].state = "processing" /\ jobs[j].lockedUntil <= t

Claimable(j, s, t) ==
  /\ jobs[j].sync = s
  /\ \/ jobs[j].state \in {"pending", "retrying"} /\ jobs[j].availableAt <= t
     \/ Expired(j, t)

Owned_IgnoresExpiry(j, w, t) ==
  jobs[j].state = "processing" /\ jobs[j].lockedBy = w
Owned_Anyone(j, w, t) == Active(j, t)
Owned(j, w, t) == Active(j, t) /\ jobs[j].lockedBy = w

(* ORDER BY available_at, created_at, id. *)
Before_NewestFirst(i, j) == i > j
Before(i, j) ==
  LET a == jobs[i]
      b == jobs[j]
  IN  \/ a.availableAt < b.availableAt
      \/ /\ a.availableAt = b.availableAt
         /\ \/ a.createdAt < b.createdAt
            \/ a.createdAt = b.createdAt /\ i < j
-----------------------------------------------------------------------------
(* Calls.                                                                   *)

ReadClock(c) ==
  /\ reading[c] = NoTime
  /\ reading' = [reading EXCEPT ![c] = now + skew[c]]
  /\ UNCHANGED <<skew, now, nextID, jobs, locked>>

Return(c) ==
  /\ reading' = [reading EXCEPT ![c] = NoTime]
  /\ locked' = [locked EXCEPT ![c] = {}]

(* A call ends without an effect: a claim that found nothing, an update     *)
(* that matched no row, a statement that was cancelled or lost.             *)
Ends(c) ==
  /\ reading[c] # NoTime
  /\ Return(c)
  /\ UNCHANGED <<skew, now, nextID, jobs>>

NewRow(s, at, delay) ==
  [sync |-> s, state |-> "pending", attempts |-> 0,
   availableAt |-> at + delay, createdAt |-> at,
   lockedBy |-> NoWorker, lockedUntil |-> NoTime]

(* Create: a pending row, available now or later. *)
Create(c, s, delay) ==
  /\ reading[c] # NoTime /\ locked[c] = {}
  /\ nextID < MaxJobs
  /\ nextID' = nextID + 1
  /\ jobs' = [j \in 1..nextID' |->
               IF j <= nextID THEN jobs[j] ELSE NewRow(s, reading[c], delay)]
  /\ Return(c)
  /\ UNCHANGED <<skew, now>>
-----------------------------------------------------------------------------
(* ClaimNext and ClaimNextBatch.                                            *)

(* FOR UPDATE SKIP LOCKED: rows other claims have locked are not seen. *)
Visible_NoLocks(c) == 1..nextID
Visible(c) == 1..nextID \ UNION {locked[d] : d \in Clients \ {c}}

ClaimableRows(c, s) == {j \in Visible(c) : Claimable(j, s, reading[c])}

LockCandidates(c, s, n) ==
  LET found == ClaimableRows(c, s)
  IN  /\ reading[c] # NoTime /\ locked[c] = {}
      /\ \E C \in SUBSET found :
           /\ C # {}
           /\ \/ Cardinality(C) = n
              \/ Cardinality(C) < n /\ C = found
           /\ \A i \in C, j \in found \ C : Before(i, j)
           /\ locked' = [locked EXCEPT ![c] = C]
      /\ UNCHANGED <<skew, now, nextID, jobs, reading>>

UpdateCandidates(c, d) ==
  /\ locked[c] # {}
  /\ jobs' = [j \in 1..nextID |-> IF j \in locked[c]
       THEN [jobs[j] EXCEPT !.state = "processing", !.lockedBy = c,
                            !.lockedUntil = reading[c] + d]
       ELSE jobs[j]]
  /\ Return(c)
  /\ UNCHANGED <<skew, now, nextID>>
-----------------------------------------------------------------------------
(* Updates of one row by its ID, once no claim has it locked.               *)

UpdateRow(c, j, row) ==
  /\ \A d \in Clients : j \notin locked[d]
  /\ jobs' = [jobs EXCEPT ![j] = row]
  /\ Return(c)
  /\ UNCHANGED <<skew, now, nextID>>

OwnerUpdates(c, j, row) ==
  /\ reading[c] # NoTime
  /\ Owned(j, c, reading[c])
  /\ UpdateRow(c, j, row)

Unlocked(row) == [row EXCEPT !.lockedBy = NoWorker, !.lockedUntil = NoTime]

RenewLease(c, j, d) ==
  OwnerUpdates(c, j, [jobs[j] EXCEPT !.lockedUntil = reading[c] + d])

MarkSynced(c, j) ==
  OwnerUpdates(c, j, Unlocked([jobs[j] EXCEPT !.state = "synced"]))

MarkRetrying(c, j, delay) ==
  /\ jobs[j].attempts < MaxCount
  /\ OwnerUpdates(c, j, Unlocked([jobs[j] EXCEPT !.state = "retrying",
       !.attempts = jobs[j].attempts + 1, !.availableAt = reading[c] + delay]))

RequeueClaimed(c, j, delay) ==
  OwnerUpdates(c, j, Unlocked([jobs[j] EXCEPT !.state = "retrying",
                                 !.availableAt = reading[c] + delay]))

MarkDead(c, j) ==
  /\ jobs[j].attempts < MaxCount
  /\ OwnerUpdates(c, j, Unlocked([jobs[j] EXCEPT !.state = "dead",
                                    !.attempts = jobs[j].attempts + 1]))

(* Operator actions. *)
OperatorUpdates(c, j, row) ==
  /\ reading[c] # NoTime
  /\ Expired(j, reading[c])
  /\ UpdateRow(c, j, row)

ForceReleaseExpiredLease(c, j) == OperatorUpdates(c, j, Unlocked(jobs[j]))

RequeueExpiredLease(c, j, delay) ==
  OperatorUpdates(c, j, Unlocked([jobs[j] EXCEPT !.state = "retrying",
                                    !.availableAt = reading[c] + delay]))
-----------------------------------------------------------------------------
(* The lists an operator reads, without their limit and order. *)
ListActiveLeases(t)            == {j \in 1..nextID : Active(j, t)}
ListExpiredProcessingLeases(t) == {j \in 1..nextID : Expired(j, t)}
ListNearExpiryLeases(t, within) ==
  {j \in 1..nextID : Active(j, t) /\ jobs[j].lockedUntil <= t + within}
-----------------------------------------------------------------------------
Tick ==
  /\ now < MaxTime
  /\ now' = now + 1
  /\ UNCHANGED <<skew, nextID, jobs, reading, locked>>

Statement(c) ==
  \/ \E s \in Syncs, b \in Delays : Create(c, s, b)
  \/ \E s \in Syncs, n \in BatchLimits : LockCandidates(c, s, n)
  \/ \E d \in LockFors : UpdateCandidates(c, d)
  \/ /\ locked[c] = {}
     /\ \E j \in 1..nextID :
          \/ MarkSynced(c, j) \/ MarkDead(c, j) \/ ForceReleaseExpiredLease(c, j)
          \/ \E d \in LockFors : RenewLease(c, j, d)
          \/ \E b \in Delays : \/ MarkRetrying(c, j, b) \/ RequeueClaimed(c, j, b)
                               \/ RequeueExpiredLease(c, j, b)

JobsNext ==
  \/ \E c \in Clients : ReadClock(c) \/ Statement(c) \/ Ends(c)
  \/ Tick

JobsSpec == JobsInit /\ [][JobsNext]_jobsVars
-----------------------------------------------------------------------------
(* Both halves of a lease are set and cleared together, by every UPDATE.    *)
LeaseWellFormed ==
  \A j \in 1..nextID :
    /\ jobs[j].lockedBy # NoWorker <=> jobs[j].lockedUntil # NoTime
    /\ jobs[j].lockedBy # NoWorker => jobs[j].state = "processing"

(* However late a statement runs, and whatever claims run at the same time  *)
(* (the promise of FOR UPDATE SKIP LOCKED), a row whose lease is unexpired  *)
(* by every clock is changed by nobody but its holder: by an update of one  *)
(* row and not by a claim, and only to renew the lease or to end it.  The   *)
(* caller is known by its reading, which every statement that changes rows  *)
(* uses up.  No row that was synced or dead changes at all.  Clocks that    *)
(* disagree cost a lease at most the end that one of them saw pass.         *)
LateCallsAreHarmless ==
  [][\A j \in 1..nextID : jobs'[j] # jobs[j] =>
       /\ (\A c \in Clients : Active(j, now + skew[c])) =>
            LET w == jobs[j].lockedBy
            IN  /\ locked[w] = {}
                /\ reading'[w] # reading[w]
                /\ \/ jobs'[j].state # "processing"
                   \/ jobs'[j].lockedBy = w
       /\ jobs[j].state \notin {"synced", "dead"}]_jobsVars

(* A claim passes over a job that waits longer only when another claim has  *)
(* locked that job.                                                         *)
ClaimsInOrder ==
  [][LET waitsLonger(i, j) == /\ jobs[i].sync = jobs[j].sync
                              /\ jobs[i].availableAt < jobs[j].availableAt
     IN  \A c \in Clients : \A j \in locked'[c] \ locked[c] :
           \A i \in 1..nextID :
             waitsLonger(i, j) /\ Claimable(i, jobs[i].sync, reading[c]) =>
               \E d \in Clients : i \in locked'[d]]_jobsVars

(* Operators overlook no leased job: at any reading of the clock a          *)
(* processing row, also one whose lease was released by force, is listed as *)
(* active or as expired, never as both, and near expiry only when active.   *)
LeaseListsCover ==
  \A t \in 0..MaxTime :
    LET active  == ListActiveLeases(t)
        expired == ListExpiredProcessingLeases(t)
    IN  /\ active \cup expired = {j \in 1..nextID : jobs[j].state = "processing"}
        /\ active \cap expired = {}
        /\ ListNearExpiryLeases(t, 1) = active \ ListActiveLeases(t + 1)

(* The rows are well-formed, and workers, claims and operators agree on     *)
(* which of them are leased.                                                *)
LeasesConsistent == JobsTypeOK /\ LeaseWellFormed /\ LeaseListsCover
-----------------------------------------------------------------------------
(* The lease protocol.                                                      *)

Phase(row) ==
  IF row.state = "processing"
    THEN IF row.lockedUntil > now THEN "held" ELSE "lapsed"
    ELSE IF row.state \in {"pending", "retrying"} THEN "queued" ELSE row.state

statusBar   == [j \in JobIDs |-> IF j <= nextID THEN Phase(jobs[j]) ELSE "absent"]
holderBar   == [j \in JobIDs |-> IF j <= nextID /\ Active(j, now)
                                  THEN jobs[j].lockedBy ELSE NoWorker]
attemptsBar == [j \in JobIDs |-> IF j <= nextID THEN jobs[j].attempts ELSE 0]

Lease == INSTANCE JobLease WITH Jobs <- JobIDs, Workers <- Clients,
                                status <- statusBar, holder <- holderBar,
                                attempts <- attemptsBar

(* No call is under way whose reading of the clock is not the time: none is *)
(* late and none comes from a clock that is ahead.                          *)
ReadingsCurrent == \A c \in Clients : reading[c] \in {NoTime, now}

(* The statements, claims in two steps included, implement JobLease: a step *)
(* of any other kind is taken only while a call with a stale or skewed      *)
(* reading is under way, which may set a lease that has already passed.     *)
ImplementsJobLease ==
  /\ Lease!LeaseInit
  /\ [][ReadingsCurrent => Lease!LeaseNext]_(Lease!leaseVars)
=============================================================================
