# A verification development of DeltaFlow

DeltaFlow keeps a destination (a search index, a cache, a read model) up to
date with projections of an application's data.  This directory holds TLA+
modules of its core, TLC configurations that model-check them, and proofs that
TLAPS checks.  Paths below are relative to the repository; `store.go`,
`dispatcher.go` and `worker.go` are `internal/store.go`,
`internal/dispatcher.go` and `pkg/deltaflow/worker.go`.

```text
application write ─ delta ─ DispatchPending ─ job ─ claim ─ Project ─ Apply ─ outcome
                    delta store               job store     SyncWorker
```

## 1. Inventory

| Component | State it keeps | Operations | What makes it correct |
|---|---|---|---|
| Delta stores (`internal/store.go`, `pkg/connectors/{postgres,sqlite}/delta_store.go`) | deltas (pending, dispatched), dedup keys | Enqueue, EnqueueInTx, EnqueueBatch, Pull, MarkDispatched | inside a dedup window a key has one delta; a delta is not lost |
| Dispatchers (`internal/dispatcher.go`, `*/dispatch_store.go`) | none of their own | DispatchPending | one outbox job per delta, marked and created together, in the order of occurrence; every delta is dispatched in the end |
| Job stores (`internal/store.go`, `*/job_store.go`) | jobs, leases, delta-to-job map | Create, ClaimNext, ClaimNextBatch, RenewLease, MarkSynced, MarkRetrying, RequeueClaimed, MarkDead, ForceReleaseExpiredLease, RequeueExpiredLease, lists | a live lease has one holder; only it ends the lease; finished jobs stay finished; claims follow the queue |
| Sync worker (`pkg/deltaflow/worker.go`) | routines' batches, heartbeats, contexts | RunOnce | synced means applied; attempts are honoured; leases are given back; the destination converges; every change settles |
| SQLite worker lock and `run` (`sqlite/worker_lock.go`, `internal/cli/run.go`) | one lock row, heartbeat and watcher goroutines | acquire, renew, release, cancel | at most one worker process per database, as long as none is late; a late one finds out; shutdown ends and frees the lock |
| Pipeline runtime, host loop (`pkg/runtime`, `internal/host`) | loops over workers, a done channel and an error channel | RunOnce, RunWorkers, MakeRetryingAvailable, WorkComplete | an error stops all; work is complete only when nothing is left; the drain ends |
| Configuration, registry, migrations, hashing, appliers, telemetry, playground | none that concurrent steps share | – | not modelled |

Components interact through calls on shared stores.  The hard behaviour is
concurrency (several processes, several routines per process, operators,
heartbeats racing with outcomes), time (leases that lapse while their holder
still works), failure (a crash with claimed jobs, a store call whose outcome is
unknown, cancellation in the middle of a batch) and stale data (a job's attempt
count or a projection read long before it is used).  `PROJECT.json` lists each
hazard with the line where it bites and the properties that watch it.

## 2. Modules

```text
   JobLease                              Outbox
   what every job store promises,        what every outbox promises,
   without time and queue order          without transactions and order
     ^ implemented by                      ^ implemented by
     JobStore      in memory   <-extends-  MemoryOutbox   in memory
     PostgresJobs  PostgreSQL              PostgresOutbox PostgreSQL
     SqliteJobs    SQLite                  SqliteOutbox   SQLite

   SyncWorker        extends JobLease: the workers on any of these stores, the
                     application and the destination
   HostLoop          RunWorkers and WorkComplete over workers and stores
   WorkerLock        the SQLite worker lock and the run command around it

   JobStore_proofs        theorems about JobStore and MemoryOutbox
   PostgresJobs_proofs    about PostgresJobs
   SqliteJobs_proofs      about SqliteJobs
   PostgresOutbox_proofs  about PostgresOutbox
   SqliteOutbox_proofs    about SqliteOutbox
   SyncWorker_proofs      about SyncWorker
   WorkerLock_proofs      about WorkerLock
   HostLoop_proofs        about HostLoop
```

"Implemented by" is `Lease == INSTANCE JobLease WITH ...` or
`Delivery == INSTANCE Outbox WITH ...` in the implementing module, with the
property `ImplementsJobLease` or `ImplementsOutbox`.  The workers are checked
against JobLease, and all three stores are checked to be one.  The refinement
goes by the rows, which do not show who made a call: a stranger's report that
settled a live lease would look like its holder's.  That only the holder's calls
touch a live lease is what `LiveLeaseKept` (JobStore) and `LateCallsAreHarmless`
(PostgresJobs, SqliteJobs) say, which compare the caller with the owner.
Modules named `MC<module>` only give constants their values.

**JobLease.**  Per job a status, the holder of its unexpired lease and its
attempt count.  `Add`, `Grant`, `Settle`, `Kill`, `Retry`, `Release` are the
calls of `JobStore`; `Lapse` is time passing; `Recall` is the operator's
requeue.  A renewal and a forced release change nothing here.

**Outbox.**  Per delta its status, its dedup slot and the number of its outbox
jobs.  `Record` adds deltas at one commit, at most one per slot; `Dispatch`
takes deltas out of the queue at one commit that leaves each with exactly one
job; `Map` and `Mark` are direct calls of Create and MarkDispatched.

**JobStore.**  `jobs`, `jobByDelta`, `nextID` are the fields of
`JobMemoryStore`, `now` its clock.  Every method holds one mutex and reads the
clock under it, so every method is one action.  Its guard is the negation of
its error returns: a rejected call, or a claim that finds nothing, changes no
state.  `Before` is the sort of `claimableJobIDsLocked`, including the string
order of IDs (`IDBefore`, exact below 100, far above the bounds).  A renewal may
shorten a lease, since callers choose the duration.  `WorkerCall(w)` are the
calls made in w's name, `OperatorCall` those of an operator, so a property can ask
whose call a step is.  Create is for users of the library (dispatch writes its
jobs itself); they are assumed to leave ID, State and CreatedAt to the store.

**MemoryOutbox.**  `deltas` and `dedup` are the maps of `DeltaMemoryStore`.
`DispatchPending` locks both stores and is one action: it takes a prefix of the
sync's pending deltas, creates a job for those that have none and marks all of
them.  `CreateFor` is a direct caller of Create that races with it.  It maps a
delta that exists to a job of that delta's sync: `createLocked` (`store.go`
346-389) checks neither, so this is assumed of callers.  `marked` is a history
variable: deltas marked by a direct call of MarkDispatched have no job.
The dedup key has no sync in it, as in the code.

**PostgresJobs.**  A call reads its process's clock (`reading`), and its one
statement runs any time later; the clocks of processes may disagree by a skew
that is fixed in a behaviour.  A claim is two steps, as its statement is inside
PostgreSQL: `LockCandidates` (SELECT ... FOR UPDATE SKIP LOCKED) and
`UpdateCandidates`; `locked` holds the rows in between.  Every other statement
updates one row and waits for its lock.  `Ends` is a call without an effect: no
row matched, or the statement was cancelled or lost.  The three lists for
operators are the operators `List...`.

**PostgresOutbox.**  A call is a transaction (`txs[c]`) whose statements are
steps that interleave under READ COMMITTED: `InsertDelta` and `ReadTwin` of the
enqueues, `BeginDispatch`, one `StageDelta` per delta and `Finish` of a dispatch,
`InsertJob` and `CheckForeignKey` of a Create.  A row's `writer` says whose
uncommitted row it is.  What PostgreSQL does around the statements is modelled
as the code relies on it: unique keys that wait for uncommitted rivals, row
locks, SKIP LOCKED, waiting of the foreign-key check, snapshots per statement
(`sees`), and deadlock detection (`WaitsFor`, `AbortVictim`).  `acked` is a
history variable: the dedup keys whose enqueue returned without an error.

**SqliteJobs.**  ClaimNextBatch is a loop of transactions: `ClaimReadsClock`,
`SelectCandidate`, `ClaimCandidate`, again and again, then `EndClaims`; a failure
goes to `RequeueClaimedBatch`, which gives the batch back job by job.  The code
drops the error of each give-back (`sqlite/job_store.go` 284): `GiveBackFails` is
one the database refuses, which leaves its job leased to a process that has
forgotten it.  `dropped[c]` is a history variable: such jobs with the deadline
their lease had.  `current` is SQLite's rule for a deferred transaction: its first
write fails when anything was committed since its read.  `held[c]` are the jobs
returned to c; a worker reports on nothing else.

**SqliteOutbox.**  `base` is the committed database, `draft` that of the one
transaction that has written (`writer`).  `Pull` is the read of a dispatch,
`Busy` its failure when it may not write; Enqueue outside a transaction inserts,
commits and then reads back (`InsertDelta`, `CommitInsert`, `ReadBack`).

**SyncWorker.**  A routine `<<p, i>>` is goroutine i of process p's RunOnce;
`pc` is its place in `processBatch`/`processJob`, `batch` the jobs it has not
finished with the attempt counts they had at the claim, `read` the projection it
is about to apply, `beatFailed` the error in `heartbeatErrCh`.  `cancelled[p]`
is the context of the cycle.  Change n is the n-th write; its delta and its job
have the same number, and a projection's version is the number of the last
change it includes.  Each store call is one step; `Project` and `Apply` are
separate steps, so writes, other workers and lapses come between.  A failed
store call may have taken effect.  The job's own context only lets Project and
Apply fail, which they may do anyway.  `applied` and `overlapped` are history
variables: the highest version an Apply delivered, and the keys that one routine
read while another was between its read and its Apply.

| In the model | In `worker.go` |
|---|---|
| `RunOnce`, `DispatchFails` | `dispatchDeltas`, then start of the routines (64-102) |
| `ClaimBatch`, `ClaimNext`, `ClaimFails` | `claimBatch` with ClaimNextBatch (239) or, `OneByOne`, as a loop of ClaimNext (244-256) |
| `StartJob`, `LeaveLoop` | loop head of `processBatch` (157-168) |
| `Project`, `ProjectFails`, `Apply`, `ApplyFails` | `processJob` (192-231); delete and upsert take the same path |
| `HeartbeatFails` | a failed renewal in `heartbeatLeaseWithWorker` (326-344); a successful one changes nothing in JobLease |
| `MarkSynced`, `FailOrRetry`, `Report` | outcome and its error (162-166, 259-280) |
| `RequeueClaimed`, `ReturnError` | `requeueClaimedJobs`, and RunOnce's `cancel()` on the first error (89-96) |

**WorkerLock.**  Three goroutines per process: `main` (acquire, run, stop the
heartbeat, wait for the watcher, release: `run.go` 120-200), `beat`
(`startSQLiteWorkerLockHeartbeat`) and `watch` (which remembers the heartbeat's
error and cancels the run).  Every statement carries a reading of the clock made
before; a process may be suspended anywhere.  `workerID` is fixed in a behaviour:
names of their own, or the host's name for both.  `timely` is a history variable:
no lock expired under its process and no statement was late so far.

**HostLoop.**  A goroutine of `RunWorkers` goes around the loop of `host.go`
164-226: the select, RunOnce (its dispatch, its claim and its reports, which are
the commits WorkComplete can see), `MakeRetryingAvailable`, the two counts of
WorkComplete, the sleep.  `errCh` is the buffered channel, `done` the closed one,
`before[w]` a history variable: what was recorded when WorkComplete was called.

Some operators have a variant named `Op_<Slip>`, a mistake a change of the code
could introduce.  `PROJECT.json` ("mutants") names for every property of every
passing run a variant under which TLC finds that property violated.

## 3. Runs

Each run is `tlc -config <Cfg>.cfg MC<module>`.  Deadlock is not checked: the
bounded models stop when clock, jobs and changes are used up, and a store
without callers rests.  The invariants with a collective name are conjunctions
of named parts, each with its own definition and comment: `RowsConsistent`
(NoDeltaLost, OneDeltaPerWindow, OneOutboxJobPerDelta), `LeasesConsistent`
(LeaseWellFormed, LeaseListsCover), `RecordsConsistent` (AckedIsRecorded,
RereadFindsWinner or ReadBackFindsRow), `BatchesConsistent` (NoLeaseLeftBehind),
`RoutinesConsistent` (SuccessMissesNoError), `CompletionIsTrue`
(CompleteMeansSettled, NilMeansComplete), each with its module's type invariant.

| Cfg | Checks | Bounds |
|---|---|---|
| `JobStore` | TypeOK, LeaseWellFormed, OneOutboxJobPerDelta, LiveLeaseKept, ClaimsInOrder, ImplementsJobLease | 2 workers, 2 jobs, clock to 3, leases of 1 and 2: a lease can be renewed, lapse, be taken over and lapse again; single claims and batches of 2, delays: a proper prefix and a tie |
| `MemoryOutbox` | RowsConsistent, DispatchesInOrder, ImplementsOutbox, PendingIsDispatched | 2 keys, 2 deltas, batches with repeats, changes that occurred before they were enqueued, direct Create and MarkDispatched |
| `PostgresJobs` | LeasesConsistent, LateCallsAreHarmless, ClaimsInOrder, ImplementsJobLease | 2 clients, 2 jobs, clock to 2, statements as late as one likes, clocks that agree or one of them ahead by 1 |
| `PostgresOutbox` | RecordsConsistent, WaitsAreConfined, PullsInOrder, ImplementsOutbox, PendingIsDispatched | 2 producers that enqueue two keys in opposite orders, one in a transaction, one as a batch, and one key by a single enqueue; 2 dispatchers, 1 direct caller, 1 abort |
| `SqliteJobs` | LeasesConsistent, NoUnknownLease, BatchIsDistinct, LateCallsAreHarmless, ImplementsJobLease | 2 processes, 2 jobs, clock to 1, batches of 2, which are claims of one where there is no second job: a lease ends while its batch is claimed; claims may fail anywhere, 1 give-back |
| `SqliteOutbox` | RecordsConsistent, ImplementsOutbox, PendingIsDispatched | as PostgresOutbox, with room for a third row |
| `SyncWorkerProcs` | SyncedMeansApplied, DeadAfterLastAttempt, ConvergedUnlessOverlapped | 2 processes, batches of 2, 2 changes of a key, 2 attempts, any lapse, 1 crash, 1 store failure |
| `SyncWorkerRoutines` | BatchesConsistent, EveryChangeSettles | 1 process with 2 routines that claim one by one, 1 crash or cancellation, 1 store failure |
| `WorkerLock` | RoutinesConsistent, OneWorker, LockIsReleased, OthersLockKept, OneWorkerAgain, ShutdownEnds | 2 processes with different or equal names, lease 2, clock to 2, 1 crash, 1 database failure |
| `HostLoop` | CompletionIsTrue, DrainEnds | 2 workers, 2 changes, 2 attempts, 1 error or lost lease, dispatch of one delta at a time |
| `SyncWorkerStale` | Converged is **violated** | 2 processes, no failure, no lapse of a lease in use |
| `WorkerLockShutdown` | LockErrorIsReal is **violated** | as WorkerLock, without a crash |

Two actors and two jobs (or two changes of one key, two rows claimed in opposite
orders) are where the hazards appear: a lease has an old and a new holder, a key
an older and a newer projection, a batch a current and a later job, a
transaction one to wait for.  A third actor adds nobody whose statement differs
in kind.  The clock bounds let every lease begin, end and be taken over; the
bound of SqliteJobs allows one expiry, which is what separates a batch's first
claim from its second.  Clock, attempts, crashes, cancellations and failures are
bounded by constants of the modules.  Clients, workers and processes are
interchangeable where a run uses symmetry; no run with a liveness property does.

### What the violations show

*An older projection can stay at the destination.*  `processJob` reads a
projection and applies it later, and nothing orders it against other jobs of
the same key.  Two workers that hold the jobs of two changes read versions 1
and 2 and apply 2, then 1; both jobs are settled and no work is left.  README.md
line 11 promises convergence "toward the newest desired projection state", and
several workers are the documented PostgreSQL deployment.
`ConvergedUnlessOverlapped` shows that this overlap is the only way: crashes,
lost leases, repeated jobs and failures alone never leave an old version, so the
documented SQLite deployment (one process, concurrency 1) is not affected.

*A renewal interrupted by the shutdown counts as an error of the lock.*  `run`
stops its heartbeat by cancelling its context (`run.go` 194).  A renewal in flight
is cancelled with it and reported as "sqlite worker lock heartbeat failed:
context canceled"; the watcher remembers it, and a run that did all its work
returns it in place of success.  The test at `run_test.go` 116 wants no error
from a heartbeat that was stopped, and covers the idle one.

### A limit the runs exclude: shared worker IDs

Ownership of jobs and of the worker lock compares worker IDs only, and
`deltaflow run` defaults the ID to the host name (`run.go` 58).  Processes of one
host that keep the default are one owner to the stores.  A process that lost its
lease to its namesake then reports on the namesake's claim, deciding with its own
old attempt count (`store.go` 956, `worker.go` 264), so attempts can exceed
max_attempts, against docs/DESIGN.md line 1204; and two processes can renew one
worker lock for good (`worker_lock.go` 69), against the single worker of
docs/SQLITE.md lines 25 and 33, once one of them was suspended beyond its lease.
The runs of SyncWorker, PostgresJobs and SqliteJobs therefore give every process
an ID of its own; WorkerLock has both cases.  There `OneWorker` holds for equal names
too while no process is late, but `OthersLockKept` lets a process that lost the
lock renew or delete its namesake's, as the code does, and `OneWorkerAgain` is about
processes with different names.

### A limit the runs exclude: leases that end while a batch is claimed

`claimBatch` without ClaimNextBatch (`worker.go` 244-256), and the SQLite store's
ClaimNextBatch (`sqlite/job_store.go` 264), claim a batch by a loop of ClaimNext.
When a lease ends during the loop, a later turn can claim the same job into the
same batch again, and another worker may have failed it in between.  The batch
then holds the job twice, with the attempt counts 0 and 1, say, under one live
lease; the first failure is decided with the older count (`worker.go` 264) and
sends back to the queue a job whose attempts are used up, against docs/DESIGN.md
line 1204.  TLC finds this in SyncWorker with two processes that have IDs of
their own, `OneByOne = TRUE` and `LeaseSized = FALSE`: DeadAfterLastAttempt is
violated after 14 steps.  The run of DeadAfterLastAttempt claims batches at
once, as PostgreSQL and the in-memory store do, where any lease may lapse at any
time; its theorem assumes `ClaimsLast`, that batches are claimed at once or that
leases outlast the batch.  `BatchIsDistinct` of SqliteJobs shows the condition
under which a batch can hold a job twice.

### Fairness

Crashes, cancellations and failures are bounded, not excluded, in every run.

- `MemoryOutbox`: every worker cycle begins with a dispatch, so DispatchPending
  of each sync is weakly fair.
- `PostgresOutbox`: dispatchers go on (weak fairness of BeginDispatch per sync
  and of Finish), PostgreSQL aborts one of the transactions that wait in a
  circle (weak fairness of AbortVictim), and a statement that waits for a row is
  woken when the row is freed (strong fairness of StageDelta and
  CheckForeignKey, since another transaction may take the row again).  Nothing
  is assumed of producers, who may keep a transaction open for good.
- `SqliteOutbox`: a process that has written finishes its transaction, for it
  locks the whole database (weak fairness of producers, Finish, Busy).  A
  dispatch that collides fails and is repeated by the next cycle; it is assumed
  that not all of them begin while someone writes or are overtaken (strong
  fairness of a Pull begun while nobody writes and of StageDelta).
- `SyncWorker`: processes keep calling RunOnce and their goroutines are
  scheduled (weak fairness of RunOnce and of each routine's steps; Project or
  Apply may fail each time, attempts bound that); a lease nobody has in a batch
  expires (weak fairness of LeaseExpires); a waiting job becomes due and claims
  take the jobs due longest first, so claims do not miss all waiting jobs
  forever (strong fairness of a claim that gets a job, because cycles that claim
  nothing disable it again and again).  `LeaseSized` is the advice of README.md
  line 172, that the lease outlives the drain of a batch; without it a job can
  lapse in every batch and EveryChangeSettles need not hold.
- `WorkerLock`: heartbeat, watcher and the steps of the shutdown are scheduled
  (weak fairness); with the stop and the ticker both ready, `select` takes either
  at random, so the stop is taken in the end (strong fairness of BeatStops).  A
  pipeline may run for ever, and no process needs to start.
- `HostLoop`: goroutines are scheduled (weak fairness), and of infinitely many
  claims while a job waits one gets a job (strong fairness).  The callback after
  RunOnce is MakeRetryingAvailable, as the callers of RunWorkers pass it.

### Abstractions

- One SQL statement is one step, with the clock read before it; a claim of
  PostgreSQL is two.  The locking, snapshot and deadlock rules of the databases
  are those the code relies on and are marked external in the map where no line
  of the repository states them.
- `ImplementsJobLease` of the database stores speaks of the steps taken while no
  statement carries a reading that differs from the time (`ReadingsCurrent`).
  A late or skewed statement may write a lease that has already passed, which
  JobLease does not know; `LateCallsAreHarmless` says what still holds then.
- AcquireWorkerLock either takes the lock or answers "already running"; its
  other errors end the process before it has anything.
- Payloads are versions, errors and backoff durations are left open: a retried
  job becomes due at any time.

## 4. Proofs

TLAPS checks the theorems below for all values of the constants that satisfy the
module's assumption.  TLC checked each inductive invariant on the module's runs
before it was proved.

| Module | Theorem | States |
|---|---|---|
| `JobStore_proofs` | TypeCorrect | `Spec => []TypeOK` |
| | LeasesAreWellFormed | `Spec => []LeaseWellFormed` |
| | OutboxJobsAreUnique | `Spec => []OneOutboxJobPerDelta` |
| | LiveLeasesAreKept | `Spec => LiveLeaseKept` |
| | FinishedJobsStay | `Spec => FinishedStaysFinished` |
| | ClaimsFollowTheQueue | `Spec => ClaimsInOrder` |
| | StoreImplementsJobLease | `Spec => ImplementsJobLease` |
| | RowsAgree | `OutboxSpec => []RowsConsistent` |
| | DispatchFollowsTheQueue | `OutboxSpec => DispatchesInOrder` |
| | MemoryImplementsOutbox | `OutboxSpec => ImplementsOutbox` |
| `PostgresJobs_proofs` | LeasesAreConsistent | `JobsSpec => []LeasesConsistent` |
| | LateStatements | `JobsSpec => LateCallsAreHarmless` |
| | ClaimsFollowTheQueue | `JobsSpec => ClaimsInOrder` |
| | StatementsImplementJobLease | `JobsSpec => ImplementsJobLease` |
| `SqliteJobs_proofs` | LeasesAreConsistent | `JobsSpec => []LeasesConsistent` |
| | LeasesAreKnown | `JobsSpec => []NoUnknownLease` |
| | BatchesAreDistinct | `JobsSpec => []BatchIsDistinct` |
| | LateStatements | `JobsSpec => LateCallsAreHarmless` |
| | StatementsImplementJobLease | `JobsSpec => ImplementsJobLease` |
| `PostgresOutbox_proofs` | AcksAreDurable | `OutboxSpec => []RecordsConsistent` |
| | MappingInvariant | `OutboxSpec => []MappingInv` |
| | DispatchersDoNotWait | `OutboxSpec => []WaitsAreConfined` |
| | OldestFirst | `OutboxSpec => PullsInOrder` |
| | TransactionsImplementOutbox | `OutboxSpec => ImplementsOutbox` |
| `SqliteOutbox_proofs` | AcksAreDurable | `OutboxSpec => []RecordsConsistent` |
| | OutboxInvariant | `OutboxSpec => []OutboxInv` |
| | TransactionsImplementOutbox | `OutboxSpec => ImplementsOutbox` |
| `SyncWorker_proofs` | WorkersTyped | `WorkerSpec => []BaseInv` |
| | WorkersFollowJobLease | `WorkerSpec => LeaseSpec` |
| | SyncedAfterApply | `WorkerSpec => []SyncedMeansApplied` |
| | DeliversLatest | `WorkerSpec => []ConvergedUnlessOverlapped` |
| | OneRoutineConverges | `OneRoutine` implies `WorkerSpec => []Converged` |
| | AttemptsHonoured | `DistinctIDs`, `ClaimsLast` imply `WorkerSpec => []DeadAfterLastAttempt` |
| | BatchesAgree | `DistinctIDs` implies `WorkerSpec => []BatchesConsistent` |
| `WorkerLock_proofs` | RoutinesAreConsistent | `LockSpec => []RoutinesConsistent` |
| | WorksAlone | `LockSpec => []OneWorker` |
| | LockComesBack | `LockSpec => []LockIsReleased` |
| | OthersCannotTakeIt | `LockSpec => OthersLockKept` |
| `HostLoop_proofs` | CompletionIsNeverClaimedFalsely | `HostSpec => []CompletionIsTrue` |
| | ErrorsHaveRoom | a goroutine that failed finds room in `errCh` |

Together: the workers are proved to take only steps of JobLease, and all three
job stores are proved to implement it; all three outboxes are proved to implement
Outbox.

### What is assumed

The modules' assumptions are those of the code: nil is no worker and the empty
window no window, bounds are natural numbers, callers ask for positive leases and
limits (ErrInvalidLockFor, the limit checks), a batch of deltas is not empty.
PostgresOutbox gives every client one role; a process that both enqueues and
dispatches is two clients, since each call is a transaction of its own.  The
clocks of PostgresJobs may differ by any fixed skew; processes, jobs, crashes and
failures are unlimited.  Three theorems about workers need more, stated as
operators in `SyncWorker_proofs`:

- `DistinctIDs`, no two routines share a worker ID, and `ClaimsLast`, a batch is
  claimed at once or its leases last.  Without the one or the other TLC shows
  how AttemptsHonoured fails (section 3, the two limits).
- `OneRoutine`, one process with concurrency 1, the deployment docs/SQLITE.md
  describes and WorkerLock enforces.  The run SyncWorkerStale shows that two
  routines do not converge always.

### The arguments

*JobStore.*  Eleven methods change existing jobs, but each either claims a set of
jobs or updates one of them, and the update is one of three: renew a live lease,
unlock an expired job, or record an outcome that a live owner or an operator may
record (`CallStep`).  `CallCases` proves that once, with a lemma per method; the
theorems about leases reason about row steps (`JobStep`) instead of methods.
LiveLeasesAreKept speaks of callers, so it goes by methods again: none of another
worker (`StrangersKeep`) and none of an operator (`OperatorsKeep`) changes a live
job.  TypeOK is inductive by itself; LeaseWellFormed and OneOutboxJobPerDelta with it.
The refinement needs LeaseWellFormed as well: a claim must give the abstract job
its holder, and a tick makes all leases that end at that moment lapse in one
abstract step (`TickRefines`).  FinishedStaysFinished is in no run: JobLease has
no step out of synced or dead, so the check of ImplementsJobLease covers it on
small instances.

*MemoryOutbox.*  An enqueue, alone or in a batch, is a `RecordStep` (it adds
pending deltas, each with a slot that was free), a dispatch a `StageStep`.  The
one thing to add to RowsConsistent is `MappedAlike`: a job maps a delta of its
own sync.  Without it a dispatch that skips a delta mapped by a direct Create
could leave it with a job of another sync.  That a batch is enumerated in order
and each item gets its own ID rests on `ListIsOneToOne`: a list of a finite set
in a strict order has each element once.

*PostgresJobs.*  `StoreInv` adds to types and LeaseWellFormed what row locks give
(`LocksHold`): rows locked by different claims are disjoint, and a locked row
stays claimable by the reading of the claim that locked it, because every other
statement waits for it.  It is what makes the second half of a claim safe
however late it runs.  Every statement is a `RowsStep` of one client; the
theorems follow from it, as in JobStore.

*SqliteJobs.*  `StoreInv` gives the calls their shapes (`Call`) and says that
readings lie in the past and a claim has room in its batch (`CallTyped`).  Every
step but a tick is a `ClientStep`: it moves its own call and at most makes the
reads of open claims old, and it leaves the rows alone, appends one or changes
one, judged at the time the call carries (`At`: the reading, or the time itself
when a batch is given back).  Two invariants more.  `OwnersKnow`: the owner of a
live lease has it in `held` or in the batch it claims or gives back, or the
database refused to take the job back and the lease's deadline is in `dropped`,
so an error half way through a batch cannot lose one otherwise.  `BatchHeld`: until its lease duration
is over, a claim still has every job of its batch and its jobs differ; a later
turn of the loop can claim a job again only after that.  That a claim reads and
writes in one transaction is not needed for any of it, since the UPDATE repeats
the condition of the SELECT.

*PostgresOutbox.*  Two invariants over types and roles.  `RecordsInv`: of the
rows with one dedup key, committed or not, there is one (`SlotsUnique`), and what
an enqueue counts on is committed or its own (`EnqueueOK`); then a commit cannot
leave an acknowledged key without a row, and the reread finds the winner.
`MappingInv`: what a dispatch locked stays committed and pending and is locked by
no other, at most one open transaction creates a job of a delta, and that delta
has none.  `OutboxCases` shows that every step is one of a call that touches
only its own transaction, or an insert, a commit, a rollback or a mark; the
refinement is a stutter but for the last, `Dispatch`, `Record` or `Map` at a
commit.

*SqliteOutbox.*  One invariant, `OutboxInv`, about the committed database and the
draft of the one open transaction that has written.  Both have one row per dedup
key and the draft has every row of the database (`Grows`), so whichever of the
two a call reads, what it is to acknowledge or read back stays there (`Backed`).
For the refinement, `DraftOK` says what the draft adds: of an enqueue new pending
rows, of a dispatch pending deltas with a job each, and then that the
transaction's reads are current.  `DispatchOK` is why: a dispatch whose reads are
current finds its deltas pending, since a commit that changed anything made the
reads of all others old.  A client may have several roles here; what it does
follows from its call.  That a free ID exists to be the lowest (`Freshest`) is
the well-foundedness of the numbers (`Least`).

*SyncWorker.*  Five invariants, each for what it is needed for.  `BaseInv` (types;
a job belongs to a change; every changed key has a newest change).
`DeliveryInv`: what a routine read or applied for the job in its hand is at
least as new as the job's change.  `OrderInv`: no version is newer than the data,
and a key never held twice only moves forward.  `AttemptsInv`: a job of a batch
whose lease is still held has the attempt count of its claim, though the lease
may have been lost and others may have tried.  `LeaseInv`: without a crash or a
failed store call every lease is that of a job in a batch.  That a changed key
*has* a newest change would be an induction over the number of changes; it is
carried as an invariant instead (`NewestExists`), since each change is the
newest of its key when it is made.

*WorkerLock.*  `RoutineInv` says how far main routine, heartbeat and watcher are
with each other and that no reading is from the future.  `LockHeld`: while no
process was late, a process that counts on the lock has it, unexpired, and is the
only one.  It is stronger than OneWorker in that it covers the phases before and
after the work, in which the lock is used as well.  For LockIsReleased: without a
failure of the database a lock has an owner that still runs or crashed
(`OwnerRuns`); with one, a process's heartbeat has ended before the process has.

*HostLoop.*  `HostInv` ties a claimed job to the one batch that has it, an answer
of WorkComplete to the deltas recorded before it was asked (`CountsHold`: once
no delta was found pending, all those are dispatched, so what is not settled is
a job the second count sees), the end of each loop to its reason, and counts the
errors in `errCh` by the goroutines that have left.

### Only model-checked

- OneWorkerAgain, EveryChangeSettles, PendingIsDispatched, ShutdownEnds and
  DrainEnds: liveness under fairness, and ENABLED, are beyond TLAPS as it is used
  here.

## 5. Not modelled

- Reads no decision of the modelled code uses: Get, Pull outside a dispatch,
  the counts of the stores, limit and order of the operators' lists.
- `host.go` beside the loop: ResetSync (two deletions, for drivers that run it
  before they start workers), opening databases, formatting.
- `run` before its lock (flags, configuration, opening stores), its PostgreSQL
  branch, which has no lock, and the other commands of the CLI.
- BuildFromConfig and the registry, configuration, migrations, hashing and
  cloning: sequential, before or beside the protocol.
- Lease telemetry and logs, which no decision reads.
- The Redis and Elasticsearch appliers: one request per Apply, of which the
  worker sees success, failure, or failure after the write.  An Apply whose
  request is still under way when its process dies is not in SyncWorker.
- A Create whose caller chooses the job's state or creation time freely: the
  dispatcher's jobs are pending and created at the time of its poll.  A Create
  that brings its own ID is refused by every store (`ErrJobIDProvided`).
- Playground and integration harness.

## 6. Plan

ResetSync against a running dispatch, and the composition of HostLoop with
SyncWorker in place of its cut-down RunOnce; then what can be proved about them.
