--------------------------- MODULE PostgresOutbox ---------------------------
(***************************************************************************)
(* The PostgreSQL outbox: delta_store.go, dispatch_store.go and the two    *)
(* ways job_store.go creates a job for a delta, in pkg/connectors/postgres.*)
(*                                                                         *)
(* A call is a transaction of several statements.  The statements of       *)
(* clients interleave under READ COMMITTED: a statement sees what was      *)
(* committed when it started and what its own transaction wrote.  What     *)
(* PostgreSQL does for the statements is part of the model: an insert      *)
(* waits while another transaction holds an uncommitted row with the same  *)
(* unique key, FOR UPDATE locks rows until the transaction ends, SKIP      *)
(* LOCKED passes over them, the check of a foreign key waits for them, and *)
(* of transactions that wait for each other one is aborted.                *)
(***************************************************************************)
EXTENDS Integers, Sequences, FiniteSets

CONSTANTS
  Producers,     \* callers of the enqueue methods
  Dispatchers,   \* worker routines, which call DispatchPending
  Mappers,       \* callers of Create and of MarkDispatched
  DB,            \* the writer of a committed row
  Syncs,         \* sync IDs
  Keys,          \* projection identities
  Windows,       \* non-empty dedup windows
  NoWindow,      \* the empty dedup window
  Ages,          \* values of occurred_at
  MaxDeltas,     \* bound on the rows of deltaflow_deltas
  Inputs,        \* Inputs[c]: the calls of producer c, each a kind of enqueue
                 \*   and the deltas it enqueues at once
  PullLimits,    \* the positive limits of DispatchPending
  MaxAborts      \* bound on transactions that fail for no visible reason

Item == [sync : Syncs, key : Keys, window : Windows \cup {NoWindow}, at : Ages]

Clients == Producers \cup Dispatchers \cup Mappers

ASSUME PostgresOutboxAssumption ==
  /\ DB \notin Clients
  /\ Producers \cap Dispatchers = {} /\ Mappers \cap (Producers \cup Dispatchers) = {}
  /\ NoWindow \notin Windows
  /\ Ages \subseteq Nat
  /\ \A c \in Producers : \A call \in Inputs[c] :
       /\ call.items \in Seq(Item) \ {<<>>}
       /\ \/ call.op = "enqueue" /\ Len(call.items) = 1
          \/ call.op \in {"app", "batch"}
  /\ MaxDeltas \in Nat /\ MaxAborts \in Nat
  /\ PullLimits \subseteq Nat \ {0}

VARIABLES
  rows,     \* rows[d]: the delta with ID d; its writer is DB once committed
  jobs,     \* jobs[d]: the number of committed outbox jobs of d
  txs,      \* txs[c]: the call of client c
  acked,    \* history: dedup keys whose enqueue was reported done
  aborts    \* number of transactions that failed for no visible reason

outboxVars == <<rows, jobs, txs, acked, aborts>>

DeltaIDs == 1..MaxDeltas
NoSlot == <<>>
Slots == Windows \X Keys

NoRow == [state |-> "absent"]
Row == [state : {"pending", "dispatched"}, sync : Syncs,
        slot : Slots \cup {NoSlot}, at : Ages, writer : Clients \cup {DB}]

Idle == [op |-> "idle"]
Enqueues == {"enqueue", "app", "batch"}

(* What a call keeps.  todo: the items or deltas it has not handled yet;    *)
(* sees: the deltas its statement's snapshot shows; slots: what an enqueue  *)
(* will acknowledge; locks: the rows it has FOR UPDATE; creates: the deltas *)
(* of the jobs it inserted; marks: the deltas it set to dispatched.         *)
EnqueueTx == [op : Enqueues, stage : {"insert", "read"}, todo : Seq(Item),
              sees : SUBSET DeltaIDs, locks : {{}}, creates : {{}}, marks : {{}},
              slots : SUBSET Slots]
MappingTx == [op : {"dispatch", "create"}, stage : {"insert"}, todo : Seq(DeltaIDs),
              sees : {{}}, locks : SUBSET DeltaIDs, creates : SUBSET DeltaIDs,
              marks : SUBSET DeltaIDs, slots : {{}}]

TxTypeOK(t) == IF t.op \in Enqueues THEN t \in EnqueueTx ELSE t \in MappingTx \cup {Idle}

(* Type invariant. *)
OutboxTypeOK ==
  /\ rows \in [DeltaIDs -> Row \cup {NoRow}]
  /\ jobs \in [DeltaIDs -> Nat]
  /\ txs = [c \in Clients |-> txs[c]]
  /\ \A c \in Clients : TxTypeOK(txs[c])
  /\ acked \subseteq Slots
  /\ aborts \in 0..MaxAborts

OutboxInit ==
  /\ rows = [d \in DeltaIDs |-> NoRow]
  /\ jobs = [d \in DeltaIDs |-> 0]
  /\ txs = [c \in Clients |-> Idle]
  /\ acked = {}
  /\ aborts = 0
-----------------------------------------------------------------------------
Open(c) == txs[c].op # "idle"
Existing == {d \in DeltaIDs : rows[d] # NoRow}
Committed == {d \in Existing : rows[d].writer = DB}
WrittenBy(c) == {d \in Existing : rows[d].writer = c}
InUse(d) == \E c \in Clients : Open(c) /\ d \in txs[c].locks
Creators(d) == {c \in Clients : Open(c) /\ d \in txs[c].creates}

Begin(c, op, todo) ==
  /\ ~Open(c)
  /\ txs' = [txs EXCEPT ![c] =
       [op |-> op, stage |-> "insert", todo |-> todo, sees |-> Committed,
        locks |-> {}, creates |-> {}, marks |-> {}, slots |-> {}]]

(* COMMIT: the rows become visible, the locks and the call end.             *)
Commit(c) ==
  LET t == txs[c]
  IN  /\ rows' = [d \in DeltaIDs |->
           IF d \notin Existing THEN NoRow
           ELSE [rows[d] EXCEPT
                   !.state = IF d \in t.marks THEN "dispatched" ELSE @,
                   !.writer = IF @ = c THEN DB ELSE @]]
      /\ jobs' = [d \in DeltaIDs |-> jobs[d] + IF d \in t.creates THEN 1 ELSE 0]
      /\ txs' = [txs EXCEPT ![c] = Idle]
      /\ acked' = acked \cup t.slots

(* ROLLBACK. *)
Rollback(c) ==
  /\ rows' = [d \in DeltaIDs |-> IF d \in WrittenBy(c) THEN NoRow ELSE rows[d]]
  /\ txs' = [txs EXCEPT ![c] = Idle]
  /\ UNCHANGED <<jobs, acked>>
-----------------------------------------------------------------------------
(* Enqueue, EnqueueInTx and EnqueueBatch.                                   *)

DedupKey(item) ==
  IF item.window = NoWindow THEN NoSlot ELSE <<item.window, item.key>>

NewRow(item, c) ==
  [state |-> "pending", sync |-> item.sync, slot |-> DedupKey(item),
   at |-> item.at, writer |-> c]

(* Rows with the dedup key: uncommitted ones of others, and those the       *)
(* insert conflicts with.                                                   *)
Rivals(slot, c) == {d \in Existing : /\ slot # NoSlot /\ rows[d].slot = slot
                                     /\ rows[d].writer \notin {c, DB}}

Twins(slot, c) == {d \in Committed \cup WrittenBy(c) :
                      slot # NoSlot /\ rows[d].slot = slot}

(* A batch has one window, which is not empty. *)
ValidBatch(items) ==
  /\ items[1].window # NoWindow
  /\ \A i \in DOMAIN items : items[i].window = items[1].window

(* A transaction of the application enqueues one delta after the other. *)
BeginEnqueue(c, call) ==
  /\ call.op = "batch" => ValidBatch(call.items)
  /\ Begin(c, call.op, call.items)
  /\ UNCHANGED <<rows, jobs, acked, aborts>>

(* The call goes on with its next item.  An item without a window claims no *)
(* slot that could be acknowledged.                                         *)
NextItem(c) ==
  LET item == Head(txs[c].todo)
  IN  [txs[c] EXCEPT !.stage = "insert", !.todo = Tail(@), !.sees = Committed,
                     !.slots = @ \cup ({<<item.window, item.key>>} \cap Slots)]

Reread_OldSnapshot(c) == [txs[c] EXCEPT !.stage = "read"]
Reread(c) == [txs[c] EXCEPT !.stage = "read", !.sees = Committed]

(* INSERT ... ON CONFLICT (dedup_key) DO NOTHING.  Enqueue and EnqueueInTx  *)
(* read the row they conflict with; a batch only counts it.                 *)
InsertDelta(c) ==
  LET t    == txs[c]
      item == Head(t.todo)
      slot == DedupKey(item)
  IN  /\ t.op \in Enqueues
      /\ t.stage = "insert" /\ t.todo # <<>>
      /\ Rivals(slot, c) = {}
      /\ \/ /\ Twins(slot, c) # {}
            /\ txs' = [txs EXCEPT ![c] = IF t.op = "batch" THEN NextItem(c)
                                                           ELSE Reread(c)]
            /\ UNCHANGED rows
         \/ /\ Twins(slot, c) = {}
            /\ \E d \in DeltaIDs \ Existing :
                 /\ \A e \in DeltaIDs \ Existing : d <= e
                 /\ rows' = [rows EXCEPT ![d] = NewRow(item, c)]
            /\ txs' = [txs EXCEPT ![c] = NextItem(c)]
      /\ UNCHANGED <<jobs, acked, aborts>>

(* SELECT ... WHERE dedup_key = $1. *)
ReadTwin(c) ==
  LET t    == txs[c]
      slot == DedupKey(Head(t.todo))
  IN  /\ Open(c) /\ t.stage = "read"
      /\ \E d \in t.sees \cup WrittenBy(c) : rows[d].slot = slot
      /\ txs' = [txs EXCEPT ![c] = NextItem(c)]
      /\ UNCHANGED <<rows, jobs, acked, aborts>>
-----------------------------------------------------------------------------
(* DispatchPending.                                                         *)

PendingDeltas(s) ==
  {d \in Committed : rows[d].state = "pending" /\ rows[d].sync = s}

Before_ByArrival(c, d) == c < d
Before(c, d) == \/ rows[c].at < rows[d].at
                \/ rows[c].at = rows[d].at /\ c < d

(* FOR UPDATE SKIP LOCKED. *)
Unlocked_Any(s) == PendingDeltas(s)
Unlocked(s) == {d \in PendingDeltas(s) : ~InUse(d)}

Orders(C) == {q \in [1..Cardinality(C) -> C] :
                \A i, j \in 1..Cardinality(C) : i < j => Before(q[i], q[j])}

BeginDispatch(c, s, n) ==
  LET free == Unlocked(s)
  IN  /\ ~Open(c)
      /\ \E C \in SUBSET free : \E q \in Orders(C) :
           /\ C # {}
           /\ \/ Cardinality(C) = n
              \/ Cardinality(C) < n /\ C = free
           /\ \A i \in C, j \in free \ C : Before(i, j)
           /\ txs' = [txs EXCEPT ![c] =
                [op |-> "dispatch", stage |-> "insert", todo |-> q,
                 sees |-> {}, locks |-> C, creates |-> {}, marks |-> {}, slots |-> {}]]
      /\ UNCHANGED <<rows, jobs, acked, aborts>>

(* createOutboxFromDeltaTx, whose insert waits for a job that another       *)
(* transaction is creating for the delta and does nothing when there is     *)
(* one, and markDispatchedTx.                                               *)
Staged_SkipsMapped(t, d) ==
  IF jobs[d] = 0 THEN [t EXCEPT !.creates = @ \cup {d}, !.marks = @ \cup {d}] ELSE t
Staged_NoConflict(t, d) ==
  [t EXCEPT !.creates = @ \cup {d}, !.marks = @ \cup {d}]
Staged(t, d) ==
  [t EXCEPT !.creates = IF jobs[d] = 0 THEN @ \cup {d} ELSE @,
            !.marks = @ \cup {d}]

StageDelta(c) ==
  LET t == txs[c]
      d == Head(t.todo)
  IN  /\ t.op = "dispatch" /\ t.todo # <<>>
      /\ Creators(d) \subseteq {c}
      /\ txs' = [txs EXCEPT ![c] = [Staged(t, d) EXCEPT !.todo = Tail(@)]]
      /\ UNCHANGED <<rows, jobs, acked, aborts>>

(* A call with nothing left to do commits; the application may also roll    *)
(* its transaction back.                                                    *)
Finish(c) ==
  /\ txs[c].op \in Enqueues \cup {"dispatch"}
  /\ txs[c].stage = "insert" /\ txs[c].todo = <<>>
  /\ \/ Commit(c)
     \/ txs[c].op = "app" /\ Rollback(c)
  /\ UNCHANGED aborts
-----------------------------------------------------------------------------
(* Create of an outbox job: the insert fails with ErrDeltaAlreadyMapped     *)
(* when the delta has one, and waits for a transaction that is creating     *)
(* one; then the check of the foreign key waits for the delta's lock.       *)
InsertJob(c, d) ==
  /\ ~Open(c)
  /\ d \in Committed
  /\ Creators(d) = {} /\ jobs[d] = 0
  /\ txs' = [txs EXCEPT ![c] =
       [op |-> "create", stage |-> "insert", todo |-> <<d>>, sees |-> {},
        locks |-> {}, creates |-> {d}, marks |-> {}, slots |-> {}]]
  /\ UNCHANGED <<rows, jobs, acked, aborts>>

CheckForeignKey(c) ==
  /\ txs[c].op = "create"
  /\ ~InUse(Head(txs[c].todo))
  /\ Commit(c)
  /\ UNCHANGED aborts

(* MarkDispatched: one UPDATE, which waits for the row's lock. *)
MarkDispatched(c, d) ==
  /\ ~Open(c)
  /\ d \in Committed
  /\ ~InUse(d)
  /\ rows' = [rows EXCEPT ![d].state = "dispatched"]
  /\ UNCHANGED <<jobs, txs, acked, aborts>>
-----------------------------------------------------------------------------
(* Waiting, deadlocks and failures.                                         *)

(* The clients whose transactions c's statement waits for. *)
WaitsFor(c) ==
  LET t == txs[c]
  IN  IF ~Open(c) \/ t.stage = "read" \/ t.todo = <<>> THEN {}
      ELSE IF t.op = "dispatch" THEN Creators(Head(t.todo)) \ {c}
      ELSE IF t.op = "create" THEN {e \in Clients : Open(e) /\ Head(t.todo) \in txs[e].locks}
      ELSE {rows[d].writer : d \in Rivals(DedupKey(Head(t.todo)), c)}

(* A statement waits for one transaction at most, so clients whose waits    *)
(* lead to exactly these clients again wait in a circle.                    *)
Deadlocked(c) ==
  \E S \in SUBSET Clients : c \in S /\ UNION {WaitsFor(e) : e \in S} = S

AbortVictim(c) ==
  /\ WaitsFor(c) # {} /\ Deadlocked(c)
  /\ Rollback(c)
  /\ UNCHANGED aborts

(* A crash, a lost connection, a cancelled context, a failed statement. *)
Abort(c) ==
  /\ Open(c)
  /\ aborts < MaxAborts
  /\ aborts' = aborts + 1
  /\ Rollback(c)

Dispatching(c) ==
  \/ \E s \in Syncs, n \in PullLimits : BeginDispatch(c, s, n)
  \/ StageDelta(c)
  \/ Finish(c)

Enqueuing(c) == InsertDelta(c) \/ ReadTwin(c) \/ Finish(c)

Mapping(c) == \E d \in DeltaIDs : InsertJob(c, d) \/ MarkDispatched(c, d)

OutboxNext ==
  \/ \E c \in Producers :
       (\E call \in Inputs[c] : BeginEnqueue(c, call)) \/ Enqueuing(c)
  \/ \E c \in Dispatchers : Dispatching(c)
  \/ \E c \in Mappers : Mapping(c) \/ CheckForeignKey(c)
  \/ \E c \in Clients : AbortVictim(c) \/ Abort(c)

OutboxSpec == OutboxInit /\ [][OutboxNext]_outboxVars

(* Worker routines go on, a statement that can run runs, and of waiting     *)
(* transactions one is aborted.  A statement that waits for a row gets the  *)
(* row when it is freed again and again.  Nothing is assumed of producers,  *)
(* who may keep a transaction of their own open for good.                   *)
OutboxFairness ==
  /\ \A c \in Dispatchers : SF_outboxVars(StageDelta(c)) /\ WF_outboxVars(Finish(c))
  /\ \A s \in Syncs : WF_outboxVars(\E c \in Dispatchers, n \in PullLimits :
                                       BeginDispatch(c, s, n))
  /\ \A c \in Mappers : SF_outboxVars(CheckForeignKey(c))
  /\ WF_outboxVars(\E c \in Clients : AbortVictim(c))

FairOutboxSpec == OutboxSpec /\ OutboxFairness
-----------------------------------------------------------------------------
(* An enqueue that was reported done is durable: a delta with its dedup key *)
(* is committed, also when it was a duplicate of a row whose transaction    *)
(* could still have rolled back, or one item of a batch.                    *)
AckedIsRecorded ==
  \A slot \in acked : \E d \in Committed : rows[d].slot = slot

(* An enqueue that lost its insert finds the winner's row: the SELECT sees  *)
(* a transaction the INSERT had to wait for.                                *)
RereadFindsWinner ==
  \A c \in Producers : Open(c) /\ txs[c].stage = "read" =>
    \E d \in txs[c].sees \cup WrittenBy(c) :
      rows[d].slot = DedupKey(Head(txs[c].todo))

(* Every acknowledged enqueue has its row, and every enqueue that is still  *)
(* to read a row will find it.                                              *)
RecordsConsistent == OutboxTypeOK /\ AckedIsRecorded /\ RereadFindsWinner

(* Dispatchers never wait for each other nor for producers: a deadlock      *)
(* needs two transactions with several keys, or a direct Create.            *)
WaitsAreConfined ==
  /\ \A c \in Dispatchers : WaitsFor(c) \subseteq Mappers
  /\ \A c \in Producers : WaitsFor(c) \subseteq Producers
  /\ \A c \in Mappers : WaitsFor(c) \subseteq Dispatchers

(* A dispatch takes a delta before another of its sync that occurred        *)
(* earlier only when another dispatch has locked that one.                  *)
PullsInOrder ==
  [][\A c \in Dispatchers : txs[c] = Idle /\ txs'[c] # Idle =>
       \A d \in txs'[c].locks, e \in Committed :
         /\ rows[e].state = "pending" /\ rows[e].sync = rows[d].sync
         /\ rows[e].at < rows[d].at
         => \E b \in Clients : Open(b)' /\ e \in txs'[b].locks]_outboxVars

(* A committed delta is dispatched in the end, whatever duplicates, direct  *)
(* creations, deadlocks and failures happen on the way.                     *)
PendingIsDispatched ==
  \A d \in DeltaIDs :
    d \in Committed ~> (rows[d] # NoRow /\ rows[d].state = "dispatched")

(* What a reader of the database sees.                                      *)
statusBar == [d \in DeltaIDs |-> IF d \in Committed THEN rows[d].state ELSE "absent"]
slotBar   == [d \in DeltaIDs |-> IF d \in Committed THEN rows[d].slot ELSE NoSlot]

Delivery == INSTANCE Outbox WITH Deltas <- DeltaIDs, status <- statusBar,
                                 slot <- slotBar, jobs <- jobs

(* The transactions implement Outbox: a delta leaves the queue at the       *)
(* commit that leaves it with exactly one job, and of the deltas of a dedup *)
(* key one is ever committed.                                               *)
ImplementsOutbox == Delivery!DeliverySpec
=============================================================================
