---------------------------- MODULE SqliteOutbox ----------------------------
(***************************************************************************)
(* The SQLite outbox: delta_store.go, dispatch_store.go and the two ways   *)
(* job_store.go creates a job for a delta, in pkg/connectors/sqlite.       *)
(*                                                                         *)
(* A client is a process with its one connection.  Of the transactions one *)
(* at a time may have written.  A transaction that has read can write only *)
(* while nothing was committed since; when it cannot write now, SQLite     *)
(* answers busy, and the call rolls back and fails.                        *)
(***************************************************************************)
EXTENDS Integers, Sequences, FiniteSets

CONSTANTS
  Producers,     \* processes that enqueue
  Dispatchers,   \* processes that call DispatchPending
  Mappers,       \* processes that call Create and MarkDispatched
  NoClient,      \* no transaction has written
  Syncs,         \* sync IDs
  Keys,          \* projection identities
  Windows,       \* non-empty dedup windows
  NoWindow,      \* the empty dedup window
  Ages,          \* values of occurred_at
  MaxDeltas,     \* bound on the rows of deltaflow_deltas
  Inputs,        \* Inputs[c]: the calls of producer c, each a kind of enqueue
                 \*   and the deltas it enqueues at once
  PullLimits,    \* the positive limits of DispatchPending
  MaxAborts      \* bound on transactions rolled back for no visible reason

Item == [sync : Syncs, key : Keys, window : Windows \cup {NoWindow}, at : Ages]

Clients == Producers \cup Dispatchers \cup Mappers

ASSUME SqliteOutboxAssumption ==
  /\ NoClient \notin Clients
  /\ NoWindow \notin Windows
  /\ Ages \subseteq Nat
  /\ \A c \in Producers : \A call \in Inputs[c] :
       /\ call.items \in Seq(Item) \ {<<>>}
       /\ \/ call.op = "enqueue" /\ Len(call.items) = 1
          \/ call.op \in {"app", "batch"}
  /\ MaxDeltas \in Nat /\ MaxAborts \in Nat
  /\ PullLimits \subseteq Nat \ {0}

VARIABLES
  base,     \* what was committed last: the deltas and how many jobs they have
  draft,    \* base with the writes of the open transaction that has written
  writer,   \* that transaction's client, or NoClient
  txs,      \* txs[c]: the call of client c
  acked,    \* history: dedup keys whose enqueue was reported done
  aborts    \* number of transactions rolled back for no visible reason

outboxVars == <<base, draft, writer, txs, acked, aborts>>

DeltaIDs == 1..MaxDeltas
NoSlot == <<>>
Slots == Windows \X Keys

NoRow == [state |-> "absent"]
Row == [state : {"pending", "dispatched"}, sync : Syncs,
        slot : Slots \cup {NoSlot}, at : Ages]
Database == [rows : [DeltaIDs -> Row \cup {NoRow}], jobs : [DeltaIDs -> 0..1]]

Idle == [op |-> "idle"]

(* Type invariant.  A call keeps the items or deltas it has not handled     *)
(* yet, the dedup keys it will acknowledge, the row an Enqueue reads back   *)
(* (0 when none), and whether its reads, if it has any, are still current.  *)
OutboxTypeOK ==
  /\ base \in Database /\ draft \in Database
  /\ writer \in Clients \cup {NoClient}
  /\ writer = NoClient => draft = base
  /\ \A c \in Clients :
       \/ txs[c] = Idle /\ writer # c
       \/ /\ txs[c].op \in {"enqueue", "app", "batch", "dispatch"}
          /\ txs[c].slots \subseteq Slots
          /\ txs[c].back \in 0..MaxDeltas
          /\ txs[c].current \in BOOLEAN
  /\ acked \subseteq Slots
  /\ aborts \in 0..MaxAborts

OutboxInit ==
  /\ base = [rows |-> [d \in DeltaIDs |-> NoRow], jobs |-> [d \in DeltaIDs |-> 0]]
  /\ draft = base
  /\ writer = NoClient
  /\ txs = [c \in Clients |-> Idle]
  /\ acked = {}
  /\ aborts = 0
-----------------------------------------------------------------------------
(* Transactions.                                                            *)

Open(c) == txs[c].op # "idle"
Reads(c) == IF writer = c THEN draft ELSE base
Existing(db) == {d \in DeltaIDs : db.rows[d] # NoRow}

CanWrite(c) == writer \in {NoClient, c} /\ txs[c].current

(* c's transaction goes on as tx, with its writes in db. *)
Writes(c, db, tx) ==
  /\ CanWrite(c)
  /\ writer' = c
  /\ draft' = db
  /\ txs' = [txs EXCEPT ![c] = tx]
  /\ UNCHANGED <<base, acked, aborts>>

(* The transactions that have read, c's apart, read something old now.      *)
(* (A commit that wrote nothing, say of a duplicate, makes no read old.)    *)
StaleBut(c) == [e \in Clients |-> IF e # c /\ txs[e].op = "dispatch"
                  THEN [txs[e] EXCEPT !.current = FALSE] ELSE txs[e]]

Commit(c) ==
  /\ txs' = [(IF Reads(c) # base THEN StaleBut(c) ELSE txs) EXCEPT ![c] = Idle]
  /\ base' = Reads(c)
  /\ IF writer = c THEN writer' = NoClient /\ draft' = base'
                   ELSE UNCHANGED <<writer, draft>>
  /\ acked' = acked \cup txs[c].slots

Rollback(c) ==
  /\ txs' = [txs EXCEPT ![c] = Idle]
  /\ IF writer = c THEN writer' = NoClient /\ draft' = base
                   ELSE UNCHANGED <<writer, draft>>
  /\ UNCHANGED <<base, acked>>

Call(op, todo) == [op |-> op, todo |-> todo, slots |-> {}, back |-> 0, current |-> TRUE]
-----------------------------------------------------------------------------
(* Enqueue, EnqueueInTx and EnqueueBatch.                                   *)

DedupKey(item) ==
  IF item.window = NoWindow THEN NoSlot ELSE <<item.window, item.key>>

(* A batch has one window, which is not empty. *)
ValidBatch(items) ==
  /\ items[1].window # NoWindow
  /\ \A i \in DOMAIN items : items[i].window = items[1].window

BeginEnqueue(c, call) ==
  /\ ~Open(c)
  /\ call.op = "batch" => ValidBatch(call.items)
  /\ txs' = [txs EXCEPT ![c] = Call(call.op, call.items)]
  /\ UNCHANGED <<base, draft, writer, acked, aborts>>

NewRow(item) ==
  [state |-> "pending", sync |-> item.sync, slot |-> DedupKey(item), at |-> item.at]

Twins(db, slot) == {d \in Existing(db) : slot # NoSlot /\ db.rows[d].slot = slot}

Freshest(db) == CHOOSE d \in DeltaIDs \ Existing(db) :
                  \A e \in DeltaIDs \ Existing(db) : d <= e

(* The ID that Enqueue reads back: that of the row it conflicted with, or   *)
(* the one it made for its own.                                             *)
ReadBackID_Own(db, slot, new) == new
ReadBackID(db, slot, new) ==
  IF Twins(db, slot) = {} THEN new ELSE CHOOSE d \in Twins(db, slot) : TRUE

(* INSERT ... ON CONFLICT (dedup_key) DO NOTHING. *)
InsertDelta(c) ==
  LET t    == txs[c]
      db   == Reads(c)
      item == Head(t.todo)
      slot == DedupKey(item)
      new  == Freshest(db)
      next == [t EXCEPT !.todo = Tail(@),
                        !.slots = @ \cup ({<<item.window, item.key>>} \cap Slots)]
  IN  /\ t.op \in {"enqueue", "app", "batch"}
      /\ t.todo # <<>> /\ t.back = 0
      /\ Twins(db, slot) # {} \/ Existing(db) # DeltaIDs
      /\ Writes(c, IF Twins(db, slot) = {} THEN [db EXCEPT !.rows[new] = NewRow(item)]
                                           ELSE db,
                   IF t.op = "batch" THEN next
                     ELSE [next EXCEPT !.back = ReadBackID(db, slot, new)])

(* Enqueue reads its row back: in the caller's transaction, or, without     *)
(* one, after the insert was committed.                                     *)
CommitInsert(c) ==
  /\ txs[c].op = "enqueue" /\ txs[c].back # 0 /\ writer = c
  /\ base' = draft /\ writer' = NoClient
  /\ txs' = IF draft # base THEN StaleBut(c) ELSE txs
  /\ UNCHANGED <<draft, acked, aborts>>

ReadBack(c) ==
  /\ Open(c) /\ txs[c].back # 0
  /\ txs[c].op = "enqueue" => writer # c
  /\ txs[c].back \in Existing(Reads(c))
  /\ txs' = [txs EXCEPT ![c].back = 0]
  /\ UNCHANGED <<base, draft, writer, acked, aborts>>
-----------------------------------------------------------------------------
(* DispatchPending.                                                         *)

PendingDeltas(s) ==
  {d \in Existing(base) : base.rows[d].state = "pending" /\ base.rows[d].sync = s}

Before(c, d) == \/ base.rows[c].at < base.rows[d].at
                \/ base.rows[c].at = base.rows[d].at /\ c < d

(* The transaction begins and reads the first n pending deltas. *)
Pull(c, s, n) ==
  LET pending == PendingDeltas(s)
  IN  /\ ~Open(c)
      /\ \E k \in 1..n : \E q \in [1..k -> pending] :
           /\ k = n \/ \A d \in pending : \E i \in 1..k : q[i] = d
           /\ \A i, j \in 1..k : i < j => Before(q[i], q[j])
           /\ \A d \in pending : (\E i \in 1..k : q[i] = d) \/ Before(q[k], d)
           /\ txs' = [txs EXCEPT ![c] = Call("dispatch", q)]
      /\ UNCHANGED <<base, draft, writer, acked, aborts>>

(* createOutboxFromDeltaTx, which does nothing when the delta has a job,    *)
(* and markDispatchedTx.                                                    *)
Dispatched_SkipsMapped(db, d) ==
  IF db.jobs[d] = 1 THEN db
  ELSE [db EXCEPT !.jobs[d] = 1, !.rows[d].state = "dispatched"]
Dispatched_OnlyMarks(db, d) == [db EXCEPT !.rows[d].state = "dispatched"]
Dispatched(db, d) ==
  [db EXCEPT !.jobs[d] = 1, !.rows[d].state = "dispatched"]

StageDelta(c) ==
  LET t == txs[c]
  IN  /\ t.op = "dispatch" /\ t.todo # <<>>
      /\ Writes(c, Dispatched(Reads(c), Head(t.todo)), [t EXCEPT !.todo = Tail(@)])

(* A call with nothing left to do commits.  (An application that rolls its  *)
(* transaction back is among the aborts.)                                   *)
Finish(c) ==
  /\ Open(c) /\ txs[c].todo = <<>> /\ txs[c].back = 0
  /\ Commit(c)
  /\ UNCHANGED aborts
-----------------------------------------------------------------------------
(* Create of an outbox job, and MarkDispatched: one statement each. *)
Create(c, d) ==
  /\ writer = NoClient
  /\ d \in Existing(base) /\ base.jobs[d] = 0
  /\ base' = [base EXCEPT !.jobs[d] = 1]

MarkDispatched(c, d) ==
  /\ writer = NoClient
  /\ d \in Existing(base)
  /\ base' = [base EXCEPT !.rows[d].state = "dispatched"]

Mapping(c) ==
  /\ ~Open(c)
  /\ \E d \in DeltaIDs : Create(c, d) \/ MarkDispatched(c, d)
  /\ draft' = base'
  /\ txs' = StaleBut(c)
  /\ UNCHANGED <<writer, acked, aborts>>

(* A dispatch that may not write what it read is rolled back and fails. *)
Busy(c) ==
  /\ Open(c) /\ txs[c].op = "dispatch" /\ txs[c].todo # <<>>
  /\ ~CanWrite(c)
  /\ Rollback(c)
  /\ UNCHANGED aborts

(* A crash, a cancelled context, a busy timeout, a failed statement, or a   *)
(* transaction that its application rolls back.                             *)
Abort(c) ==
  /\ Open(c)
  /\ aborts < MaxAborts
  /\ aborts' = aborts + 1
  /\ Rollback(c)

OutboxNext ==
  \/ \E c \in Producers :
       \/ \E call \in Inputs[c] : BeginEnqueue(c, call)
       \/ InsertDelta(c) \/ CommitInsert(c) \/ ReadBack(c) \/ Finish(c)
  \/ \E c \in Dispatchers :
       \/ \E s \in Syncs, n \in PullLimits : Pull(c, s, n)
       \/ StageDelta(c) \/ Finish(c) \/ Busy(c)
  \/ \E c \in Mappers : Mapping(c)
  \/ \E c \in Clients : Abort(c)

OutboxSpec == OutboxInit /\ [][OutboxNext]_outboxVars

(* Worker processes go on, and a transaction that has written is finished:  *)
(* no process keeps the whole database locked for good.  Dispatches are not *)
(* so unlucky that all of them begin while another process writes, or that  *)
(* one that begins in time is overtaken each time.                          *)
OutboxFairness ==
  /\ \A c \in Dispatchers : SF_outboxVars(StageDelta(c)) /\ WF_outboxVars(Finish(c) \/ Busy(c))
  /\ \A s \in Syncs : SF_outboxVars(\E c \in Dispatchers, n \in PullLimits :
                                       writer = NoClient /\ Pull(c, s, n))
  /\ \A c \in Producers : WF_outboxVars(InsertDelta(c) \/ CommitInsert(c)
                                        \/ ReadBack(c) \/ Finish(c))

FairOutboxSpec == OutboxSpec /\ OutboxFairness
-----------------------------------------------------------------------------
(* An enqueue that was reported done is durable: a delta with its dedup key *)
(* is committed, also when it was a duplicate or one item of a batch.       *)
AckedIsRecorded ==
  \A slot \in acked : \E d \in Existing(base) : base.rows[d].slot = slot

(* An enqueue never answers that its row is missing: the row it inserted,   *)
(* or the one it conflicted with, is there when it is read back.            *)
ReadBackFindsRow ==
  \A c \in Producers : Open(c) /\ txs[c].back # 0 =>
    txs[c].back \in Existing(Reads(c))

(* Every acknowledged enqueue has its row, and every enqueue that is still  *)
(* to read a row will find it.                                              *)
RecordsConsistent == OutboxTypeOK /\ AckedIsRecorded /\ ReadBackFindsRow

(* A committed delta is dispatched in the end, whatever collisions of       *)
(* processes and failures happen on the way.                                *)
PendingIsDispatched ==
  \A d \in DeltaIDs :
    d \in Existing(base) ~> (d \in Existing(base) /\ base.rows[d].state = "dispatched")

statusBar == [d \in DeltaIDs |-> base.rows[d].state]
slotBar   == [d \in DeltaIDs |-> IF d \in Existing(base) THEN base.rows[d].slot ELSE NoSlot]

Delivery == INSTANCE Outbox WITH Deltas <- DeltaIDs, status <- statusBar,
                                 slot <- slotBar, jobs <- base.jobs

(* The transactions implement Outbox: a delta leaves the queue at the       *)
(* commit that leaves it with a job, and of the deltas of a dedup key one   *)
(* is ever committed.                                                       *)
ImplementsOutbox == Delivery!DeliverySpec
=============================================================================
